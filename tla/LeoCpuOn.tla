------------------------------ MODULE LeoCpuOn ------------------------------
(***************************************************************************)
(* Leo L1 CPU_ON and standby (plat/leo/l1/leo_pm.c).                       *)
(*                                                                         *)
(* Core 1 waits in the boot ROM: WFI; on wake it reads the TAMP backup     *)
(* register holding the magic number and, if it is                        *)
(* BOOT_API_A7_CORE1_MAGIC_NUMBER, the backup register holding the branch  *)
(* address, and jumps there.  Core 0 serves PSCI CPU_ON with              *)
(* leo_pwr_domain_on: it copies its CNTFRQ into the global cntfrq_core0,   *)
(* writes the branch address, then the magic, then raises SGI 0 to core 1. *)
(* Core 1 warm-boots in SP_MIN and the PSCI library calls                  *)
(* leo_pwr_domain_on_finish on it, which writes cntfrq_core0 into its own  *)
(* CNTFRQ.                                                                 *)
(*                                                                         *)
(* Memory: the backup registers are device memory of one peripheral, so   *)
(* core 0's writes to them arrive in program order.  cntfrq_core0 is       *)
(* normal memory: its store may still be in core 0's write buffer after    *)
(* the device writes; gicv2_raise_sgi issues dsbishst before writing       *)
(* GICD_SGIR, which waits for it.                                          *)
(*                                                                         *)
(* leo_cpu_standby (either core, from CPU_SUSPEND with the retention state *)
(* leo_validate_power_state always yields): WFI, acknowledge, EOI unless   *)
(* the ID is 1022 (group 1 pending) or 1023 (spurious), loop while 1023.  *)
(*                                                                         *)
(* SYSTEM_OFF and SYSTEM_RESET stop the calling core for good: the first  *)
(* in panic, the second spinning while the reset it asked for lands.  The *)
(* other core carries on meanwhile.                                        *)
(*                                                                         *)
(* Addresses are in units of 64 KiB so that they fit TLC's integers.       *)
(***************************************************************************)
EXTENDS Integers, FiniteSets

CONSTANTS
  SecEntry,        \* sec_entrypoint handed to plat_setup_psci_ops (64 KiB units)
  SecIrqs,         \* secure (group 0) interrupt IDs other than SGI 0
  NsIrqs,          \* non-secure (group 1) interrupt IDs
  Freq0,           \* core 0's CNTFRQ, programmed before BL32
  FreqReset,       \* CNTFRQ of core 1 out of reset (UNKNOWN)
  SPURIOUS_WAKE,   \* whether the model lets WFI return with nothing pending
  NsEntries,       \* non-secure entry points CPU_ON callers pass (64 KiB units)
  PowerStates,     \* power_state words CPU_SUSPEND callers pass
  SipFids,         \* SiP function IDs callers use
  BsecResults      \* what bsec_main may return

Cores == {0, 1}
LEO_PRIMARY_CPU   == 0
LEO_SECONDARY_CPU == 1

LEO_SYSRAM_BASE == 32768   \* 0x80000000
LEO_SYSRAM_SIZE == 256     \* 0x01000000

ARM_IRQ_SEC_SGI_0 == 8
PENDING_G1_INTID       == 1022
GIC_SPURIOUS_INTERRUPT == 1023

\* The ROM's magic value; any value the reset value 0 of the register is not.
BOOT_API_A7_CORE1_MAGIC_NUMBER == 1

PSCI_E_SUCCESS         == 0
PSCI_E_INVALID_ADDRESS == -9
PSCI_E_INVALID_PARAMS  == -2
HW_ON == 0
\* SMC_UNK, 0xFFFFFFFF, as the 32-bit register reads signed.
SMC_UNK == -1

LEO_DDR_BASE == 32768      \* 0x80000000 (leo_def.h:29)

\* leo_smc.h:20-33.  The UID's first word, 0xa778aa50, is the register
\* value read signed.
LEO_SMC_BSEC == "LEO_SMC_BSEC"
LEO_SIP_SVC_CALL_COUNT == "LEO_SIP_SVC_CALL_COUNT"
LEO_SIP_SVC_UID == "LEO_SIP_SVC_UID"
LEO_SIP_SVC_VERSION == "LEO_SIP_SVC_VERSION"
LEO_SIP_SVC_VERSION_MAJOR == 0
LEO_COMMON_SIP_NUM_CALLS == 4
STM32_SIP_SVC_UID_W0 == -1485280688

\* The PSCI power_state fields (original format): StateID bits 15:0, type
\* bit 16, power level bits 25:24.
PsciGetPstateId(ps) == ps % 65536
PsciGetPstateType(ps) == (ps \div 65536) % 2
PsciGetPstatePwrlvl(ps) == (ps \div 16777216) % 4

\* leo_validate_power_state (leo_pm.c:156-177): only the standby
\* (retention) state of level 0 with StateID 0 is accepted.
LeoValidatePowerState(ps) ==
  IF \/ PsciGetPstateType(ps) # 0
     \/ PsciGetPstatePwrlvl(ps) # 0
     \/ PsciGetPstateId(ps) # 0
  THEN PSCI_E_INVALID_PARAMS ELSE PSCI_E_SUCCESS

\* leo_validate_ns_entrypoint (leo_pm.c:179-187).
LeoValidateNsEntrypoint(ep) ==
  IF ep < LEO_DDR_BASE THEN PSCI_E_INVALID_ADDRESS ELSE PSCI_E_SUCCESS

\* leo_node_hw_state (leo_pm.c:189-207).
LeoNodeHwState(target, level) ==
  IF level # 0 THEN PSCI_E_INVALID_PARAMS ELSE HW_ON

\* r0 of leo_svc_smc_handler (leo_svc_setup.c:38-83); bsec is what
\* bsec_main returned.
LeoSvcSmcHandler(fid, bsec) ==
  CASE fid = LEO_SIP_SVC_CALL_COUNT -> LEO_COMMON_SIP_NUM_CALLS
    [] fid = LEO_SIP_SVC_UID        -> STM32_SIP_SVC_UID_W0
    [] fid = LEO_SIP_SVC_VERSION    -> LEO_SIP_SVC_VERSION_MAJOR
    [] fid = LEO_SMC_BSEC           -> bsec
    [] OTHER                        -> SMC_UNK

SecureIrqs == SecIrqs \cup {ARM_IRQ_SEC_SGI_0}
Irqs == SecureIrqs \cup NsIrqs

\* Program points.  Core 1 in the ROM: rom_wfi, rom_magic, rom_addr; then
\* warm (jumped, warm boot before on_finish) and run.  Core 0: boot
\* (SP_MIN cold boot before plat_setup_psci_ops), run, and inside
\* leo_pwr_domain_on: on_addr, on_magic, on_sgi (after line 76, 79, 82).
RomPcs == {"rom_wfi", "rom_magic", "rom_addr"}
\* A core that called SYSTEM_OFF or SYSTEM_RESET: panic, reset_spin.
Pcs == RomPcs \cup {"boot", "warm", "run", "on_addr", "on_magic", "on_sgi",
                    "panic", "reset_spin"}
\* Standby program points: none, wfi, ack, eoi.
StandbyPcs == {"none", "wfi", "ack", "eoi"}

VARIABLES
  leo_sec_entrypoint,  \* static in leo_pm.c (0 in .bss until setup)
  cntfrq_core0,        \* static in leo_pm.c, value in memory
  cntfrqStore,         \* core 0's store to cntfrq_core0 not yet complete
  bkpr_addr,           \* TAMP backup register: core 1 branch address
  bkpr_magic,          \* TAMP backup register: core 1 magic number
  pc,                  \* program point of each core
  jump,                \* where core 1 branched from the ROM (0: not yet)
  cntfrq,              \* CNTFRQ of each core
  aff,                 \* PSCI affinity-info state of each core
  pending,             \* GIC: interrupts pending for each core
  active,              \* GIC: interrupts active on each core
  spc,                 \* standby program point of each core
  intid,               \* standby: the ID the last acknowledge returned
  x0                   \* r0 as the last SMC of each core returns it

vars == << leo_sec_entrypoint, cntfrq_core0, cntfrqStore, bkpr_addr,
           bkpr_magic, pc, jump, cntfrq, aff, pending, active, spc, intid,
           x0 >>

Init ==
  /\ leo_sec_entrypoint = 0
  /\ cntfrq_core0 = 0
  /\ cntfrqStore = {}
  /\ bkpr_addr = 0
  /\ bkpr_magic = 0
  /\ pc = [c \in Cores |-> IF c = LEO_PRIMARY_CPU THEN "boot" ELSE "rom_wfi"]
  /\ jump = 0
  /\ cntfrq = [c \in Cores |-> IF c = LEO_PRIMARY_CPU THEN Freq0 ELSE FreqReset]
  /\ aff = [c \in Cores |-> IF c = LEO_PRIMARY_CPU THEN "ON" ELSE "OFF"]
  /\ pending = [c \in Cores |-> {}]
  /\ active = [c \in Cores |-> {}]
  /\ spc = [c \in Cores |-> "none"]
  /\ intid = [c \in Cores |-> GIC_SPURIOUS_INTERRUPT]
  /\ x0 = [c \in Cores |-> 0]

-----------------------------------------------------------------------------
(* plat_setup_psci_ops: leo_sec_entrypoint = sec_entrypoint.               *)
PlatSetupPsciOps ==
  /\ pc[LEO_PRIMARY_CPU] = "boot"
  /\ leo_sec_entrypoint' = SecEntry
  /\ pc' = [pc EXCEPT ![LEO_PRIMARY_CPU] = "run"]
  /\ UNCHANGED << x0, cntfrq_core0, cntfrqStore, bkpr_addr, bkpr_magic, jump,
                  cntfrq, aff, pending, active, spc, intid >>

InSysram(a) == LEO_SYSRAM_BASE <= a /\ a <= LEO_SYSRAM_BASE + (LEO_SYSRAM_SIZE - 1)

(* PSCI CPU_ON(t) on running core c.  The library answers ALREADY_ON or   *)
(* ON_PENDING itself unless t is OFF (so t is never c), marks t           *)
(* ON_PENDING and calls leo_pwr_domain_on; on an error return it puts t   *)
(* back to OFF.  The handler refuses an entry point outside SYSRAM, else  *)
(* stores read_cntfrq_el0() into cntfrq_core0 (line 76).                  *)

\* CPU_ON fails with INVALID_ADDRESS when the library's
\* psci_validate_entry_point rejects ep through leo_validate_ns_entrypoint,
\* or when the handler finds leo_sec_entrypoint outside SYSRAM.
CpuOnRefused(ep) ==
  \/ LeoValidateNsEntrypoint(ep) # PSCI_E_SUCCESS
  \/ ~InSysram(leo_sec_entrypoint)

\* Variant: the magic number written before the branch address.
PwrDomainOnMagicEarly(c, t, ep) ==
  /\ pc[c] = "run" /\ spc[c] = "none"
  /\ aff[t] = "OFF"
  /\ IF CpuOnRefused(ep)
       THEN /\ x0' = [x0 EXCEPT ![c] = PSCI_E_INVALID_ADDRESS]
            /\ UNCHANGED << pc, aff, cntfrqStore, bkpr_magic >>
       ELSE /\ aff' = [aff EXCEPT ![t] = "ON_PENDING"]
            /\ cntfrqStore' = {cntfrq[c]}
            /\ bkpr_magic' = BOOT_API_A7_CORE1_MAGIC_NUMBER
            /\ pc' = [pc EXCEPT ![c] = "on_addr"]
            /\ x0' = [x0 EXCEPT ![c] = PSCI_E_SUCCESS]
  /\ UNCHANGED << leo_sec_entrypoint, cntfrq_core0, bkpr_addr, jump,
                  cntfrq, pending, active, spc, intid >>

\* x0 is set at the call: nothing the handler does later changes its result.
PwrDomainOn(c, t, ep) ==
  /\ pc[c] = "run" /\ spc[c] = "none"
  /\ aff[t] = "OFF"
  /\ IF CpuOnRefused(ep)
       THEN /\ x0' = [x0 EXCEPT ![c] = PSCI_E_INVALID_ADDRESS]
            /\ UNCHANGED << pc, aff, cntfrqStore >>
       ELSE /\ aff' = [aff EXCEPT ![t] = "ON_PENDING"]
            /\ cntfrqStore' = {cntfrq[c]}
            /\ pc' = [pc EXCEPT ![c] = "on_addr"]
            /\ x0' = [x0 EXCEPT ![c] = PSCI_E_SUCCESS]
  /\ UNCHANGED << leo_sec_entrypoint, cntfrq_core0, bkpr_addr, bkpr_magic,
                  jump, cntfrq, pending, active, spc, intid >>

\* mmio_write_32(bkpr_core1_addr, leo_sec_entrypoint)
PwrDomainOnWriteAddr(c) ==
  /\ pc[c] = "on_addr"
  /\ bkpr_addr' = leo_sec_entrypoint
  /\ pc' = [pc EXCEPT ![c] = "on_magic"]
  /\ UNCHANGED << x0, leo_sec_entrypoint, cntfrq_core0, cntfrqStore, bkpr_magic,
                  jump, cntfrq, aff, pending, active, spc, intid >>

\* Variant: the magic number written to the branch-address register.
PwrDomainOnWriteMagicWrongReg(c) ==
  /\ pc[c] = "on_magic"
  /\ bkpr_addr' = BOOT_API_A7_CORE1_MAGIC_NUMBER
  /\ pc' = [pc EXCEPT ![c] = "on_sgi"]
  /\ UNCHANGED << x0, leo_sec_entrypoint, cntfrq_core0, cntfrqStore, bkpr_magic,
                  jump, cntfrq, aff, pending, active, spc, intid >>

\* mmio_write_32(bkpr_core1_magic, BOOT_API_A7_CORE1_MAGIC_NUMBER)
PwrDomainOnWriteMagic(c) ==
  /\ pc[c] = "on_magic"
  /\ bkpr_magic' = BOOT_API_A7_CORE1_MAGIC_NUMBER
  /\ pc' = [pc EXCEPT ![c] = "on_sgi"]
  /\ UNCHANGED << x0, leo_sec_entrypoint, cntfrq_core0, cntfrqStore, bkpr_addr,
                  jump, cntfrq, aff, pending, active, spc, intid >>

\* Variant: the SGI sent to the calling core instead of LEO_SECONDARY_CPU.
PwrDomainOnRaiseSgiToSelf(c) ==
  /\ pc[c] = "on_sgi"
  /\ cntfrqStore = {}
  /\ pending' = [pending EXCEPT ![c] = @ \cup {ARM_IRQ_SEC_SGI_0}]
  /\ pc' = [pc EXCEPT ![c] = "run"]
  /\ UNCHANGED << x0, leo_sec_entrypoint, cntfrq_core0, cntfrqStore, bkpr_addr,
                  bkpr_magic, jump, cntfrq, aff, active, spc, intid >>

\* gicv2_raise_sgi(ARM_IRQ_SEC_SGI_0, LEO_SECONDARY_CPU): dsbishst, which
\* waits for the cntfrq_core0 store, then the write to GICD_SGIR; return
\* PSCI_E_SUCCESS.
PwrDomainOnRaiseSgi(c) ==
  /\ pc[c] = "on_sgi"
  /\ cntfrqStore = {}
  /\ pending' = [pending EXCEPT ![LEO_SECONDARY_CPU] = @ \cup {ARM_IRQ_SEC_SGI_0}]
  /\ pc' = [pc EXCEPT ![c] = "run"]
  /\ UNCHANGED << x0, leo_sec_entrypoint, cntfrq_core0, cntfrqStore, bkpr_addr,
                  bkpr_magic, jump, cntfrq, aff, active, spc, intid >>

\* The interconnect completes core 0's store to cntfrq_core0.
CompleteCntfrqStore ==
  /\ cntfrqStore # {}
  /\ cntfrq_core0' = CHOOSE v \in cntfrqStore : TRUE
  /\ cntfrqStore' = {}
  /\ UNCHANGED << x0, leo_sec_entrypoint, bkpr_addr, bkpr_magic, pc, jump,
                  cntfrq, aff, pending, active, spc, intid >>

-----------------------------------------------------------------------------
(* Core 1 in the boot ROM.  WFI returns once an interrupt is pending for   *)
(* the core; the ROM takes the wake-up SGI off the pending list.  With     *)
(* SPURIOUS_WAKE, WFI may also return with nothing pending.                *)
RomWfiWake ==
  /\ pc[LEO_SECONDARY_CPU] = "rom_wfi"
  /\ pending[LEO_SECONDARY_CPU] # {}
  /\ pending' = [pending EXCEPT ![LEO_SECONDARY_CPU] = @ \ {ARM_IRQ_SEC_SGI_0}]
  /\ pc' = [pc EXCEPT ![LEO_SECONDARY_CPU] = "rom_magic"]
  /\ UNCHANGED << x0, leo_sec_entrypoint, cntfrq_core0, cntfrqStore, bkpr_addr,
                  bkpr_magic, jump, cntfrq, aff, active, spc, intid >>

RomWfiSpurious ==
  /\ SPURIOUS_WAKE
  /\ pc[LEO_SECONDARY_CPU] = "rom_wfi"
  /\ pc' = [pc EXCEPT ![LEO_SECONDARY_CPU] = "rom_magic"]
  /\ UNCHANGED << x0, leo_sec_entrypoint, cntfrq_core0, cntfrqStore, bkpr_addr,
                  bkpr_magic, jump, cntfrq, aff, pending, active, spc, intid >>

RomReadMagic ==
  /\ pc[LEO_SECONDARY_CPU] = "rom_magic"
  /\ pc' = [pc EXCEPT ![LEO_SECONDARY_CPU] =
              IF bkpr_magic = BOOT_API_A7_CORE1_MAGIC_NUMBER
              THEN "rom_addr" ELSE "rom_wfi"]
  /\ UNCHANGED << x0, leo_sec_entrypoint, cntfrq_core0, cntfrqStore, bkpr_addr,
                  bkpr_magic, jump, cntfrq, aff, pending, active, spc, intid >>

RomReadAddr ==
  /\ pc[LEO_SECONDARY_CPU] = "rom_addr"
  /\ jump' = bkpr_addr
  /\ pc' = [pc EXCEPT ![LEO_SECONDARY_CPU] = "warm"]
  /\ UNCHANGED << x0, leo_sec_entrypoint, cntfrq_core0, cntfrqStore, bkpr_addr,
                  bkpr_magic, cntfrq, aff, pending, active, spc, intid >>

(* Warm boot reaches the PSCI library only from the SP_MIN entry point.   *)
(* leo_pwr_domain_on_finish: leomp1_gic_pcpu_init() (CPU interface set-up *)
(* only); write_cntfrq_el0(cntfrq_core0).  The library then marks the     *)
(* core ON.                                                                *)
PwrDomainOnFinish ==
  /\ pc[LEO_SECONDARY_CPU] = "warm"
  /\ jump = SecEntry
  /\ cntfrq' = [cntfrq EXCEPT ![LEO_SECONDARY_CPU] = cntfrq_core0]
  /\ aff' = [aff EXCEPT ![LEO_SECONDARY_CPU] = "ON"]
  /\ pc' = [pc EXCEPT ![LEO_SECONDARY_CPU] = "run"]
  /\ UNCHANGED << x0, leo_sec_entrypoint, cntfrq_core0, cntfrqStore, bkpr_addr,
                  bkpr_magic, jump, pending, active, spc, intid >>

-----------------------------------------------------------------------------
(* PSCI CPU_SUSPEND(ps) on a running core c.  The library asks           *)
(* leo_validate_power_state and returns its error; a valid ps is the     *)
(* level-0 retention state, which enters leo_cpu_standby.                *)
CpuStandbyEnter(c, ps) ==
  /\ pc[c] = "run" /\ spc[c] = "none"
  /\ x0' = [x0 EXCEPT ![c] = LeoValidatePowerState(ps)]
  /\ spc' = IF LeoValidatePowerState(ps) = PSCI_E_SUCCESS
               THEN [spc EXCEPT ![c] = "wfi"] ELSE spc
  /\ UNCHANGED << leo_sec_entrypoint, cntfrq_core0, cntfrqStore, bkpr_addr,
                  bkpr_magic, pc, jump, cntfrq, aff, pending, active, intid >>

\* PSCI NODE_HW_STATE(t, level): the library validates t, then returns
\* leo_node_hw_state.
NodeHwState(c, t, level) ==
  /\ pc[c] = "run" /\ spc[c] = "none"
  /\ x0' = [x0 EXCEPT ![c] = LeoNodeHwState(t, level)]
  /\ UNCHANGED << leo_sec_entrypoint, cntfrq_core0, cntfrqStore, bkpr_addr,
                  bkpr_magic, pc, jump, cntfrq, aff, pending, active, spc,
                  intid >>

\* A SiP SMC, dispatched to leo_svc_smc_handler.
SipCall(c, fid) ==
  /\ pc[c] = "run" /\ spc[c] = "none"
  /\ \E bsec \in BsecResults : x0' = [x0 EXCEPT ![c] = LeoSvcSmcHandler(fid, bsec)]
  /\ UNCHANGED << leo_sec_entrypoint, cntfrq_core0, cntfrqStore, bkpr_addr,
                  bkpr_magic, pc, jump, cntfrq, aff, pending, active, spc,
                  intid >>

CpuStandbyWfi(c) ==
  /\ spc[c] = "wfi"
  /\ pending[c] # {}
  /\ spc' = [spc EXCEPT ![c] = "ack"]
  /\ UNCHANGED << x0, leo_sec_entrypoint, cntfrq_core0, cntfrqStore, bkpr_addr,
                  bkpr_magic, pc, jump, cntfrq, aff, pending, active, intid >>

CpuStandbySpuriousWake(c) ==
  /\ SPURIOUS_WAKE
  /\ spc[c] = "wfi"
  /\ spc' = [spc EXCEPT ![c] = "ack"]
  /\ UNCHANGED << x0, leo_sec_entrypoint, cntfrq_core0, cntfrqStore, bkpr_addr,
                  bkpr_magic, pc, jump, cntfrq, aff, pending, active, intid >>

(* gicv2_acknowledge_interrupt from the secure side: the highest-priority  *)
(* pending interrupt (secure ones are above non-secure ones) becomes       *)
(* active and its ID is returned; if only group-1 interrupts are pending   *)
(* it returns 1022 and leaves them pending; with none, 1023.  Then the    *)
(* code EOIs unless the ID is 1022 or 1023, and loops while it is 1023.    *)
AckSecure(c, next) ==
  \E i \in pending[c] \cap SecureIrqs :
    /\ pending' = [pending EXCEPT ![c] = @ \ {i}]
    /\ active' = [active EXCEPT ![c] = @ \cup {i}]
    /\ intid' = [intid EXCEPT ![c] = i]
    /\ spc' = [spc EXCEPT ![c] = next]

AckGroup1(c, next) ==
  /\ pending[c] \cap SecureIrqs = {}
  /\ pending[c] \cap NsIrqs # {}
  /\ intid' = [intid EXCEPT ![c] = PENDING_G1_INTID]
  /\ spc' = [spc EXCEPT ![c] = next]
  /\ UNCHANGED << pending, active >>

AckSpurious(c) ==
  /\ pending[c] = {}
  /\ intid' = [intid EXCEPT ![c] = GIC_SPURIOUS_INTERRUPT]
  /\ spc' = [spc EXCEPT ![c] = "wfi"]
  /\ UNCHANGED << pending, active >>

\* Variant: a secure interrupt is acknowledged and never ended.
CpuStandbyAckNoEoi(c) ==
  /\ spc[c] = "ack"
  /\ AckSecure(c, "none") \/ AckGroup1(c, "none") \/ AckSpurious(c)
  /\ UNCHANGED << x0, leo_sec_entrypoint, cntfrq_core0, cntfrqStore, bkpr_addr,
                  bkpr_magic, pc, jump, cntfrq, aff >>

\* Variant: the loop also continues on 1022 (while (interrupt >= 1022)).
CpuStandbyAckG1Loops(c) ==
  /\ spc[c] = "ack"
  /\ AckSecure(c, "eoi") \/ AckGroup1(c, "wfi") \/ AckSpurious(c)
  /\ UNCHANGED << x0, leo_sec_entrypoint, cntfrq_core0, cntfrqStore, bkpr_addr,
                  bkpr_magic, pc, jump, cntfrq, aff >>

CpuStandbyAck(c) ==
  /\ spc[c] = "ack"
  /\ AckSecure(c, "eoi") \/ AckGroup1(c, "none") \/ AckSpurious(c)
  /\ UNCHANGED << x0, leo_sec_entrypoint, cntfrq_core0, cntfrqStore, bkpr_addr,
                  bkpr_magic, pc, jump, cntfrq, aff >>

\* gicv2_end_of_interrupt(interrupt); the loop then ends.
CpuStandbyEoi(c) ==
  /\ spc[c] = "eoi"
  /\ active' = [active EXCEPT ![c] = @ \ {intid[c]}]
  /\ spc' = [spc EXCEPT ![c] = "none"]
  /\ UNCHANGED << x0, leo_sec_entrypoint, cntfrq_core0, cntfrqStore, bkpr_addr,
                  bkpr_magic, pc, jump, cntfrq, aff, pending, intid >>

-----------------------------------------------------------------------------
(* PSCI SYSTEM_OFF and SYSTEM_RESET on a running core c; the library calls *)
(* the platform hook directly, leaving the affinity states alone.          *)

\* leo_system_off: "operation not handled", panic().
SystemOff(c) ==
  /\ pc[c] = "run" /\ spc[c] = "none"
  /\ pc' = [pc EXCEPT ![c] = "panic"]
  /\ UNCHANGED << x0, leo_sec_entrypoint, cntfrq_core0, cntfrqStore, bkpr_addr,
                  bkpr_magic, jump, cntfrq, aff, pending, active, spc, intid >>

\* leo_system_reset: set MPSYSRST in RCC_MP_GRSTCSETR, then loop "in case
\* system reset is not immediately caught".  The reset ends the system and
\* is not a step here: every behaviour is one the reset may cut short, so
\* what holds of it holds up to the reset.
SystemReset(c) ==
  /\ pc[c] = "run" /\ spc[c] = "none"
  /\ pc' = [pc EXCEPT ![c] = "reset_spin"]
  /\ UNCHANGED << x0, leo_sec_entrypoint, cntfrq_core0, cntfrqStore, bkpr_addr,
                  bkpr_magic, jump, cntfrq, aff, pending, active, spc, intid >>

-----------------------------------------------------------------------------
(* The environment.  A device raises an interrupt for a running core; a   *)
(* running core outside standby and outside the PSCI handler takes a      *)
(* pending interrupt in the world it belongs to (SP_MIN's handler for a   *)
(* secure one, the normal world for a group-1 one).                        *)
RaiseIrq(c, i) ==
  /\ aff[c] = "ON"
  /\ i \notin pending[c] \cup active[c]
  /\ pending' = [pending EXCEPT ![c] = @ \cup {i}]
  /\ UNCHANGED << x0, leo_sec_entrypoint, cntfrq_core0, cntfrqStore, bkpr_addr,
                  bkpr_magic, pc, jump, cntfrq, aff, active, spc, intid >>

TakeIrq(c, i) ==
  /\ pc[c] = "run" /\ spc[c] = "none"
  /\ i \in pending[c]
  /\ pending' = [pending EXCEPT ![c] = @ \ {i}]
  /\ UNCHANGED << x0, leo_sec_entrypoint, cntfrq_core0, cntfrqStore, bkpr_addr,
                  bkpr_magic, pc, jump, cntfrq, aff, active, spc, intid >>

-----------------------------------------------------------------------------
Next ==
  \/ PlatSetupPsciOps
  \/ \E c, t \in Cores, ep \in NsEntries : PwrDomainOn(c, t, ep)
  \/ \E c \in Cores : PwrDomainOnWriteAddr(c) \/ PwrDomainOnWriteMagic(c)
                       \/ PwrDomainOnRaiseSgi(c)
  \/ CompleteCntfrqStore
  \/ RomWfiWake \/ RomWfiSpurious \/ RomReadMagic \/ RomReadAddr
  \/ PwrDomainOnFinish
  \/ \E c \in Cores, ps \in PowerStates : CpuStandbyEnter(c, ps)
  \/ \E c, t \in Cores, level \in {0, 1} : NodeHwState(c, t, level)
  \/ \E c \in Cores, fid \in SipFids : SipCall(c, fid)
  \/ \E c \in Cores : \/ CpuStandbyWfi(c)
                       \/ CpuStandbySpuriousWake(c) \/ CpuStandbyAck(c)
                       \/ CpuStandbyEoi(c)
  \/ \E c \in Cores : SystemOff(c) \/ SystemReset(c)
  \/ \E c \in Cores, i \in SecIrqs \cup NsIrqs : RaiseIrq(c, i)
  \/ \E c \in Cores, i \in Irqs : TakeIrq(c, i)

(* Fairness.  Each core keeps executing the code it is in (a handler, the *)
(* ROM loop, warm boot, the standby loop), WFI returns while an interrupt *)
(* is pending, and stores complete.  Nothing forces CPU_ON, CPU_SUSPEND, a *)
(* device interrupt, a spurious wake-up, SYSTEM_OFF or SYSTEM_RESET.      *)
Fairness ==
  /\ WF_vars(PlatSetupPsciOps) /\ WF_vars(CompleteCntfrqStore)
  /\ \A c \in Cores :
       /\ WF_vars(PwrDomainOnWriteAddr(c)) /\ WF_vars(PwrDomainOnWriteMagic(c))
       /\ WF_vars(PwrDomainOnRaiseSgi(c))
       /\ WF_vars(CpuStandbyWfi(c)) /\ WF_vars(CpuStandbyAck(c))
       /\ WF_vars(CpuStandbyEoi(c))
  /\ WF_vars(RomWfiWake) /\ WF_vars(RomReadMagic) /\ WF_vars(RomReadAddr)
  /\ WF_vars(PwrDomainOnFinish)

Spec == Init /\ [][Next]_vars /\ Fairness

-----------------------------------------------------------------------------
TypeOK ==
  /\ leo_sec_entrypoint \in {0, SecEntry}
  /\ cntfrq_core0 \in {0, Freq0}
  /\ cntfrqStore \in SUBSET {Freq0}
  /\ bkpr_addr \in {0, SecEntry}
  /\ bkpr_magic \in {0, BOOT_API_A7_CORE1_MAGIC_NUMBER}
  /\ pc \in [Cores -> Pcs]
  /\ jump \in {0, SecEntry}
  /\ cntfrq \in [Cores -> {0, Freq0, FreqReset}]
  /\ aff \in [Cores -> {"OFF", "ON_PENDING", "ON"}]
  /\ pending \in [Cores -> SUBSET Irqs]
  /\ active \in [Cores -> SUBSET SecureIrqs]
  /\ spc \in [Cores -> StandbyPcs]
  /\ intid \in [Cores -> Irqs \cup {PENDING_G1_INTID, GIC_SPURIOUS_INTERRUPT}]
  /\ x0 \in [Cores -> {PSCI_E_SUCCESS, PSCI_E_INVALID_PARAMS, PSCI_E_INVALID_ADDRESS,
                       HW_ON, SMC_UNK, LEO_COMMON_SIP_NUM_CALLS,
                       STM32_SIP_SVC_UID_W0, LEO_SIP_SVC_VERSION_MAJOR}
                      \cup BsecResults]

\* Core 1 leaves the ROM only after CPU_ON accepted it, and whenever it
\* leaves, even on a spurious wake-up in the middle of leo_pwr_domain_on,
\* it branches to leo_sec_entrypoint: it never sees the magic number with
\* the branch-address register still holding its old value.
Core1JumpsToSecEntry ==
  pc[LEO_SECONDARY_CPU] \notin RomPcs =>
    /\ aff[LEO_SECONDARY_CPU] # "OFF"
    /\ jump = leo_sec_entrypoint

\* Once core 1 runs, its CNTFRQ is core 0's: leo_pwr_domain_on_finish
\* reads cntfrq_core0 only after core 0's store of it is visible.
Core1RunsWithCore0Frequency ==
  pc[LEO_SECONDARY_CPU] = "run" =>
    cntfrq[LEO_SECONDARY_CPU] = cntfrq[LEO_PRIMARY_CPU]

\* An interrupt leo_cpu_standby acknowledged is ended before standby
\* returns: a core outside the EOI step of standby has nothing active.
StandbyEndsWhatItAcks ==
  \A c \in Cores :
    active[c] # {} => (spc[c] = "eoi" /\ active[c] = {intid[c]})

\* CPU_ON leo_pwr_domain_on accepted eventually runs core 1.
Core1EventuallyRuns ==
  aff[LEO_SECONDARY_CPU] = "ON_PENDING" ~> aff[LEO_SECONDARY_CPU] = "ON"

\* A core in leo_cpu_standby with an interrupt pending, secure or not,
\* eventually returns from standby (a group-1 interrupt is left to the
\* normal world rather than spun on).
StandbyReturnsOnPendingInterrupt ==
  \A c \in Cores :
    (spc[c] # "none" /\ pending[c] # {}) ~> spc[c] = "none"

=============================================================================
