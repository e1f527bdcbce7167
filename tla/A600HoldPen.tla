---------------------------- MODULE A600HoldPen ----------------------------
(***************************************************************************)
(* The A600 secondary-core wake protocol (plat/faraday/a600/a600_pm.c and *)
(* the trusted-mailbox layout of include/platform_def.h).                  *)
(*                                                                         *)
(* Secondary cores wait in a pen: each polls its own 8-byte hold slot and  *)
(* sleeps in WFE while it reads WAIT.  BL31 stores the secure entry point  *)
(* once (plat_setup_psci_ops, store + flush_dcache_range).  A running core *)
(* that serves PSCI CPU_ON(t) calls a600_pwr_domain_on: it stores GO into  *)
(* t's slot, waits in DSB for that store to complete, and sends SEV.  The  *)
(* woken core reads GO, loads the entry point, enters warm boot, and the   *)
(* PSCI library calls a600_pwr_domain_on_finish on it.                     *)
(*                                                                         *)
(* A store does not reach memory when it is executed: it sits in the       *)
(* storing core's write buffer until the interconnect completes it (the    *)
(* mailbox is device memory in BL31, so there is no cache line to clean,   *)
(* but the write can still be acknowledged early).  DSB waits for every    *)
(* outstanding store of the core.  SEV sets every core's event register;   *)
(* WFE returns once the event register is set (clearing it) and may also  *)
(* return spuriously.                                                      *)
(***************************************************************************)
EXTENDS Naturals, FiniteSets

CONSTANTS
  Cores,          \* core positions 0 .. PLATFORM_CORE_COUNT-1
  PRIMARY_CPU,    \* A600_PRIMARY_CPU: the core that runs BL31 cold boot
  SecEntry,       \* the sec_entrypoint handed to plat_setup_psci_ops
  NoEntry,        \* what the entry-point word holds before it is written
  EntryAddr       \* the address PLAT_A600_TM_ENTRYPOINT (a model value)

ASSUME PRIMARY_CPU \in Cores

WAIT == 0   \* PLAT_A600_TM_HOLD_STATE_WAIT
GO   == 1   \* PLAT_A600_TM_HOLD_STATE_GO

\* Addresses a core can have an outstanding store to: the entry-point word
\* or the hold slot hold_base[t] of a core t.
Addrs == {EntryAddr} \cup Cores

\* Per-core program points.  Pen: secondary waiting for its slot; warm:
\* released, in warm boot before pwr_domain_on_finish; run: running (for a
\* secondary, after pwr_domain_on_finish); on_dsb: inside pwr_domain_on,
\* in the DSB after the GO store; boot / setup_flush: the primary in BL31
\* cold boot before / inside plat_setup_psci_ops' flush; standby: in the
\* WFI of a600_cpu_standby.
PenPcs == {"pen_wfe", "pen_load"}
Pcs == PenPcs \cup {"warm", "stale_entry", "run", "on_dsb", "boot", "setup_flush",
                    "standby"}

VARIABLES
  hold,       \* memory value of each hold slot
  entry,      \* memory value of the entry-point word
  wbuf,       \* wbuf[c]: addresses with a store of core c not yet complete
  event,      \* event register of each core
  pc,         \* program point of each core
  aff,        \* PSCI affinity-info state kept by the PSCI library
  psciReady   \* plat_setup_psci_ops has returned; PSCI calls are served

vars == << hold, entry, wbuf, event, pc, aff, psciReady >>

Secondaries == Cores \ {PRIMARY_CPU}

\* The value a completed store writes to memory.
StoreValue(a) == IF a = EntryAddr THEN SecEntry ELSE GO

Init ==
  /\ hold = [t \in Cores |-> WAIT]
  /\ entry = NoEntry
  /\ wbuf = [c \in Cores |-> {}]
  \* The event register's value out of reset is not known.
  /\ event \in [Cores -> BOOLEAN]
  /\ pc = [c \in Cores |-> IF c = PRIMARY_CPU THEN "boot" ELSE "pen_wfe"]
  /\ aff = [c \in Cores |-> IF c = PRIMARY_CPU THEN "ON" ELSE "OFF"]
  /\ psciReady = FALSE

-----------------------------------------------------------------------------
(* plat_setup_psci_ops: *entry_base = sec_entrypoint; then                *)
(* flush_dcache_range, which ends with a DSB.                              *)

SetupPsciOpsStore ==
  /\ pc[PRIMARY_CPU] = "boot"
  /\ wbuf' = [wbuf EXCEPT ![PRIMARY_CPU] = @ \cup {EntryAddr}]
  /\ pc' = [pc EXCEPT ![PRIMARY_CPU] = "setup_flush"]
  /\ UNCHANGED << hold, entry, event, aff, psciReady >>

SetupPsciOpsFlush ==
  /\ pc[PRIMARY_CPU] = "setup_flush"
  /\ EntryAddr \notin wbuf[PRIMARY_CPU]
  /\ pc' = [pc EXCEPT ![PRIMARY_CPU] = "run"]
  /\ psciReady' = TRUE
  /\ UNCHANGED << hold, entry, wbuf, event, aff >>

(* a600_pwr_domain_on(mpidr), reached from PSCI CPU_ON on a running core c *)
(* for a core t that the PSCI library finds OFF (it answers ALREADY_ON or *)
(* ON_PENDING otherwise and marks t ON_PENDING before calling the         *)
(* handler).  pos = plat_core_pos_by_mpidr(mpidr) is t.                   *)
(* hold_base[pos] = GO; then dsb(); isb(); sev(); return PSCI_E_SUCCESS.  *)

PwrDomainOnStoreSlotAbove(c, t) ==
  /\ psciReady
  /\ pc[c] = "run"
  /\ aff[t] = "OFF"
  /\ aff' = [aff EXCEPT ![t] = "ON_PENDING"]
  /\ wbuf' = [wbuf EXCEPT ![c] = @ \cup {t + 1}]
  /\ pc' = [pc EXCEPT ![c] = "on_dsb"]
  /\ UNCHANGED << hold, entry, event, psciReady >>

PwrDomainOnStore(c, t) ==
  /\ psciReady
  /\ pc[c] = "run"
  /\ aff[t] = "OFF"
  /\ aff' = [aff EXCEPT ![t] = "ON_PENDING"]
  /\ wbuf' = [wbuf EXCEPT ![c] = @ \cup {t}]
  /\ pc' = [pc EXCEPT ![c] = "on_dsb"]
  /\ UNCHANGED << hold, entry, event, psciReady >>

\* Variant without the dsb(): SEV may overtake the GO store.
PwrDomainOnSevNoDsb(c) ==
  /\ pc[c] = "on_dsb"
  /\ event' = [d \in Cores |-> TRUE]
  /\ pc' = [pc EXCEPT ![c] = "run"]
  /\ UNCHANGED << hold, entry, wbuf, aff, psciReady >>

PwrDomainOnSev(c) ==
  /\ pc[c] = "on_dsb"
  /\ wbuf[c] = {}
  /\ event' = [d \in Cores |-> TRUE]
  /\ pc' = [pc EXCEPT ![c] = "run"]
  /\ UNCHANGED << hold, entry, wbuf, aff, psciReady >>

(* The interconnect completes an outstanding store of core c.             *)
CompleteStore(c, a) ==
  /\ a \in wbuf[c]
  /\ wbuf' = [wbuf EXCEPT ![c] = @ \ {a}]
  /\ IF a = EntryAddr
       THEN /\ entry' = StoreValue(a)
            /\ UNCHANGED hold
       ELSE /\ hold' = [hold EXCEPT ![a] = StoreValue(a)]
            /\ UNCHANGED entry
  /\ UNCHANGED << event, pc, aff, psciReady >>

(* The secondary's pen loop: wfe; ldr hold[pos]; if GO: ldr entry; br.    *)

PenWfe(c) ==
  /\ pc[c] = "pen_wfe"
  /\ event[c]
  /\ event' = [event EXCEPT ![c] = FALSE]
  /\ pc' = [pc EXCEPT ![c] = "pen_load"]
  /\ UNCHANGED << hold, entry, wbuf, aff, psciReady >>

\* WFE is allowed to return without an event.
PenSpuriousWake(c) ==
  /\ pc[c] = "pen_wfe"
  /\ pc' = [pc EXCEPT ![c] = "pen_load"]
  /\ UNCHANGED << hold, entry, wbuf, event, aff, psciReady >>

PenLoad(c) ==
  /\ pc[c] = "pen_load"
  /\ pc' = [pc EXCEPT ![c] =
              IF hold[c] # GO THEN "pen_wfe"
              ELSE IF entry = SecEntry THEN "warm" ELSE "stale_entry"]
  /\ UNCHANGED << hold, entry, wbuf, event, aff, psciReady >>

(* a600_pwr_domain_on_finish, called by the PSCI library on the woken     *)
(* core, which then marks the core ON.  The handler asserts that level 0  *)
(* wakes from OFF, which is what the library passes for a CPU_ON target.  *)
PwrDomainOnFinish(c) ==
  /\ pc[c] = "warm"
  /\ pc' = [pc EXCEPT ![c] = "run"]
  /\ aff' = [aff EXCEPT ![c] = "ON"]
  /\ UNCHANGED << hold, entry, wbuf, event, psciReady >>

(* a600_cpu_standby, called by the PSCI library for CPU_SUSPEND to the   *)
(* retention state (the only one a600_validate_power_state lets through, *)
(* which the handler asserts): dsb(); wfi().  The DSB waits for the       *)
(* core's outstanding stores; WFI returns on an interrupt, which is not   *)
(* modelled, so the return may happen at any time or never.               *)
CpuStandby(c) ==
  /\ psciReady
  /\ pc[c] = "run"
  /\ wbuf[c] = {}
  /\ pc' = [pc EXCEPT ![c] = "standby"]
  /\ UNCHANGED << hold, entry, wbuf, event, aff, psciReady >>

CpuStandbyWake(c) ==
  /\ pc[c] = "standby"
  /\ pc' = [pc EXCEPT ![c] = "run"]
  /\ UNCHANGED << hold, entry, wbuf, event, aff, psciReady >>

Next ==
  \/ SetupPsciOpsStore
  \/ SetupPsciOpsFlush
  \/ \E c \in Cores, t \in Secondaries : PwrDomainOnStore(c, t)
  \/ \E c \in Cores : PwrDomainOnSev(c)
  \/ \E c \in Cores, a \in Addrs : CompleteStore(c, a)
  \/ \E c \in Secondaries : PenWfe(c) \/ PenSpuriousWake(c) \/ PenLoad(c)
  \/ \E c \in Secondaries : PwrDomainOnFinish(c)
  \/ \E c \in Cores : CpuStandby(c) \/ CpuStandbyWake(c)

(* Fairness.  Every core keeps executing its own code (the pen loop, the   *)
(* rest of a handler, warm boot) and the interconnect eventually completes *)
(* every store.  Whether and when CPU_ON or CPU_SUSPEND is called is up to *)
(* the caller; a spurious WFE return, and an interrupt that ends a WFI,    *)
(* are never guaranteed.                                                   *)
Fairness ==
  /\ WF_vars(SetupPsciOpsStore) /\ WF_vars(SetupPsciOpsFlush)
  /\ \A c \in Cores : WF_vars(PwrDomainOnSev(c))
  /\ \A c \in Cores, a \in Addrs : WF_vars(CompleteStore(c, a))
  /\ \A c \in Secondaries :
       WF_vars(PenWfe(c)) /\ WF_vars(PenLoad(c)) /\ WF_vars(PwrDomainOnFinish(c))

Spec == Init /\ [][Next]_vars /\ Fairness

-----------------------------------------------------------------------------
TypeOK ==
  /\ hold \in [Cores -> {WAIT, GO}]
  /\ entry \in {NoEntry, SecEntry}
  /\ wbuf \in [Cores -> SUBSET Addrs]
  /\ event \in [Cores -> BOOLEAN]
  /\ pc \in [Cores -> Pcs]
  /\ aff \in [Cores -> {"OFF", "ON_PENDING", "ON"}]
  /\ psciReady \in BOOLEAN

PoweredOnCoreEventuallyRuns ==
  \A t \in Secondaries : aff[t] = "ON_PENDING" ~> aff[t] = "ON"
=============================================================================
