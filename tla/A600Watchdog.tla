---------------------------- MODULE A600Watchdog ----------------------------
(***************************************************************************)
(* A600 system reset and system off (plat/faraday/a600/a600_pm.c:156-209): *)
(* a600_system_reset and a600_system_off both end in a600_watchdog_reset,  *)
(* which arms the PM watchdog, selects a full reset in RSTC and waits in   *)
(* WFI for the watchdog to fire.  a600_system_off first marks partition 63 *)
(* (halt) in RSTS for the VideoCore boot firmware.                         *)
(*                                                                         *)
(* The PM block accepts a write only when its top byte is the password     *)
(* 0x5A and does not store that byte, so registers hold their low 24 bits  *)
(* and read back with a zero top byte.  The watchdog counts the WDOG value *)
(* down, one tick at a time, and on zero performs the reset RSTC.WRCFG     *)
(* selects.                                                                *)
(***************************************************************************)
EXTENDS Integers, Bitwise

CONSTANTS
  InitRsts,   \* values RSTS may hold when the handler runs
  InitRstc    \* values RSTC may hold when the handler runs

\* Variant: a shorter timeout.
RESET_TIMEOUT_SHORT == 1

\* a600_pm.c:158-159 and a600_hw.h:34-43.
RESET_TIMEOUT == 10
A600_PM_PASSWORD == 1509949440          \* 0x5A000000
A600_PM_RSTC_WRCFG_MASK == 48           \* 0x30
A600_PM_RSTC_WRCFG_FULL_RESET == 32     \* 0x20
A600_PM_RSTS_WRCFG_HALT == 1365         \* 0x555

\* Bit operations on a value read from a PM register (top byte zero).
\* The password occupies bits 31:24, which such a value leaves clear, so
\* OR-ing it in is an addition; WRCFG is bits 5:4; the halt pattern lies in
\* bits 11:0.
OrPassword(v) == v + A600_PM_PASSWORD
Wrcfg(v) == ((v \div 16) % 4) * 16
ClearWrcfg(v) == v - Wrcfg(v)
OrLow12(v, k) == v - (v % 4096) + ((v % 4096) | k)

\* A PM write is taken only with the password in bits 31:24.
Accepted(v) == v \div 16777216 = 90
Stored(v) == v % 16777216

\* The boot partition in RSTS: bits 0, 2, 4, 6, 8 and 10 (a600_hw.h:37-42).
Partition(v) == LET Bit(i) == (v \div 2^(2 * i)) % 2
                IN  Bit(0) + 2 * Bit(1) + 4 * Bit(2) + 8 * Bit(3)
                    + 16 * Bit(4) + 32 * Bit(5)
HALT_PARTITION == 63


VARIABLES
  req,       \* which PSCI handler was called: "reset" or "off"
  pc,        \* where the calling core is
  rstc,      \* the local rstc of a600_watchdog_reset
  RSTC, RSTS,
  wdog,      \* watchdog count, -1 when not armed
  stepped,   \* the core has executed a step since the last watchdog tick
  outcome    \* "none", "full" (the reset RSTC asks for) or "other"

vars == <<req, pc, rstc, RSTC, RSTS, wdog, stepped, outcome>>

Init ==
  /\ req \in {"reset", "off"}
  /\ pc = req
  /\ rstc = 0
  /\ RSTC \in InitRstc
  /\ RSTS \in InitRsts
  /\ wdog = -1
  /\ stepped = FALSE
  /\ outcome = "none"

\* The PM register write of a value v.
PmWrite(reg, v) == reg' = IF Accepted(v) THEN Stored(v) ELSE reg

----------------------------------------------------------------------------
(* The calling core.                                                       *)

\* Lines 184-189.
SystemReset ==
  /\ pc = "reset"
  /\ pc' = "flush"
  /\ stepped' = TRUE
  /\ UNCHANGED <<req, rstc, RSTC, RSTS, wdog, outcome>>

\* Variant: the halt pattern written without the password.
SystemOffNoPassword ==
  /\ pc = "off"
  /\ PmWrite(RSTS, OrLow12(RSTS, A600_PM_RSTS_WRCFG_HALT))
  /\ pc' = "flush"
  /\ stepped' = TRUE
  /\ UNCHANGED <<req, rstc, RSTC, wdog, outcome>>

\* Lines 191-209: RSTS |= PASSWORD | HALT, then the watchdog reset.
SystemOff ==
  /\ pc = "off"
  /\ PmWrite(RSTS, OrPassword(OrLow12(RSTS, A600_PM_RSTS_WRCFG_HALT)))
  /\ pc' = "flush"
  /\ stepped' = TRUE
  /\ UNCHANGED <<req, rstc, RSTC, wdog, outcome>>

\* Lines 165-168: console_flush, dsb, isb.
WatchdogResetFlush ==
  /\ pc = "flush"
  /\ pc' = "wdog"
  /\ stepped' = TRUE
  /\ UNCHANGED <<req, rstc, RSTC, RSTS, wdog, outcome>>

\* Lines 170-171: arm the watchdog.
WatchdogResetArm ==
  /\ pc = "wdog"
  /\ wdog' = Stored(OrPassword(RESET_TIMEOUT)) % 1048576
  /\ pc' = "rstc_read"
  /\ stepped' = TRUE
  /\ UNCHANGED <<req, rstc, RSTC, RSTS, outcome>>

\* Line 173.
WatchdogResetReadRstc ==
  /\ pc = "rstc_read"
  /\ rstc' = RSTC
  /\ pc' = "rstc_write"
  /\ stepped' = TRUE
  /\ UNCHANGED <<req, RSTC, RSTS, wdog, outcome>>

\* Lines 174-176: select the full reset, then lines 178-180: wfi forever.
WatchdogResetWriteRstc ==
  /\ pc = "rstc_write"
  /\ PmWrite(RSTC, OrPassword(ClearWrcfg(rstc) + A600_PM_RSTC_WRCFG_FULL_RESET))
  /\ pc' = "wfi"
  /\ stepped' = TRUE
  /\ UNCHANGED <<req, rstc, RSTS, wdog, outcome>>

----------------------------------------------------------------------------
(* The watchdog.  The core executes at least one step per watchdog tick    *)
(* (a tick is the timer clock / 16) unless it is waiting in WFI.           *)

WatchdogTick ==
  /\ outcome = "none"
  /\ wdog > 0
  /\ stepped \/ pc = "wfi"
  /\ wdog' = wdog - 1
  /\ stepped' = FALSE
  /\ UNCHANGED <<req, pc, rstc, RSTC, RSTS, outcome>>

WatchdogFire ==
  /\ outcome = "none"
  /\ wdog = 0
  /\ outcome' = IF Wrcfg(RSTC) = A600_PM_RSTC_WRCFG_FULL_RESET
                THEN "full" ELSE "other"
  /\ wdog' = -1
  /\ UNCHANGED <<req, pc, rstc, RSTC, RSTS, stepped>>

Cpu ==
  \/ SystemReset \/ SystemOff \/ WatchdogResetFlush \/ WatchdogResetArm
  \/ WatchdogResetReadRstc \/ WatchdogResetWriteRstc

Next == Cpu \/ WatchdogTick \/ WatchdogFire

\* The core runs its handler, and the watchdog counts.
Spec == Init /\ [][Next]_vars /\ WF_vars(Cpu) /\ WF_vars(WatchdogTick)
          /\ WF_vars(WatchdogFire)

----------------------------------------------------------------------------
(* Properties.                                                             *)

\* PSCI SYSTEM_RESET and SYSTEM_OFF always end in the full reset: the
\* watchdog armed at line 170 fires only after line 176 selected it.
ResetEventuallyHappens == <>(outcome = "full")

\* After the watchdog reset, RSTS names the halt partition exactly when the
\* reset came from a600_system_off, so the boot firmware stays down after
\* SYSTEM_OFF and boots normally after SYSTEM_RESET.
HaltPartitionOnlyAfterOff ==
  outcome = "full" =>
    ((Partition(RSTS) = HALT_PARTITION) <=> (req = "off"))

============================================================================
