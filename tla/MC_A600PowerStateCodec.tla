----------------------- MODULE MC_A600PowerStateCodec -----------------------
(* Model-checking instance of A600PowerStateCodec under both settings of  *)
(* the build option PSCI_EXTENDED_STATE_ID.  The inputs are every         *)
(* power_state that the encoding macros build from 4-bit local states at  *)
(* levels 0 and 1, power level 0..1 and either type, plus every small raw *)
(* value (0 and values with no type or level bits).  The variable ext     *)
(* picks the build at the start of a behaviour and never changes, so one  *)
(* run checks both layouts.                                               *)
EXTENDS Integers

VARIABLES ext, power_state, result

\* The encoding macros of a build, which do not depend on the inputs.
Macros(e) == INSTANCE A600PowerStateCodec
               WITH EXTENDED_STATE_ID <- e, Inputs <- {}

MCInputs(e) ==
  { Macros(e)!a600_make_pwrstate_lvl1(l1, l0, pl, t) :
      l1 \in 0 .. 15, l0 \in 0 .. 15, pl \in 0 .. 1, t \in 0 .. 1 }
  \cup (0 .. 63)

Classic == INSTANCE A600PowerStateCodec
             WITH EXTENDED_STATE_ID <- FALSE, Inputs <- MCInputs(FALSE)
Extended == INSTANCE A600PowerStateCodec
              WITH EXTENDED_STATE_ID <- TRUE, Inputs <- MCInputs(TRUE)

vars == << ext, power_state, result >>

Init == \/ ext = FALSE /\ Classic!Init
        \/ ext = TRUE /\ Extended!Init

Next == /\ IF ext THEN Extended!Next ELSE Classic!Next
        /\ UNCHANGED ext

Spec == Init /\ [][Next]_vars

\* Each property below is the codec module's property of the same name, in
\* the build the behaviour was started with.

\* The type invariant of the build.
TypeOK == IF ext THEN Extended!TypeOK ELSE Classic!TypeOK

\* a600_validate_power_state accepts exactly the idle table's entries.
ValidateAcceptsExactlyTable ==
  IF ext THEN Extended!ValidateAcceptsExactlyTable
         ELSE Classic!ValidateAcceptsExactlyTable

\* An accepted state decodes into the local states it was encoded from,
\* within pwr_domain_state[].
ValidateDecodesEncoding ==
  IF ext THEN Extended!ValidateDecodesEncoding
         ELSE Classic!ValidateDecodesEncoding

\* An accepted state obeys the PSCI rules for its type and level.
AcceptedStateMatchesPsciRules ==
  IF ext THEN Extended!AcceptedStateMatchesPsciRules
         ELSE Classic!AcceptedStateMatchesPsciRules

\* The promised binary search agrees with the linear scan.
BinarySearchAgreesWithScan ==
  IF ext THEN Extended!BinarySearchAgreesWithScan
         ELSE Classic!BinarySearchAgreesWithScan
=============================================================================
