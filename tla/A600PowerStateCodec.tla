------------------------ MODULE A600PowerStateCodec ------------------------
(***************************************************************************)
(* The composite power-state encoding of the A600 platform and the        *)
(* validate_power_state handler that checks a power_state parameter       *)
(* against the idle-state table and decodes its State-ID into one local   *)
(* state per power level (plat/faraday/a600/a600_pm.c).                   *)
(*                                                                         *)
(* The handler is pure; the module's single variable group records one    *)
(* call: the power_state passed in and what the handler returned, so that *)
(* TLC enumerates every input of a bounded set and checks the result      *)
(* against reference definitions written from the PSCI rules.             *)
(***************************************************************************)
EXTENDS Integers, Sequences, FiniteSets

CONSTANTS
  EXTENDED_STATE_ID,   \* build option PSCI_EXTENDED_STATE_ID
  Inputs               \* power_state values a caller may pass (32-bit)

ASSUME EXTENDED_STATE_ID \in BOOLEAN
ASSUME Inputs \subseteq Nat   \* unsigned int; TLC values stay below 2^31

\* Local power states and sizes (include/platform_def.h).
PLAT_LOCAL_STATE_RUN == 0
PLAT_LOCAL_STATE_RET == 1
PLAT_LOCAL_STATE_OFF == 2
PLAT_LOCAL_PSTATE_WIDTH == 4
PLAT_LOCAL_PSTATE_MASK == 2^PLAT_LOCAL_PSTATE_WIDTH - 1
PLAT_MAX_PWR_LVL == 1

\* Field layout of a PSCI power_state (the PSCI library's psci.h).
PSTATE_TYPE_STANDBY == 0
PSTATE_TYPE_POWERDOWN == 1
PSTATE_ID_SHIFT == 0
PSTATE_PWR_LVL_SHIFT == 24
PSTATE_TYPE_SHIFT == IF EXTENDED_STATE_ID THEN 30 ELSE 16
PSTATE_ID_MASK == IF EXTENDED_STATE_ID THEN 2^28 - 1 ELSE 2^16 - 1

PSCI_E_SUCCESS == 0
PSCI_E_INVALID_PARAMS == -2

Shl(x, n) == x * 2^n

\* a600_make_pwrstate_lvl0 / _lvl1: the pwr_lvl field is only encoded
\* when the State-ID is not extended.
a600_make_pwrstate_lvl0(lvl0, pwr_lvl, type) ==
  Shl(lvl0, PSTATE_ID_SHIFT)
    + (IF EXTENDED_STATE_ID THEN 0 ELSE Shl(pwr_lvl, PSTATE_PWR_LVL_SHIFT))
    + Shl(type, PSTATE_TYPE_SHIFT)

a600_make_pwrstate_lvl1(lvl1, lvl0, pwr_lvl, type) ==
  Shl(lvl1, PLAT_LOCAL_PSTATE_WIDTH) + a600_make_pwrstate_lvl0(lvl0, pwr_lvl, type)

\* The arguments of each table entry, kept so that properties can refer to
\* what the entry was built from.
\* Variants of the table: the first entry given the power-down type while
\* keeping level 0 in retention; the last two entries in the wrong order.
IdleStateArgsWrongType ==
  << [lvl1 |-> PLAT_LOCAL_STATE_RUN, lvl0 |-> PLAT_LOCAL_STATE_RET,
      pwr_lvl |-> 0, type |-> PSTATE_TYPE_POWERDOWN],
     [lvl1 |-> PLAT_LOCAL_STATE_RUN, lvl0 |-> PLAT_LOCAL_STATE_OFF,
      pwr_lvl |-> 0, type |-> PSTATE_TYPE_POWERDOWN],
     [lvl1 |-> PLAT_LOCAL_STATE_OFF, lvl0 |-> PLAT_LOCAL_STATE_OFF,
      pwr_lvl |-> 1, type |-> PSTATE_TYPE_POWERDOWN] >>

IdleStateArgsUnsorted ==
  << [lvl1 |-> PLAT_LOCAL_STATE_RUN, lvl0 |-> PLAT_LOCAL_STATE_RET,
      pwr_lvl |-> 0, type |-> PSTATE_TYPE_STANDBY],
     [lvl1 |-> PLAT_LOCAL_STATE_OFF, lvl0 |-> PLAT_LOCAL_STATE_OFF,
      pwr_lvl |-> 1, type |-> PSTATE_TYPE_POWERDOWN],
     [lvl1 |-> PLAT_LOCAL_STATE_RUN, lvl0 |-> PLAT_LOCAL_STATE_OFF,
      pwr_lvl |-> 0, type |-> PSTATE_TYPE_POWERDOWN] >>

IdleStateArgs ==
  << [lvl1 |-> PLAT_LOCAL_STATE_RUN, lvl0 |-> PLAT_LOCAL_STATE_RET,
      pwr_lvl |-> 0, type |-> PSTATE_TYPE_STANDBY],
     [lvl1 |-> PLAT_LOCAL_STATE_RUN, lvl0 |-> PLAT_LOCAL_STATE_OFF,
      pwr_lvl |-> 0, type |-> PSTATE_TYPE_POWERDOWN],
     [lvl1 |-> PLAT_LOCAL_STATE_OFF, lvl0 |-> PLAT_LOCAL_STATE_OFF,
      pwr_lvl |-> 1, type |-> PSTATE_TYPE_POWERDOWN] >>

Encode(e) == a600_make_pwrstate_lvl1(e.lvl1, e.lvl0, e.pwr_lvl, e.type)

\* a600_pm_idle_states[]: the entries followed by the 0 terminator.
\* TLA+ sequences are 1-based; index i of the C array is i+1 here.
a600_pm_idle_states ==
  [i \in 1 .. Len(IdleStateArgs) |-> Encode(IdleStateArgs[i])] \o << 0 >>

psci_get_pstate_id(p) == (p \div 2^PSTATE_ID_SHIFT) % (PSTATE_ID_MASK + 1)

\* The linear search: for (i = 0; table[i] != 0; i++) if (p == table[i]) break;
RECURSIVE FindIdx(_, _)
FindIdx(p, i) ==
  IF a600_pm_idle_states[i] = 0 \/ p = a600_pm_idle_states[i]
  THEN i ELSE FindIdx(p, i + 1)

\* while (state_id) { pwr_domain_state[i++] = id & MASK; id >>= WIDTH; }
\* Returns the sequence of values written, level 0 first.
\* Variant whose mask is a byte wide while the shift stays 4 bits.
RECURSIVE DecodeStateIdByteMask(_)
DecodeStateIdByteMask(id) ==
  IF id = 0 THEN << >>
  ELSE << id % 256 >> \o DecodeStateIdByteMask(id \div 2^PLAT_LOCAL_PSTATE_WIDTH)

RECURSIVE DecodeStateId(_)
DecodeStateId(id) ==
  IF id = 0 THEN << >>
  ELSE << id % (PLAT_LOCAL_PSTATE_MASK + 1) >>
         \o DecodeStateId(id \div 2^PLAT_LOCAL_PSTATE_WIDTH)

\* The caller's psci_power_state_t starts with every level at RUN; the
\* handler overwrites the levels it decodes.
Populate(written) ==
  [l \in 0 .. PLAT_MAX_PWR_LVL |->
     IF l + 1 <= Len(written) THEN written[l + 1] ELSE PLAT_LOCAL_STATE_RUN]

\* Variants of the handler: the scan starting at index 1 of the C array;
\* the raw power_state decoded instead of its State-ID field.
a600_validate_power_state_skip0(p) ==
  IF a600_pm_idle_states[FindIdx(p, 2)] = 0
  THEN [rc |-> PSCI_E_INVALID_PARAMS, written |-> << >>,
        state |-> Populate(<< >>)]
  ELSE LET w == DecodeStateId(psci_get_pstate_id(p))
       IN  [rc |-> PSCI_E_SUCCESS, written |-> w, state |-> Populate(w)]

a600_validate_power_state_rawid(p) ==
  IF a600_pm_idle_states[FindIdx(p, 1)] = 0
  THEN [rc |-> PSCI_E_INVALID_PARAMS, written |-> << >>,
        state |-> Populate(<< >>)]
  ELSE LET w == DecodeStateId(p)
       IN  [rc |-> PSCI_E_SUCCESS, written |-> w, state |-> Populate(w)]

a600_validate_power_state(p) ==
  IF a600_pm_idle_states[FindIdx(p, 1)] = 0
  THEN [rc |-> PSCI_E_INVALID_PARAMS, written |-> << >>,
        state |-> Populate(<< >>)]
  ELSE LET w == DecodeStateId(psci_get_pstate_id(p))
       IN  [rc |-> PSCI_E_SUCCESS, written |-> w, state |-> Populate(w)]

-----------------------------------------------------------------------------
VARIABLES power_state, result

vars == << power_state, result >>

Init ==
  \E p \in Inputs :
    /\ power_state = p
    /\ result = a600_validate_power_state(p)

\* The PSCI library calls the handler with a caller-supplied power_state.
ValidatePowerState ==
  \E p \in Inputs :
    /\ power_state' = p
    /\ result' = a600_validate_power_state(p)

Next == ValidatePowerState

Spec == Init /\ [][Next]_vars

-----------------------------------------------------------------------------
(* Reference definitions and properties.                                   *)

TypeOK ==
  /\ power_state \in Inputs
  /\ result.rc \in {PSCI_E_SUCCESS, PSCI_E_INVALID_PARAMS}
  /\ result.state \in [0 .. PLAT_MAX_PWR_LVL -> 0 .. PLAT_LOCAL_PSTATE_MASK]

IdleStateSet == {Encode(IdleStateArgs[i]) : i \in 1 .. Len(IdleStateArgs)}

\* The handler accepts a power_state exactly when it is bit-for-bit one of
\* the table's entries; in particular 0, the table terminator, is refused.
ValidateAcceptsExactlyTable ==
  (result.rc = PSCI_E_SUCCESS) <=> (power_state \in IdleStateSet)

\* An accepted power_state is decoded into the local states its table
\* entry was encoded from (the codec round trip), and the decode loop never
\* writes past the pwr_domain_state[PLAT_MAX_PWR_LVL + 1] array.
ValidateDecodesEncoding ==
  result.rc = PSCI_E_SUCCESS =>
    /\ Len(result.written) <= PLAT_MAX_PWR_LVL + 1
    /\ \E i \in 1 .. Len(IdleStateArgs) :
         /\ Encode(IdleStateArgs[i]) = power_state
         /\ result.state = [l \in 0 .. PLAT_MAX_PWR_LVL |->
                              IF l = 0 THEN IdleStateArgs[i].lvl0
                                       ELSE IdleStateArgs[i].lvl1]

\* What the PSCI library requires of an accepted state: a standby request
\* puts level 0 in retention and no level off; a power-down request turns
\* level 0 off; the highest level not in RUN is the requested power level;
\* the cluster level is never in retention.
HighestNonRun(s) ==
  LET L == {l \in 0 .. PLAT_MAX_PWR_LVL : s[l] # PLAT_LOCAL_STATE_RUN}
  IN  IF L = {} THEN -1 ELSE CHOOSE l \in L : \A m \in L : m <= l

AcceptedStateMatchesPsciRules ==
  result.rc = PSCI_E_SUCCESS =>
    LET s    == result.state
        e    == CHOOSE i \in 1 .. Len(IdleStateArgs) :
                  Encode(IdleStateArgs[i]) = power_state
    IN  /\ IdleStateArgs[e].type = PSTATE_TYPE_STANDBY =>
             /\ s[0] = PLAT_LOCAL_STATE_RET
             /\ \A l \in 0 .. PLAT_MAX_PWR_LVL : s[l] # PLAT_LOCAL_STATE_OFF
        /\ IdleStateArgs[e].type = PSTATE_TYPE_POWERDOWN =>
             s[0] = PLAT_LOCAL_STATE_OFF
        /\ HighestNonRun(s) = IdleStateArgs[e].pwr_lvl
        /\ s[1] \in {PLAT_LOCAL_STATE_RUN, PLAT_LOCAL_STATE_OFF}

\* The table comment promises entries "in ascending order of state-id to
\* enable us to use binary search during power state validation".  A binary
\* search keyed on the State-ID over entries lo .. hi (1-based):
RECURSIVE BinarySearch(_, _, _)
BinarySearch(p, lo, hi) ==
  IF lo > hi THEN FALSE
  ELSE LET mid == (lo + hi) \div 2
           id  == psci_get_pstate_id(a600_pm_idle_states[mid])
       IN  IF a600_pm_idle_states[mid] = p THEN TRUE
           ELSE IF id < psci_get_pstate_id(p) THEN BinarySearch(p, mid + 1, hi)
           ELSE BinarySearch(p, lo, mid - 1)

\* The verdict of the linear scan of a600_validate_power_state is the one
\* the promised binary search over the same table would give, for every
\* power_state the caller passes.
BinarySearchAgreesWithScan ==
  (result.rc = PSCI_E_SUCCESS)
    <=> BinarySearch(power_state, 1, Len(a600_pm_idle_states) - 1)
=============================================================================
