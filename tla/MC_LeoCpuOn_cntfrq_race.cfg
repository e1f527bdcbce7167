\* Core 1's CNTFRQ when WFI may return spuriously.
CONSTANTS
  SecEntry <- MCSecEntry
  SecIrqs = {29}
  NsIrqs = {30}
  Freq0 = Freq0
  FreqReset = FreqReset
  SPURIOUS_WAKE = TRUE
  NsEntries <- MCNsEntries
  PowerStates <- MCPowerStates
  SipFids <- MCSipFids
  BsecResults <- MCBsecResults
SPECIFICATION Spec
INVARIANT Core1RunsWithCore0Frequency
\* Both cores may stop for good, in panic after SYSTEM_OFF or spinning
\* after SYSTEM_RESET; nothing is left to run then.
CHECK_DEADLOCK FALSE
