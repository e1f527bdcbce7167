\* Leo CPU_ON with spurious WFI returns: release safety, liveness, the
\* standby loop.
CONSTANTS
  SecEntry <- MCSecEntry
  SecIrqs = {29}
  NsIrqs = {30}
  Freq0 = Freq0
  FreqReset = FreqReset
  SPURIOUS_WAKE = TRUE
  NsEntries <- MCNsEntries
  PowerStates <- MCPowerStates
  SipFids <- MCSipFids
  BsecResults <- MCBsecResults
SPECIFICATION Spec
INVARIANT TypeOK
INVARIANT Core1JumpsToSecEntry
INVARIANT StandbyEndsWhatItAcks
PROPERTY Core1EventuallyRuns
PROPERTY StandbyReturnsOnPendingInterrupt
\* Both cores may stop for good, in panic after SYSTEM_OFF or spinning
\* after SYSTEM_RESET; nothing is left to run then.
CHECK_DEADLOCK FALSE
