CONSTANTS
  Cores <- MCCores
  PRIMARY_CPU = 0
  SecEntry = SecEntry
  NoEntry = NoEntry
  EntryAddr = EntryAddr

SPECIFICATION Spec

INVARIANT TypeOK
 
PROPERTY PoweredOnCoreEventuallyRuns

\* Once every core runs, the protocol has nothing left to do: the cores go
\* on running non-secure code, which is outside the model.
CHECK_DEADLOCK FALSE
