\* The mailbox with a VideoCore that may be slow or stall: each call gets
\* its own answer until a wait times out, and every call returns.
CONSTANTS
  MAX_RETRIES = 3
  MaxCalls = 3
  BoardRev = 7
SPECIFICATION Spec
INVARIANT TypeOK
INVARIANT ReturnIsVcAnswerWhileInStep
PROPERTY EveryCallReturns
