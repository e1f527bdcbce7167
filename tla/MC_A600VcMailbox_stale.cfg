CONSTANTS
  MAX_RETRIES = 3
  MaxCalls = 2
  BoardRev = 7
SPECIFICATION Spec
INVARIANT ReturnIsVcAnswerToThisCall
