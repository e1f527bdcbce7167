\* A600 mailbox: a wait gives up only on a status that says not ready
\* (violation expected: the last read is counted before it is tested).
CONSTANTS
  MAX_RETRIES = 3
  MaxCalls = 1
  BoardRev = 7
SPECIFICATION Spec
PROPERTY GiveUpOnlyWhenNotReady
