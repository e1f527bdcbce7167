CONSTANTS
  InitRsts <- MCInitRsts
  InitRstc <- MCInitRstc
SPECIFICATION Spec
PROPERTY ResetEventuallyHappens
INVARIANT HaltPartitionOnlyAfterOff
CHECK_DEADLOCK FALSE
