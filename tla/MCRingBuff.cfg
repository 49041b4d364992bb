SPECIFICATION FairSpec
CONSTANTS
  Buffers = 2
  NSectors = 3
  F = 2
  Jobs <- MCJobs
  MaxRetry = 2
  ReadErrors = TRUE
  Signals = TRUE
INVARIANTS
  RingInv InOrder Joined
PROPERTIES
  Terminates
CHECK_DEADLOCK FALSE
