SPECIFICATION Spec
CONSTANTS
  Buffers = 2
  NSectors = 3
  F = 2
  Jobs <- PipeJobs
  MaxRetry = 2
  ReadErrors = FALSE
  Signals = FALSE
INVARIANTS
  WaitsForDefined
CHECK_DEADLOCK FALSE
