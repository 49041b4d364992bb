SPECIFICATION FairSpec
CONSTANTS
  Jobs <- MCJobs
  Chunk = 2
  Sectors = 5
INVARIANTS
  LossIsReported DriveRestored
PROPERTIES
  CopyKept Ends
CHECK_DEADLOCK FALSE
