SPECIFICATION FairSpec
CONSTANTS
  Jobs <- MCJobs
  Min = 3
  Secspt = 2
  Pregap = 1
  MaxBusy = 1
  MaxIntr = 2
INVARIANTS
  Contiguous OkMeansWritten SectorSizeRestored
PROPERTIES
  WritesKept Ends
CHECK_DEADLOCK FALSE
