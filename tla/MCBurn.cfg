SPECIFICATION Spec
CONSTANTS
  Jobs <- MCJobs
  Chunk = 2
  Chunks = 3
  Hold = 2
  MaxBusy = 3
  MaxRuns = 2
INVARIANTS
  EndsRightly ImageInPlace NothingLeftInCache SuccessMeansComplete
CHECK_DEADLOCK FALSE
