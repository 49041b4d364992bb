SPECIFICATION Spec
CONSTANTS
  Jobs <- MCJobs
  Clump = 5
  MapFirst = 16
  MapNext = 5
  MaxCalls = 5
INVARIANTS
  TreeKept
PROPERTIES
  ImplementsRecords
CHECK_DEADLOCK FALSE
