SPECIFICATION Spec
CONSTANTS
  Jobs <- TableJobs
  Trees <- MCTrees
  Orders <- MCOrders
  NoName <- MCNoName
  TransTbl <- MCTransTbl
INVARIANTS
  NamesTrue
CHECK_DEADLOCK FALSE
