SPECIFICATION Spec
CONSTANTS
  Jobs <- MCJobs
  Trees <- MCTrees
  Orders <- MCOrders
  NoName <- MCNoName
  TransTbl <- MCTransTbl
INVARIANTS
  SessionKept CurrentWins OldKept NotWrittenAgain
CHECK_DEADLOCK FALSE
