SPECIFICATION FairSpec
CONSTANTS
  NBuf = 3
  TrackLists <- MCTracks
  Options <- AllOptions
  InputCap = 3
  Growing = FALSE
  FillerMayDie = TRUE
  SlowPhases <- AnyPhase
INVARIANTS
  IndInv InStep Delivered
PROPERTIES
  RingIsQueue Terminates
CHECK_DEADLOCK FALSE
