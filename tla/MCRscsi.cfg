SPECIFICATION FairSpec
CONSTANTS
  t1 = t1
  t9 = t9
  none = none
  NoTarget = none
  Targets <- MCTargets
  Allowed <- MCTargets
  High <- MCHigh
  MaxDma = 1
  Amounts <- MCAmounts
  CdbSize = 1
  MaxSense = 1
  Names <- MCNames
  MaxLost = 1
INVARIANTS
  ExecutedAsMeant
PROPERTIES
  ProtocolKept CallsReturn ImplementsCall
CHECK_DEADLOCK FALSE
