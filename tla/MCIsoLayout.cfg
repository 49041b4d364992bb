CONSTANTS
  Jobs <- AllJobs
  Sector = 2
  NSect = 2
  SystemArea = 3
  EndPad = 3
  Align = 4
  Cylinder = 5
  BootBlocks = 5
  PathBlocks = 1
  DirBlocks = 1
  MainSeq = 2
  Udf32 = 10
  Udf256 = 18
  MinVolume = 17
  Clumps = {1, 2, 3}
  MaxTries = 2
  StreamMin = 12
  Word = 64
  MaxSize = 6
  MaxChanges = 1
SPECIFICATION Spec
INVARIANTS
  LayoutKept DataInPlace BotchOnlyForHfs
PROPERTIES
  Ends
CHECK_DEADLOCK FALSE
