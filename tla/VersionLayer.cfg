SPECIFICATION Spec
CONSTANTS
  MaxByte = 5
  TagBytes = 2
  Keys <- MCKeys
  KeyBytes = {0, 2, 5}
  MaxKeyLength = 3
  MaxSmallest = 4
  MaxFiles = 3
  Strays <- MCStrays
  kNumLevels = 4
  kL0_CompactionTrigger = 4
  LevelBytes = 10
  Versions <- MCVersionsByLevel
INVARIANTS
  CompareIsAnOrder
  SeparatorSeparates
  SuccessorIsAbove
  NewestFirst
  InternalKeysParse
  BaseIsKept
  MergesIfSeparated
  FirstOfTheHighest
  CompactsWhatIsFull
CHECK_DEADLOCK FALSE
