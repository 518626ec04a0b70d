SPECIFICATION FairSpec
CONSTANTS
  MaxNumber = 7
  kNumLevels = 2
  MaxEntries = 3
  OnlyCreated = FALSE
INVARIANTS
  TypeOK
  CurrentIsLive
  LogNumbersAreUsed
PROPERTIES
  ImplementsRecovery
  RecoveryEnds
CHECK_DEADLOCK FALSE
