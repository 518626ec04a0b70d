SPECIFICATION MCSpec
CONSTANTS
  MaxNumber = 7
  kNumLevels = 2
  MaxEntries = 1
  OnlyCreated = TRUE
INVARIANT HasNumberWasLogged
CHECK_DEADLOCK FALSE
