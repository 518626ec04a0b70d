SPECIFICATION MCSpec
CONSTANTS
  MaxNumber = 7
  kNumLevels = 2
  MaxEntries = 1
  OnlyCreated = TRUE
INVARIANT RefusedComparatorDiffers
CHECK_DEADLOCK FALSE
