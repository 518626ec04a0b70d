\* A read of the file fails while the reader has a Recover.
SPECIFICATION Spec
CONSTANTS
  Byte <- MCByte
  BlockSize = 8
  HeaderSize = 3
  MaxLength = 255
  Records <- MCRecords
  MaxRecords = 2
  TrailerOutcomes = {"crash"}
  InitialOffsets = {0}
  HasRecover = TRUE
  MaxDamage = 0
INVARIANT ReadErrorReported
CHECK_DEADLOCK FALSE
