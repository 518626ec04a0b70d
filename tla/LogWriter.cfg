\* The writer alone, up to three records, in a build where the misdirected
\* append of a block trailer kills the process.
SPECIFICATION Spec
CONSTANTS
  Byte <- MCByte
  BlockSize = 8
  HeaderSize = 3
  MaxLength = 255
  Records <- MCRecords
  MaxRecords = 3
  TrailerOutcomes = {"crash"}
INVARIANTS
  TypeOK
  AssertsHold
  NoStraddle
  AckedIsOnDisk
CHECK_DEADLOCK FALSE
