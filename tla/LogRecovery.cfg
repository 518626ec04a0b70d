\* Recovery after any stop of the writer, from the start of the file and from
\* the start of its second block, its inside and its trailer.
SPECIFICATION Spec
CONSTANTS
  Byte <- MCByte
  BlockSize = 8
  HeaderSize = 3
  MaxLength = 255
  Records <- MCRecords
  MaxRecords = 2
  TrailerOutcomes = {"crash"}
  InitialOffsets = {0, 8, 11, 13, 15}
  HasRecover = FALSE
  MaxDamage = 0
INVARIANTS
  TypeOK
  OffsetIsExact
PROPERTY ImplementsRecordLog
CHECK_DEADLOCK FALSE
