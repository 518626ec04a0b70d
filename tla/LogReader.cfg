\* A reader with a Recover on every file of up to four physical records and
\* what a truncated header left, from its start, inside its first record,
\* inside its first block, in the part of it where no record fits, and from
\* its second block.
SPECIFICATION FairSpec
CONSTANTS
  Byte <- MCByte
  BlockSize = 8
  HeaderSize = 3
  MaxLength = 255
  InitialOffsets = {0, 2, 4, 7, 8}
  HasRecover = TRUE
  MaxUnits = 4
  BlockUnits = 2
INVARIANTS
  AssemblesRecords
  NoSilentLoss
PROPERTY ReaderTerminates
CHECK_DEADLOCK FALSE
