\* The same writer in a build where that append may also have no effect: the
\* block is left without its trailer and the process carries on.
SPECIFICATION Spec
CONSTANTS
  Byte <- MCByte
  BlockSize = 8
  HeaderSize = 3
  MaxLength = 255
  Records <- MCRecords
  MaxRecords = 3
  TrailerOutcomes = {"lost", "crash"}
INVARIANT OffsetsAgree
CHECK_DEADLOCK FALSE
