\* Damaged bytes and blocks without their trailer.
SPECIFICATION Spec
CONSTANTS
  Byte <- MCByte
  BlockSize = 8
  HeaderSize = 3
  MaxLength = 255
  Records <- MCDamageRecords
  MaxRecords = 2
  TrailerOutcomes = {"lost", "crash"}
  InitialOffsets = {0, 5, 10}
  HasRecover = TRUE
  MaxDamage = 1
INVARIANTS
  NothingInvented
  LossIsLocal
  NoFalseAlarm
CHECK_DEADLOCK FALSE
