SPECIFICATION OrderlySpec
CONSTANTS
  Slots = {0, 1}
  Boards = {a, b, c}
  a = a
  b = b
  c = c
  ReservedFor <- OneReserved
  MayFail = TRUE
  AvailInError = TRUE
  NoBoard = NoBoard
  MaxPlugs = 3
INVARIANTS RefCount InUseAlive OneBoardPerSlot 
PROPERTY SlotComesBack
CHECK_DEADLOCK FALSE
