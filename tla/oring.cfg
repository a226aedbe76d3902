SPECIFICATION Spec
CONSTANTS
  MaxUrb = 4
  InFlight = 2
  Packs = 2
  Chunk = 3
  Counts = {1, 3, 4, 7}
  SizeT = 32
  Prompt = TRUE
  MaxCalls = 3
  MaxUrbs = 7
  MaxErrors = 1
INVARIANTS ReadInOrder WriteInOrder ReadFits
CHECK_DEADLOCK FALSE
