CONSTANTS
  MaxUrb = 4
  WUrbs = 4
  RUrbs = 2
  Packs = 1
  SeqMod = 8
  Reserved = FALSE
  Rings = {"out"}
  MaxPlugs = 2
SPECIFICATION PromptSpec
INVARIANTS SeqMapOK NeverInconsistent
CHECK_DEADLOCK FALSE
