CONSTANTS
  MaxUrb = 2
  WUrbs = 2
  RUrbs = 1
  Packs = 1
  SeqMod = 2
  Reserved = TRUE
  Rings = {"out", "in"}
  MaxPlugs = 2
SPECIFICATION FairSpec
INVARIANTS TypeOK Exclusive Marked FreedQuiet NoneStranded
PROPERTIES UnplugDrains
CHECK_DEADLOCK FALSE
