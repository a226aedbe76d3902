SPECIFICATION Spec
CONSTANTS
  SeqMod = 8
  InFlight = 2
  Packs = 2
  MaxPosts = 3
  MaxSessions = 1
  Seqs = {6}
  PowerUp = 5
PROPERTY InOrder
CHECK_DEADLOCK FALSE
