SPECIFICATION Spec
CONSTANTS
  MaxUrb = 4
  InFlight = 2
  Packs = 2
  RPacks = 2
  SeqMod = 16
  Latency = 1
  Late = 1
  MaxFrames = 40
INVARIANT EchoMatches
CHECK_DEADLOCK FALSE
