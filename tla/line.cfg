SPECIFICATION PromptSpec
CONSTANTS
  Sig = "FXOKS"
  RevParam = TRUE
  Packs = 2
  OhtTimer = 6
  OhtArgs <- MCOhtArgs
  IntMax = 7
  PolArgs = {TRUE, FALSE}
  SMP = FALSE
  MaxOps = 4
INVARIANTS InForce PolarityKept
PROPERTY OhtEnds
CHECK_DEADLOCK FALSE
