SPECIFICATION FairSpec
CONSTANTS
  Procs = {p1, p2}
  InFlight = 2
  Tries = 2
  Silent = 2
  RetOnFail = {"lbc"}
  MaxErrors = 6
INVARIANTS TypeOK InUseAlive AnchoredFlies
PROPERTIES ReadersReturn Freed
