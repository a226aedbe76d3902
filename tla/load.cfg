SPECIFICATION Spec
CONSTANTS
  Serials = {s1, s2}
  Numbers = {0, 1, 2, 3, 4}
  MaxEntries = 2
  MaxBoards = 3
  MaxDummies = 4
  Channels = {1, 2, 3, 4}
  Packs = {0, 3, 40}
  InFlights = {0, 99}
  Currents = {50}
  MaxUrb = 16
  MaxPacks = 16
  MaxInFlight = 16
  MaxOthers = 2
INVARIANTS ParamsFit ReservedAsAsked InBounds NothingLeft
