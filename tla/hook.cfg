SPECIFICATION FairSpec
CONSTANTS
  Digits = {d1, d2}
  d1 = d1
  d2 = d2
  None = None
  Debounce = 1
  LostRun = 1
  Events = {{"tonedetect"}, {"replug"}}
PROPERTIES HookDebounced HookSettles DigitPairs DigitEnds
