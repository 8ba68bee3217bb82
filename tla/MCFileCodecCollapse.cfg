SPECIFICATION Spec
CONSTANTS
  SymCount = 5
  MaxScale = 0
  WordBits = 4
  HdrLimit = 64
  MaxBuf = 4
  MaxLen = 6
  Losses = {}
INVARIANT IntervalNeverCollapses
