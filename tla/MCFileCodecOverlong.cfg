SPECIFICATION Spec
CONSTANTS
  SymCount = 5
  MaxScale = 0
  WordBits = 3
  HdrLimit = 5
  MaxBuf = 4
  MaxLen = 6
  Losses = {"code"}
INVARIANTS
  RoundTrip
  TrueUntilEof
PROPERTIES
  Terminates
