SPECIFICATION Spec
CONSTANTS
  SymCount = 5
  MaxScale = 0
  WordBits = 6
  HdrLimit = 64
  MaxBuf = 2
  MaxLen = 6
  Losses = {"code", "output"}
INVARIANTS
  CodecTypeOK
  RoundTrip
  NeverGivesUp
  EsymInInterval
  WideInterval
  TrueUntilEof
PROPERTIES
  ImplementsTransfer
