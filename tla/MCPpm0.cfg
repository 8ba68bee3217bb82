SPECIFICATION PpmSpec
CONSTANTS
  SymCount = 6
  MaxScale = 13
INVARIANTS
  TypeOK
  IInv
  Bijective
  RankOrder
  CumulativeExact
  FindSymExact
PROPERTIES
  ScaleByOne
  UpdateTerminates
CHECK_DEADLOCK FALSE
