SPECIFICATION Spec
CONSTANTS
  Unwritten = Unwritten
  Callbacks = {"copy", "negate", "twice", "odd"}
  ByHand = {"get_c", "dach_copy"}
  MaxOps = 2
  MaxFile = 6
  MaxBlock = 7
  ReadSize = 2
INVARIANTS
  TypeOK
  BlocksPartitionFile
  ReadsFileInOrder
  OutputIsFirstOperation
PROPERTIES
  PipeEnds
