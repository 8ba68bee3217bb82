SPECIFICATION Spec
CONSTANTS
  Radix = 8
  ID1 = 5
  ID2 = 6
  BlockSizes = {0, 1, 16, 73}
  Crcs = {7, 3210}
  MaxBlocks = 2
  MaxCut = 18
INVARIANTS
  TypeOK
  ReadsAtBoundaries
  ListsAPrefix
  ListsWholeFiles
PROPERTIES
  Ends
