SPECIFICATION Spec
CONSTANTS
  Bytes = {0, 1}
  MaxSize = 6
  MaxDist = 7
INVARIANTS
  TypeOK
  FindsLongest
PROPERTIES
  Ends
