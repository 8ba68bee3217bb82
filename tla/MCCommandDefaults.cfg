SPECIFICATION Spec
CONSTANTS
  Numbers <- MCNumbers
  BadNumber = BadNumber
  MaxWords = 2
  IntHalf = 8
  SizeMod = 64
  Help <- MCHelp
INVARIANT PrintedDefaults
