SPECIFICATION Spec
CONSTANTS
  Numbers <- MCNumbers
  BadNumber = BadNumber
  MaxWords = 4
  IntHalf = 8
  SizeMod = 64
  Help <- MCHelp
INVARIANTS
  TypeOK
  RunsGoodLines
  OptionsReachTheCommand
PROPERTIES
  Ends
