SPECIFICATION LogFairSpec
CONSTANTS
  Program <- MCProgram
  Char <- MCChar
  BUFF_LEN = 5
  MaxDigits = 3
  NUL = NUL
INVARIANTS WholeUnlessOverlap FailsOnlyIf
PROPERTY PrintsEnd
CHECK_DEADLOCK FALSE
