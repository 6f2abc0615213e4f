SPECIFICATION MCSpec
CONSTANTS
  Rows = 3
  Cols = 3
  TabSize = 2
  MaxValues = 2
  MaxValue = 107
  Word = 10000
  Chars <- MCChars
  MaxPhrases = 5
INVARIANTS ArraysHold CursorOnGrid PaletteAgrees
PROPERTY ImplementsTextScreen
CHECK_DEADLOCK FALSE
