SPECIFICATION FairSpec
CONSTANTS
  NTasks = 3
  StdinLength = 1
  Largest = 2
  MaxKeys = 2
INVARIANTS
  OwnContext
  HandlerMayLock
  KeyboardNeverStalls
  LostOnlyIf
PROPERTIES
  TasksTakeTurns
  LinesPrinted
