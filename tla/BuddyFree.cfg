SPECIFICATION FreeSpec
CONSTANTS
  CPU = {c1, c2}
  MaxK = 2
  MinOrder = 9
  Null = Null
  Size <- MCSize
  Boot <- MCBoot
  Sizes <- MCSizes
  Junk = {Null}
INVARIANTS
  SharedOnlyAfterMerge
  LostOnlyByDropping
PROPERTIES
  CallsReturn
CHECK_DEADLOCK FALSE
