SPECIFICATION FairSpec
CONSTANTS
  CPU = {c1, c2}
  MaxK = 3
  MinOrder = 9
  Null = Null
  Size <- MCSize
  Boot <- MCBoot
  Sizes <- MCSizes
  Junk = {0}
INVARIANTS
  NoSharedMemory
  NothingLost
PROPERTIES
  ImplementsPageSource
  AllocReturns
