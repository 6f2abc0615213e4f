CONSTANTS
  CPU = {c1, c2}
  Maps <- MCMaps
  BuddyBytes = 400
  MaxBit = 8
  Sizes <- MCSizes
  Found <- MCFound
  MaxCalls <- MCMaxCalls
  MaxFrees = 2
  Null = Null
SPECIFICATION Spec
INVARIANTS MemoryOwned PageListAgrees
PROPERTIES AssertionHolds
CHECK_DEADLOCK FALSE
