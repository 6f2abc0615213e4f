CONSTANTS
  Caches = 2
  LargeFrom = 1
  PageUnits = 4
  HeapPages = 6
  LargePages = 2
  Header = 1
  MaxExp = 3
  MaxFrees = 2
  Stale <- MCStale
  Null = Null
  Junk = Junk
SPECIFICATION Spec
PROPERTIES OwnersMayFree
CHECK_DEADLOCK FALSE
