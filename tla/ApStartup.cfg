SPECIFICATION FairSpec
CONSTANTS
  N = 4
  CpuIndexes = 3
  Storages <- MCStorages
INVARIANTS
  ReturnsAfterAll
  ContextsAgree
PROPERTY StartupReturns
CHECK_DEADLOCK FALSE
