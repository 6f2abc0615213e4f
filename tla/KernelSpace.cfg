SPECIFICATION Spec
CONSTANTS
  Index <- MCIndex
  Frame <- MCFrame
  Programs <- KernelPrograms
  Pools <- MCPools
  Answer <- MCAnswer
  BootRoot = 1
  BootTables <- MCBootTables
  BootPlace <- MCBootPlace
  BootMapped <- MCBootMapped
  None = None
  High = 64
  PageData = 128
  SlabHeap = 192
  Code = 224
  PageArray = 8
  ArrayPages = 2
  HighestAddresses = {60}
  Bases = {24}
INVARIANTS MapsTakeEffect NothingElse MemoryInReach
CHECK_DEADLOCK FALSE
