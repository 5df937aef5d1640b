SPECIFICATION ShellSpec
CHECK_DEADLOCK FALSE
CONSTANTS
  init = init
  child = child
  Tasks = {init, child}
  Kernel = Kernel
  PageSize = 2
  BitsPerByte = 8
  LOWMEM_END = 2
  PMM_IDENTITY_LIMIT = 16
  PMM_PHYS_LIMIT = 64
  Maps <- SmallMaps
  NPde = 2
  PtePer = 2
  InitPrograms <- SmallInit
  Programs <- SmallPrograms
  MMAPAN_CHUNK = 2
  Windows = {}
  Frames = {1, 2, 3}
  HeapEnd = 4
  VmFreeMax = 2
  PageBytes = 64
  SlabHeader = 24
  ObjSizes <- MCObjSizes
  MaxBig = 1
  Asks <- MCAsks
  RawRuns = {1, 2}
  MaxHeld = 3
  HeapStart = 64
  HEAP_REGION_SIZE = 64
  HEAP_PAGE_SIZE = 32
  HEAP_MAX_REGIONS = 2
  HEAP_MAX_TOTAL = 192
  MMAPAN_MAX = 96
  UserEnd = 224
  SizeMax = 255
  Sizes = {1, 20, 50, 250}
  Arrays <- MCArrays
  MaxLive = 3
  MaxOwn = 1
  PUR_MAX_LEAVES = 6
  PUR_MAX_DEPTH = 5
  PUR_MAX_ARGV = 3
  PUR_MAX_EXPRS = 5
  PUR_MAX_PIPES = 7
  PUR_MAX_STREAMS = 3
  Files <- MCFiles
  Dirs <- MCDirs
  Chunks = 2
  Cap = 1
  MaxTyped = 0
  Letters <- MCLetters
  Lines <- ExampleLines
  MaxKeys = 1
  Faults = 0
PROPERTIES
  StatementEnds
