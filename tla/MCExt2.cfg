SPECIFICATION Spec
CONSTANTS
    NBlocks = 12
    BlocksPerGroup = 6
    NInodes = 6
    InodesPerGroup = 4
    FirstAllocatable = 2
    FirstInode = 3
    NDir = 1
    Apb = 2
    BlockSize = 2
    InodeCacheSlots = 2
    Names = {"a", "b"}
    Root = 2
    NameLen <- MCNameLen
    DirUnits = 10
    Bytes = {2}
    Offsets = {0, 3}
    Lengths = {3}
    Sizes = {0, 6}
    MaxCalls = 2
    MaxLooks = 1
    LinkTaken = FALSE
    Failing <- MCFailing
    FaultyCalls = 1
    Preloaded <- MCPreloaded
INVARIANTS
    Recoverable
    CleanIsConsistent
    DataLandsInOwnBlocks
PROPERTY
    IsFileStore
