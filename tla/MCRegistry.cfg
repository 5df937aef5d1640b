CONSTANTS
    NInodes = 6
    NDirents = 9
    NMounts = 1
    NSlots = 1
    Names <- MCNames
    Home = "d"
    Device = "z"
    Inums = {2, 3, 4}
    RootIno = 2
    Volume <- MCVolume
    Tasks = {1, 2}
    First = 1
    Scopes <- Both
    Careful = TRUE
    Faults = FALSE
SPECIFICATION Spec
INVARIANTS
    RefcountsAccurate
    NoneLost
    TreeIsATree
    CachedNamesAgree
