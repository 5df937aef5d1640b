CONSTANTS
    NInodes = 5
    NDirents = 9
    NMounts = 1
    NSlots = 1
    Names <- MCNames
    Home = "d"
    Device = "z"
    Inums = {2, 3, 4}
    RootIno = 2
    Volume <- MCVolume
    Tasks = {1}
    First = 1
    Scopes <- JustMounted
    Careful = FALSE
    Faults = TRUE
SPECIFICATION Spec
INVARIANTS OpenFilesKept
