CONSTANTS
    sh = sh
    a = a
    Tasks = {sh, a}
    Creator = sh
    Capacity = 2
    PIPE_MAX_WAITERS = 8
    Windows = {"wake", "clear"}
    SizeMod = 16
    MaxLen = 1
    MaxBytes = 3
SPECIFICATION Spec
CHECK_DEADLOCK FALSE
SYMMETRY Symmetry
INVARIANT NoneStranded
