CONSTANTS
    sh = sh
    a = a
    b = b
    Tasks = {sh, a, b}
    Creator = sh
    Capacity = 2
    PIPE_MAX_WAITERS = 8
    Windows = {"shut", "drop"}
    SizeMod = 16
    MaxLen = 2
    MaxBytes = 3
SPECIFICATION Spec
CHECK_DEADLOCK FALSE
SYMMETRY Symmetry
INVARIANTS CountsAreAccurate NoneStranded
PROPERTY IsChannel
