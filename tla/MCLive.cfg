SPECIFICATION Spec
CHECK_DEADLOCK FALSE
CONSTANTS
    pint = pint
    idle = idle
    s1 = s1
    Nil = Nil
    Slots = {pint, idle, s1}
    Pint = pint
    Idle = idle
    Creators = {pint}
    Waiters = {pint}
    Readers = {pint}
    Codes = {}
    MaxSleep = 1
    MaxBorn = 4
    sh = sh
    peer = peer
    Tasks = {sh, peer}
    Creator = sh
    Capacity = 2
    PIPE_MAX_WAITERS = 8
    Windows = {"shut", "drop"}
    SizeMod = 16
    MaxLen = 2
    MaxBytes = 3
PROPERTIES
    TasksGoOn
    CallsReturn
