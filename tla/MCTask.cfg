\* One parent, as in pint and in the shell: it creates, waits and sleeps, and
\* its children run, sleep, block and end.
CONSTANTS
    pint = pint
    idle = idle
    s1 = s1
    s2 = s2
    Nil = Nil
    Slots = {pint, idle, s1, s2}
    Pint = pint
    Idle = idle
    Creators = {pint}
    Waiters = {pint}
    Readers = {pint, s1}
    Codes = {7}
    MaxSleep = 1
    MaxBorn = 4
SPECIFICATION Spec
INVARIANTS
    TypeOK
    NeverPanics
    RunsOnLiveStack
    RingOfLiveTasks
    BuildsAreExclusive
    ExitCodes
    TasksAreFound
    SleepsFullPeriod
