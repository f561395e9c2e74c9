\* Pids are not recycled.
SPECIFICATION FairSpec
CONSTANTS
    c1 = c1
    c2 = c2
    NoPid = NoPid
    NoTask = NoTask
    NoCaller = NoCaller
    NoWord = NoWord
    Tasks = {1, 2}
    Pids = {1, 2}
    Callers = {c1, c2}
    Words = {0, 9}
    UserWords = {0}
    SetupError = 0
    MaxWatch = 1
    Ops = {"create", "run", "start", "kill", "delete"}
    Recycle = FALSE
    AllocFails = FALSE
PROPERTIES
    TornDownStops
    KilledStops
CHECK_DEADLOCK FALSE
