\* Pids run out and are recycled, registry allocations fail, and every command
\* that changes a gate or the table is issued.
SPECIFICATION Spec
CONSTANTS
    c1 = c1
    c2 = c2
    NoPid = NoPid
    NoTask = NoTask
    NoCaller = NoCaller
    NoWord = NoWord
    Tasks = {1, 2}
    Pids = {1, 2}
    Callers = {c1, c2}
    Words = {0, 9}
    UserWords = {0}
    SetupError = 0
    MaxWatch = 2
    Ops = {"create", "run", "start", "kill", "delete", "textkill"}
    Recycle = TRUE
    AllocFails = TRUE
SYMMETRY Symmetry
INVARIANTS
    TypeOK
    NoRunBeforeStart
    StartedIsReleased
    IdsDistinct
    WatchCounted
PROPERTIES
    GateDecidedOnce
CHECK_DEADLOCK FALSE
