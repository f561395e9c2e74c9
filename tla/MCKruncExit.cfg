\* Pids are not recycled.
SPECIFICATION Spec
CONSTANTS
    c1 = c1
    c2 = c2
    NoPid = NoPid
    NoTask = NoTask
    NoCaller = NoCaller
    NoWord = NoWord
    Tasks = {1, 2}
    Pids = {1, 2}
    Callers = {c1, c2}
    Words <- StatusWords
    UserWords = {256}
    SetupError <- EINVAL
    MaxWatch = 1
    Ops = {"create", "run", "start", "state", "kill", "delete"}
    Recycle = FALSE
    AllocFails = FALSE
SYMMETRY Symmetry
INVARIANTS
    NoStrandedInit
    ReportsTruth
    ExitWordExact
    NoSlotLeak
PROPERTIES
    RefinesLifecycle
    RefinesPort
CHECK_DEADLOCK FALSE
