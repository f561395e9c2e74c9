\* Every kind of stdin, more input and more output than the pty holds, failing
\* calls, a lifecycle that is killed and a delete by somebody else.
SPECIFICATION RunSpec
CONSTANTS
    Words <- MCWords
    Stdins = {"tty", "pipe", "file"}
    Typed = 3
    Written = 2
    InCap = 2
    OutCap = 1
    Faults = {"fork", "create", "setup"}
    Crashes = TRUE
INVARIANTS
    OutputComplete
    RunCodeExact
PROPERTIES
    RunEnds
    InputFlows
CHECK_DEADLOCK FALSE
