\* Two processes on two containers, one command at a time for each; calls fail
\* and processes are killed.
SPECIFICATION CliSpec
CONSTANTS
    p1 = p1
    p2 = p2
    Procs = {p1, p2}
    a = a
    b = b
    Ids = {a, b}
    Kids = {1, 2}
    Requests <- MCRequests
    Faults = {"maps", "mkdir", "limits", "guard", "open", "unguard", "rmstate"}
    Serial = TRUE
    Crashes = TRUE
SYMMETRY MCSymmetry
INVARIANTS
    NoOrphan
    FileMatchesKernel
    GuardArmed
    GuardsReturned
    GuardScoped
CHECK_DEADLOCK FALSE
