\* Two guarded containers are created at once, on a host where krunc-bpf has
\* not been initialised.
SPECIFICATION CliSpec
CONSTANTS
    p1 = p1
    p2 = p2
    Procs = {p1, p2}
    a = a
    b = b
    Ids = {a, b}
    Kids = {1, 2}
    Requests <- GuardedRequests
    Faults = {}
    Serial = TRUE
    Crashes = FALSE
SYMMETRY MCSymmetry
INVARIANT GuardEnforced
CHECK_DEADLOCK FALSE
