\* No call fails on its own; the container may be guarded.
SPECIFICATION SetupSpec
CONSTANTS
    Paths <- MCPaths
    AncestorsOf <- MCAncestors
    Mounts <- MCMounts
    Masked <- MCMasked
    Readonly <- MCReadonly
    Options <- MountedRootfs
    Faults = {}
INVARIANTS
    SetupNotGuarded
CHECK_DEADLOCK FALSE
