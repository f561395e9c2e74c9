\* No call fails; the spec may list no capabilities.
SPECIFICATION SetupSpec
CONSTANTS
    Paths <- MCPaths
    AncestorsOf <- MCAncestors
    Mounts <- MCMounts
    Masked <- MCMasked
    Readonly <- MCReadonly
    Options <- PlainContainers
    Faults = {}
INVARIANTS
    UserInForce
CHECK_DEADLOCK FALSE
