\* Any call but the change of propagation may fail.
SPECIFICATION SetupSpec
CONSTANTS
    Paths <- MCPaths
    AncestorsOf <- MCAncestors
    Mounts <- MCMounts
    Masked <- MCMasked
    Readonly <- MCReadonly
    Options <- MountedRootfs
    Faults = {"mount", "write", "creds", "chroot", "exec"}
INVARIANTS
    SealEnforced
    HostUntouched
    MasksOnTop
    SpecInForce
CHECK_DEADLOCK FALSE
