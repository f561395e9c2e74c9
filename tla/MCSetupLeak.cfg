\* No call fails; the rootfs may be a plain directory of a shared mount.
SPECIFICATION SetupSpec
CONSTANTS
    Paths <- MCPaths
    AncestorsOf <- MCAncestors
    Mounts <- MCMounts
    Masked <- MCMasked
    Readonly <- MCReadonly
    Options <- PlainContainers
    Faults = {}
INVARIANTS
    HostUntouched
CHECK_DEADLOCK FALSE
