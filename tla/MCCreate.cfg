SPECIFICATION OciSpec
CONSTANTS
    Configs <- MCConfigs
    Bundle <- MCBundle
    Programs <- MCPrograms
    Kernels <- MCKernels
    MaxShares = 26
    MaxWeight = 10
    MaxQuota = 6000
    Cells <- MCCells
    NotUtf8 = 9
    AbiMax <- MCAbiMax
    KernelKeep <- MCKernelKeep
    MaxStr = 7
    AbiMaxSpec = 44
    KernelMaxSpec = 32
    HalfWord = 50
INVARIANTS
    RoundTrip
    NoLooser
    DecodersAgree
    ConfigCarried
    SysctlsExact
    MountsAsAsked
    LimitsKept
CHECK_DEADLOCK FALSE
