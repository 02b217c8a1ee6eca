SPECIFICATION FairSpec
CONSTANTS
    Hooks <- BootHooks
    Configs <- AllBuilds
    OffSeconds = 15
    MayHang = TRUE
INVARIANTS
    HostServesGuest
    HooksKept
    WslComplete
    VarsSettled
PROPERTIES
    ShutdownRunsItsCourse
    BuildReturns
CHECK_DEADLOCK FALSE
