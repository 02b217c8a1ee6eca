SPECIFICATION Spec
CONSTANTS
    Hooks <- BootHooks
    Configs <- Continued
    OffSeconds = 5
    MayHang = FALSE
PROPERTIES
    BakeIsOfCleanShutdown
CHECK_DEADLOCK FALSE
