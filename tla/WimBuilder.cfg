SPECIFICATION FairSpec
CONSTANTS
    Slow = TRUE
    Deaths = TRUE
INVARIANTS
    SuccessIsWhole
    QuitKeepsMarker
    FatalIsBoot
    NoVmLeft
PROPERTIES
    RunReturns
CHECK_DEADLOCK FALSE
