SPECIFICATION FairSpec
CONSTANTS
    MaxFaults = 3
    LazyWrites = FALSE
    FlushInTime = TRUE
    FlushMayFail = FALSE
    CopyInterrupts = FALSE
    VolumeMayHide = FALSE
    ImportOverOld = TRUE
INVARIANTS
    MarkerMeansComplete
    ReadyIsUsable
PROPERTIES
    ImplementsProvisioning
    EventuallyServes
CHECK_DEADLOCK FALSE
