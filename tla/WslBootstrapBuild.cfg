SPECIFICATION Spec
CONSTANTS
    MaxFaults = 3
    LazyWrites = TRUE
    FlushInTime = TRUE
    FlushMayFail = FALSE
    CopyInterrupts = TRUE
    VolumeMayHide = FALSE
    ImportOverOld = FALSE
INVARIANTS
    BuiltImageServes
CHECK_DEADLOCK FALSE
