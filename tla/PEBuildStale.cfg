SPECIFICATION Spec
CONSTANTS
    Modes = {"pewsl", "full"}
    PeExtras = FALSE
    MaxBuilds = 2
INVARIANTS
    FullIsSingle
CHECK_DEADLOCK FALSE
