SPECIFICATION Spec
CONSTANTS
    Modes = {"pe", "pewsl", "full"}
    PeExtras = FALSE
    MaxBuilds = 2
INVARIANTS
    ManifestVouches
    
    
    PairServed
PROPERTIES
    DataKept
CHECK_DEADLOCK FALSE
