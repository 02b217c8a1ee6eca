SPECIFICATION FairSpec
CONSTANTS
    b1 = b1
    b2 = b2
    b3 = b3
    b4 = b4
    Info <- TheBuilds
    Listing <- TheListing
    Requests <- AllRequests
    OldISO = b1
    Assembles = {b1, b3}
    Media <- TheMedia
    Catalogs <- TheCatalogs
    Esds = {"edition", "ref"}
    Size = 2
    Concurrency = 1
    maxAttempts = 2
    Darwin = TRUE
    DriverSize <- Sizes
    minSize = 2
    MaxRequests = 2
    MaxFaults = 1
INVARIANTS
    TypeOK
    CachedIsWhole
    
    PinServed
PROPERTIES
    Recovers
CHECK_DEADLOCK FALSE
