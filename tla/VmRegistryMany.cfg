SPECIFICATION FairSpec
CONSTANTS
    i1 = i1
    i2 = i2
    p1 = p1
    p2 = p2
    Names = {1}
    Images = {i1}
    Ports = {p1}
    Requests <- OneImage
    c1 = c1
    c2 = c2
    Clients = {c1, c2}
    Pids = {1, 2}
    PidReuse = FALSE
    Crashers = {c2}
INVARIANTS
    StopForgetsOnlyDoomed
PROPERTIES
    
    StopEndsTheVm
