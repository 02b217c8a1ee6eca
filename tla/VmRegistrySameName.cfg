SPECIFICATION Spec
CONSTANTS
    i1 = i1
    i2 = i2
    p1 = p1
    p2 = p2
    Names = {1, 2}
    Images = {i1, i2}
    Ports = {p1, p2}
    Requests <- SameName
    c1 = c1
    c2 = c2
    Clients = {c1}
    Pids = {1, 2}
    PidReuse = FALSE
    Crashers = {}
INVARIANTS
    NoOrphan
