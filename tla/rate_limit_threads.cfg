SPECIFICATION Spec
CONSTANTS
    Threads = {t1, t2}
    Clients = {c1}
    Limit = 1
    Window = 2
    MaxRequests = 5
    MaxNow = 4
SYMMETRY Symmetry
INVARIANTS
    TypeOK
    SerialRequestsKeepLimit
PROPERTIES
    RefusedOnlyWhenFull
