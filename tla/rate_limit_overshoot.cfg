SPECIFICATION Spec
CONSTANTS
    Threads = {t1, t2}
    Clients = {c1}
    Limit = 2
    Window = 2
    MaxRequests = 4
    MaxNow = 2
INVARIANTS
    WindowLimit
