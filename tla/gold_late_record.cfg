SPECIFICATION Spec
CONSTANTS
    ValidUsers = {u1}
    BadUsers = {}
    NullUsers = {}
    WindowLen = 2
    Ttl = 2
    WatermarkDelay = 2
    MaxLate = 1
    MaxEvents = 3
    MaxNow = 3
    MaxCrashes = 0
INVARIANTS
    GoldIsTrailingWindow
