SPECIFICATION FairSpec
CONSTANTS
    ValidUsers = {u1}
    BadUsers = {bad}
    NullUsers = {nobody}
    WindowLen = 2
    Ttl = 2
    WatermarkDelay = 2
    MaxLate = 0
    MaxEvents = 2
    MaxNow = 2
    MaxCrashes = 1
PROPERTIES
    InvalidRowsAreQuarantined
