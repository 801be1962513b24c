SPECIFICATION FairSpec
CONSTANTS
    ValidUsers = {u1}
    BadUsers = {bad}
    NullUsers = {}
    WindowLen = 2
    Ttl = 2
    WatermarkDelay = 2
    MaxLate = 1
    MaxEvents = 3
    MaxNow = 2
    MaxCrashes = 2
PROPERTIES
    EveryRecordProcessed
