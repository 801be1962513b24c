SPECIFICATION Spec
CONSTANTS
    ValidUsers = {u1, u2}
    BadUsers = {bad}
    NullUsers = {nobody}
    WindowLen = 2
    Ttl = 2
    WatermarkDelay = 2
    MaxLate = 2
    MaxEvents = 3
    MaxNow = 4
    MaxCrashes = 1
SYMMETRY Symmetry
INVARIANTS
    TypeOK
    ExactAggregates
    NothingLate
    NothingSilentlyDropped
    RecentActivityIsServed
    InOrderUsersGetTrailingWindow
PROPERTIES
    RenewedOnlyByActivity
    ImplementsStore
