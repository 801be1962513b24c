SPECIFICATION Spec
CONSTANTS
    ValidUsers = {u1}
    BadUsers = {}
    NullUsers = {}
    WindowLen = 2
    WatermarkDelay = 1
    MaxLate = 1
    FeastTtl = 1
    MaxEvents = 4
    MaxNow = 5
    MaxCrashes = 1
INVARIANTS
    TypeOK
    SilverIsFinal
    BronzeIsComplete
    NoLeakage
    SettledRowsAreExact
    OneRowUnlessRepeated
