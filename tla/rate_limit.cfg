SPECIFICATION Spec
CONSTANTS
    ApiKeys = {key}
    Ips = {ip}
    NoClient = none
    AuthLimit = 2
    IpLimit = 1
    TicksPerSecond = 2
    Window = 4
    MaxRequests = 5
    MaxNow = 10
INVARIANTS
    TypeOK
    WindowLimit
    RetryAfterSuffices
PROPERTIES
    HonestAnswers
    StoreIsSwept
    ImplementsSlidingWindow
