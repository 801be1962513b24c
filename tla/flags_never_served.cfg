SPECIFICATION Spec
CONSTANTS
    S3Installed = TRUE
    MaxEvents = 1
    MaxClock = 3
    MaxCrashes = 0
INVARIANTS
    FlagsReachRedis
