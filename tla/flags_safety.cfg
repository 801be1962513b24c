SPECIFICATION Spec
CONSTANTS
    S3Installed = TRUE
    MaxEvents = 3
    MaxClock = 6
    MaxCrashes = 1
INVARIANTS
    TypeOK
    EveryFlagsRowHandled
    QuarantineKeepsEveryRecord
