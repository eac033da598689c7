SPECIFICATION Spec
CONSTANTS
    NJobs = 2
    MaxAttempts = 3
    MaxCrashes = 2
INVARIANTS
    TypeOK
    RecordedSerial
    SucceededHasResults
PROPERTIES
    QueueDrains
CHECK_DEADLOCK FALSE
