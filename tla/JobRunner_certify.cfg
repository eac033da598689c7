SPECIFICATION Spec
CONSTANTS
    NJobs = 2
    MaxAttempts = 3
    MaxCrashes = 2
INVARIANTS
    CertificationReported
CHECK_DEADLOCK FALSE
