SPECIFICATION Spec
CONSTANTS
    AcquisitionLimit = 3
    ProcessLimit = 4
    MinHold = 2
    MaxHold = 4
INVARIANTS
    TypeOK
    HourBound
    RefusedAtBudget
    WallClockTruthful
