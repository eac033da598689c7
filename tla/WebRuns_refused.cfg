SPECIFICATION Spec
CONSTANTS
    MaxRuns = 2
    FirstHours = 2
    LaterHours = 1
    MaxLoops = 4
    MaxStale = 1
INVARIANTS
    RefusedNotOk
CHECK_DEADLOCK FALSE
