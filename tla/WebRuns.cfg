SPECIFICATION Spec
CONSTANTS
    MaxRuns = 2
    FirstHours = 2
    LaterHours = 1
    MaxLoops = 4
    MaxStale = 0
INVARIANTS
    TypeOK
    NotStranded
    
PROPERTIES
    RunsLiveAsPromised
    ViewerlessEnds
CHECK_DEADLOCK FALSE
