SPECIFICATION Spec
CONSTANTS
    NSlots = 2
    NRequests = 2
    MaxProcs = 2
    MaxDeaths = 1
INVARIANTS
    TypeOK
    NoneLeft
PROPERTIES
    FuturesAsPromised
    FuturesSettle
CHECK_DEADLOCK FALSE
