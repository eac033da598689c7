SPECIFICATION FairSpec
CONSTANTS
    Starts = {"C0", "C2A", "C2B", "C3_NA", "C6"}
    HoldLimit <- MCHoldLimit
    MaxAborts = 2
    MaxSilent = 1
INVARIANTS
    TypeOK
    NoHourTwice
    LedgerAccounted
    AskedTheRightQuestion
    NoCampaignLoop
    DecidedOnce
    PathKept
    C6NotSkipped
    C4RefusalFinal
PROPERTIES
    PoisonSticks
    BatchEnds
CHECK_DEADLOCK FALSE
