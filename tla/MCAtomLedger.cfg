SPECIFICATION Spec
CONSTANTS
    Accounts <- MCAccounts
    Reservoirs = {"buffer"}
    Terminals = {"offgas"}
    Vents <- MCVents
    Origins <- MCOrigins
    CreditLimit = 3
    Loads <- MCLoads
    Drawn <- MCDrawn
    Amounts = {1, 2}
    Initial <- MCInitial
    MaxLots = 3
    MaxSteps = 4
INVARIANTS
    NoOriginMinted
    CountedOnce
CHECK_DEADLOCK FALSE
