SPECIFICATION RSpec
CONSTANTS
    Starts = {"C0", "C3_NA"}
    HoldLimit <- MCHoldLimit
    MaxAborts = 1
    MaxSilent = 1
    MaxHours = 6
INVARIANT TypedRefusalReported
