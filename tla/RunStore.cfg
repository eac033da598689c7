SPECIFICATION Spec
CONSTANTS
    NRuns = 3
    Reruns = {1}
    Writers = {w1, w2}
    Keep = 1
    MaxDamage = 2
INVARIANTS
    TypeOK
    LineageFirst
    Trimmed
PROPERTIES
    StarKept
    OldestGo
    FirstWriteWins
