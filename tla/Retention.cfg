SPECIFICATION FairSpec
CHECK_DEADLOCK FALSE
CONSTANTS
    Architect = {a1}
    PurgeWorker = {w1}
    None = None
    Days = {1, 2}
    MaxVersion = 2
    MaxHold = 2
    MaxPurge = 2
    MaxEpoch = 3
    MaxTime = 2
    MaxCrash = 1
    MaxAttempts = 2
INVARIANTS
    PolicyIsKept
PROPERTIES
    TombstoneIsFinal
    PurgeIsDecided
