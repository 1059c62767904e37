SPECIFICATION FairSpec
CONSTANTS
    Key = {k1, k2}
    NoKey = NoKey
    Val = {v1, v2}
    NoRow = NoRow
    Opaque = {v2}
    MaxBatch = 2
    MaxLag = 1
    Faults = {}
    MaxVersion = 3
    MaxClose = 1
    MaxCrash = 1
    MaxFail = 1
    MaxResync = 1
INVARIANTS CursorCovered SyncedExact
PROPERTIES NoVanish Converges
CHECK_DEADLOCK FALSE
