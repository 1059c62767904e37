SPECIFICATION FairSpec
CONSTANTS
    Inode = {i1, i2, i3}
    NoInode = NoInode
    Refused = {}
    Faults = {}
    MaxKept = 1
    MaxRecord = 4
    MaxFile = 3
    MaxCrash = 2
    MaxResync = 1
    MaxEmpty = 1
    MaxFail = 1
    MaxLose = 1
INVARIANTS NoDuplicate NoHole PositionCovered
PROPERTY EventuallyArchived
