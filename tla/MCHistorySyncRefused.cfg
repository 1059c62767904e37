SPECIFICATION Spec
CONSTANTS
    Inode = {i1, i2}
    NoInode = NoInode
    Refused = {1}
    Faults = {}
    MaxKept = 1
    MaxRecord = 3
    MaxFile = 1
    MaxCrash = 1
    MaxResync = 1
    MaxEmpty = 0
    MaxFail = 0
    MaxLose = 0
INVARIANT NoDuplicate
