SPECIFICATION FairSpec
CONSTANTS
    k1 = k1
    k2 = k2
    Key = {k1, k2}
    NoKey = NoKey
    Value = {1}
    NoRow = NoRow
    Unset = Unset
    Table = {"jobs", "clusters"}
    TableOf <- MCTableOf
    Inode = {i1, i2}
    NoInode = NoInode
    MaxConflictRetries = 2
    Faults = {}
    MaxGen = 1
    MaxLen = 4
    MaxCrash = 1
    MaxStop = 0
    MaxConflict = 2
    MaxResync = 1
PROPERTIES Converges
