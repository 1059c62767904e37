SPECIFICATION Spec
CONSTANTS
    k1 = k1
    k2 = k2
    Key = {k1, k2}
    NoKey = NoKey
    Value = {1}
    NoRow = NoRow
    Unset = Unset
    Table = {"jobs", "clusters"}
    TableOf <- MCTableOf
    Inode = {i1, i2}
    NoInode = NoInode
    MaxConflictRetries = 2
    Faults = {"cancel_in_pass"}
    MaxGen = 2
    MaxLen = 3
    MaxCrash = 0
    MaxStop = 1
    MaxConflict = 0
    MaxResync = 0
INVARIANTS ResumeSafe
SYMMETRY InodeSymmetry
