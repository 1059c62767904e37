SPECIFICATION Spec
CONSTANTS
    k1 = k1
    k2 = k2
    Key = {k1, k2}
    NoKey = NoKey
    Value = {1}
    NoRow = NoRow
    Unset = Unset
    Table = {"jobs", "clusters"}
    TableOf <- MCTableOf
    Inode = {i1, i2}
    NoInode = NoInode
    MaxConflictRetries = 2
    Faults = {"cancel_in_pass", "cancel_in_reload", "crash_in_reload", "reload_error", "save_error", "torn_reload", "unapplied"}
    MaxGen = 2
    MaxLen = 2
    MaxCrash = 1
    MaxStop = 1
    MaxConflict = 1
    MaxResync = 1
INVARIANTS ReloadExact
SYMMETRY InodeSymmetry
