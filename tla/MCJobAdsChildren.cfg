SPECIFICATION Spec
CONSTANTS
    c1 = c1
    Cluster = {c1}
    Proc = {p1}
    ParentOf <- OneParent
    ClusterAttr = {"Owner"}
    ProcAttr = {"JobStatus"}
    Val = {1, 2}
    None = None
    NoRow = NoRow
    NoKey = NoKey
    Deletes = FALSE
    Compacts = FALSE
    Resyncs = TRUE
    MaxOps = 6
INVARIANTS JobsShowMergedView
