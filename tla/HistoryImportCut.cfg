SPECIFICATION ImportSpec
CONSTANTS
    Schedds = {"s1"}
    RecordKinds = {"ok"}
    ImportFaults = {"bootstrap_cut"}
    MaxHistory = 2
    MaxCycle = 2
    MaxImportFault = 1
INVARIANTS CursorBehindArchive
CHECK_DEADLOCK FALSE
