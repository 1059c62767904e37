SPECIFICATION FairSpec
CONSTANTS
    Key = {k1, k2}
    Val = {v1}
    Opaque = {unreadable}
    NoRow = NoRow
    NoCursor = NoCursor
    Consumers = {"kafka", "opensearch", "dropbox", "archivesink", "replicator"}
    MaxChange = 3
    MaxFloor = 2
    MaxEpoch = 1
    MaxFault = 1
    KBatch = 2
    KafkaFaults = {}
    OBatch = 1
    OMaxDocs = 2
    OMaxConc = 2
    DRoll = 2
    DBoxMax = 2
    RecordTime <- MCRecordTime
    ABudget = 1
    AMaxRotate = 1
    ArchiveFaults = {}
INVARIANTS TopicExact ArchivedOnce FollowerReflects
PROPERTIES AtLeastOnce AllSettle
CHECK_DEADLOCK FALSE
