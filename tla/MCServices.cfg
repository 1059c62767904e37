SPECIFICATION ServicesSpec
CONSTANTS
    Parts = {"hub", "coordinator", "managers", "exporters", "metrics", "ads", "reloaded_ads",
             "import", "queue", "join", "session", "select", "ansi", "flight"}
    Addr = {a1, a2}
    NoAddr = NoAddr
    RetireAfter = 1
    RowRefresh = 1
    MaxClock = 2
    MaxHubFault = 1
    MaxPass = 2
    Node = {n1, n2}
    NoNode = NoNode
    FirstNode = n1
    CTable = {"ads", "jobs"}
    Batches <- MCBatches
    ReadOnlyTables = {"ro"}
    ClusterSize = 2
    MaxRedirects = 1
    CoordBudgets <- MCCoordBudgets
    Configs <- MCConfigs
    LaunchFaults = {}
    MaxReconfig = 2
    MaxSelfExit = 1
    ExporterFaults = {}
    MaxSupervisor = 2
    MaxReset = 2
    MaxLaunch = 3
    SamplerFaults = {}
    SamplerBudgets <- MCSamplerBudgets
    MaxLag = 1
    MaxRun = 2
    MaxUptime = 2
    c1 = c1
    Cluster = {c1}
    Proc = {p1, p2}
    ParentOf <- OneParent
    ClusterAttr = {"Owner"}
    ProcAttr = {"JobStatus"}
    Val = {1, 2}
    None = None
    NoRow = NoRow
    NoKey = NoKey
    Deletes = TRUE
    Compacts = TRUE
    Resyncs = TRUE
    MaxOps = 5
    Schedds = {"s1"}
    RecordKinds = {"ok", "deep", "other"}
    ImportFaults = {}
    MaxHistory = 2
    MaxCycle = 3
    MaxImportFault = 1
    QueueLoads <- MCQueueLoads
    ChunkTarget = 2
    ChunksInFlight = 1
    PoolSize = 2
    QueueFaults = {}
    MaxSession = 2
    JoinStatements <- MCJoinStatements
    JoinStores <- MCJoinStores
    MaxJoinTables = 3
    MaxJoinSideRows = 2
    MaxJoinPairs = 7
    MaxJoinOutputRows = 5
    MaxJoinKeyBatch = 1
    MinRightRowsPerKey = 2
    DefaultTable = "ads"
    LocalTables = {"ads", "jobs"}
    ConsistentTables = {"ads"}
    SessionKeys = {"a", "b"}
    ReadShapes = {"rows", "stream", "aggregate", "topk", "join"}
    MaxStatements = 3
    SelectStatements <- MCSelectStatements
    SelectStores <- MCSelectStores
    AnsiColumns <- MCAnsiColumns
    Predicates <- MCPredicates
    AnsiAds <- MCAnsiAds
    BindValues <- MCBindValues
    NegatedNulls = FALSE
    MaxBinds = 2
    AttrOrder <- MCAttrOrder
    PrivateAttrs = {"p"}
    Samples <- MCSamples
    BoundValues <- MCBound
    RetypeAgreement = 2
    ColumnLimit = 2
    SchemaTTL = 1
    PreparedTTL = 1
    MaxPrepared = 1
    MaxStreams = 1
    Clients = {"reader", "daemon"}
    Privileged = {"daemon"}
    FlightFaults = {}
    FlightBudgets <- MCBudgets
INVARIANTS RowsVouchedFor ReplicasAgree CommittedOnce WritersOwnTheirTables ResetStaysClear SamplesSound EndpointKept TailShowsMergedView ReconciledExact CursorBehindArchive ImportedOnce AnswerHonest JoinExact ReadsOwnWrites TablesShowAcknowledged SelectExact LowerExact SchemaPrefix FetchedAsPromised
PROPERTIES RetiredOnlyWhenGone
CHECK_DEADLOCK FALSE
