CONSTANTS
    SelTables <- MCSelTables
    SelQueries <- MCSelQueries
    SelPools = {0, 2, 4}
    SelThreshold = 4
    JnInputs <- MCAllJn
    JnHashes <- MCJnHashes
    JnMinCap = 2
    RtNodes = {"n1", "n2", "n3"}
    RtLayouts <- MCRtLayouts
    RtSeeds = {{"n1"}, {"n1", "n2", "n3"}}
    RtTables = {0, 1}
    RtSymbols = {0}
    RtShift = 1
    RtReaders = {"r1"}
    RtCacheMax = 2
    RtMaxEdits = 2
    RtDeployments = {TRUE, FALSE}
    QcNodes = {"n1", "n2", "n3"}
    QcSyms = {0, 1, 2}
    QcOrders <- MCQcOrders
    QcEndpoints <- MCQcEps
    QcLocal = {"n1"}
    QcData <- MCQcData
    QcNew <- MCQcNew
    QcStmts <- MCQcStmts
    QcRowLimit = 3
    QcByteLimit = 6
    QcRowBytes = 2
    QcPolicies = {"Enabled", "Disabled"}
    QcTables = {"t", "u"}
    QcMaxEvents = 3
    QcMaxDuring = 2
    ScTables = {"t", "u"}
    ScHash <- MCScHash
    ScIds = 2
    ScThreads = {1, 2}
    ScStmts <- MCScStmts
    ScCacheMax = 1
    ScModes = {TRUE, FALSE}
    ScMaxOps = 4
    ScMaxFaults = 1
    BiMax = 15
    BiExact = 8
    BiMaxSymbol = 7
    BiUnit = 3
    BiRequests <- MCReqs
    BiPutRows = 3
    BiBase = 4
    BiMaxDepth = 2
    BiValues <- MCValues
    BiMaxRows = {1, 2, 3, 11}
    BiSizeMax = 11
    BiReads <- MCReads
    PsWritten <- MCPsWritten
SPECIFICATION Spec
CHECK_DEADLOCK FALSE
INVARIANTS
    SelectExact
    JoinExact
    CoordinatorExact
    CatalogFollows
    BatchExact
    ParsesBack
PROPERTY
    RoutingFollows
