CONSTANTS
    AwIds = {1, 2}
    AwVals = {1}
    AwThreads = {1, 2}
    AwReplicas = {2, 3}
    AwSetups <- MCAwSetups
    AwMaxFaults = 2
    ArNodes = {1, 2, 3}
    ArPoint <- MCArPoint
    ArHash <- MCArHash
    ArMemories <- MCArMemories
    ArPrompts <- MCArPrompts
    ArQueries <- MCArQueries
    ArMaxOps = 3
    HsThreads = {1, 2}
    HsAddrs = {"a"}
    HsTenants = {"n"}
    HsLimit = 1
    HsNamespace <- MCHsNamespace
    HsClients <- MCHsClients
    HsStatements <- MCHsStatements
    HsSetups <- MCHsSetups
    HsMaxListed = 1
    HsMaxRequests = 2
    HsMaxAdmin = 2
    KyServers = {"s1", "s2"}
    KyKeys = {"k1", "k2"}
    KyVaults = {TRUE, FALSE}
    KyMaxOps = 4
    KyMaxFaults = 3
    SeIds = {1, 2, 3}
    SeThreads = {"t1", "t2"}
    SeTtl = 2
    SeWindow = 1
    SeLives = {0, 3}
    SeMax = 2
    SeEnd = 4
    SeMaxToken = 2
SPECIFICATION Spec
CHECK_DEADLOCK FALSE
INVARIANTS
    AgentDurable
    AgentReads
    RequestsAccounted
    KeysKept
PROPERTY
    SessionsKept
