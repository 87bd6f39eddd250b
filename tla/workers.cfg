CONSTANTS
    RpCallers = {1, 2}
    RpConns = {1, 2}
    RpWorkers = {1}
    RpMaxConns = 2
    RpPoolMax = 1
    RpKinds <- MCRpKinds
    RpBatch = 1
    RpSecrets = {"off", "match", "differ"}
    RpMaxOps = 2
    RpLosses = 1
    AgMemories <- MCAgMemories
    AgEntries <- MCAgEntries
    AgQuotas <- MCAgQuotas
    AgMax = 2
    AgMaxCache = 1
    AgMinRecords = 2
    AgProtect = TRUE
    AgMaxOps = 4
    AoSetups <- MCAoSetups
    AoHistories <- MCAoHistories
    AoScoreFloor = 1
    AoMinFailures = 2
    AoLimit = 2
    AoMaxDecisionErrors = 2
    AoMaxSinkErrors = 2
    AoMaxFaults = 2
SPECIFICATION FairSpec
CHECK_DEADLOCK FALSE
INVARIANTS
    RepliesMatch
    AgentStoreSafe
    OutcomeOnce
PROPERTY
    WorkersProgress
