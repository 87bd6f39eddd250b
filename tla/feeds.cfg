CONSTANTS
    FdMessages <- MCFdMessages
    FdSetups <- MCFdSetups
    FdRetries = 1
    FdMaxBatch = 2
    FdMaxFaults = 2
    SnThreads = {"t1", "t2"}
    SnSetups <- MCSnSetups
    SnMessages <- MCSnMessages
    SnBags <- MCSnBags
    SnBase = 1
    SnSpin = "t1"
    SnMaxMessages = 2
    SnMaxLosses = 2
    EfEvents <- MCEfEvents
    EfSetups <- MCEfSetups
    EfBatch = 2
    EfRetries = 2
    EfBudget = 2
    EfPage = 1
    EfMaxRows = 2
    EfAdmins = {"a", "b"}
    EfWorkers = {1, 2}
    CfLiterals <- MCLits
    CfNumbers <- MCNums
    CfMax32 = 3
    CfMaxOps = 2
    CfMaxFaults = 1
SPECIFICATION FairSpec
CHECK_DEADLOCK FALSE
INVARIANTS
    FeedKeeps
    SensorStats
    EdgeLedger
    ConfigReloads
PROPERTY
    FeedsProgress
