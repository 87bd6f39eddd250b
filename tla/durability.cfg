CONSTANTS
    w1 = w1
    w2 = w2
    p1 = p1
    p2 = p2
    Writers <- TwoWriters
    MaxHour = 2
    StMaxRows = 4
    MaxParts = 4
    StSetups <- AllStoreSetups
    Parts <- TwoParts
    MaxRows = 2
    MaxGens = 3
    MaxCrashes = 2
    n1 = n1
    n2 = n2
    n3 = n3
    t1 = t1
    t2 = t2
    m1 = m1
    m2 = m2
    NoNode = none
    Nodes <- ThreeNodes
    RcThreads <- TwoThreads
    Members <- TwoMembers
    Symbols = {s1}
    Initial <- OneMember
    RcSetups <- AllRingSetups
    Producers <- TwoProducers
    NumReplicas = 2
    MaxTicks = 3
    QueueCapacity = 2
    RetryCapacity = 1
    MaxRetries = 2
    Configs <- AllReplConfigs
SPECIFICATION MCFairSpec
CHECK_DEADLOCK FALSE
INVARIANTS
    StoreSafe
    SnapshotRecovers
    RingsAgree
    ReplicationAccounted
PROPERTIES
    PublishedImmutable
    NoStaleApply
    DurabilityProgress
