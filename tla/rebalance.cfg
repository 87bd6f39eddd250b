CONSTANTS
    n1 = n1
    n2 = n2
    n3 = n3
    c1 = c1
    c2 = c2
    w1 = w1
    none = none
    t1 = t1
    t2 = t2
    NoNode = none
    Nodes <- ThreeNodes
    Initial <- TwoNodes
    Callers <- TwoCallers
    Waiters <- OneWaiter
    NumMoves = 2
    MaxStarts = 2
    MaxControls = 3
    Ticks <- TwoTicks
    MaxRetries = 3
    MoveTimeout = TRUE
    CopyFaults = 2
    WriteFaults = 1
SPECIFICATION MCFairSpec
CHECK_DEADLOCK FALSE
INVARIANTS
    FullPlanOnly
    MoveSafe
PROPERTY
    TopologyChangeEnds
