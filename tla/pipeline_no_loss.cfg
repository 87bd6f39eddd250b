CONSTANTS
    p1 = p1
    p2 = p2
    d1 = d1
    d2 = d2
    stopper = stopper
    Producers <- Feeds
    Consumers <- Poppers
    Stopper <- stopper
    Capacity = 2
    MaxTicks = 5
    DrainBatch = 2
    Setups <- OnlyOneEach
SPECIFICATION PipelineSpec
INVARIANT
    NoDataLoss
