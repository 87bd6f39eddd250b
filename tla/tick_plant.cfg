CONSTANTS
    Producers = {p1, p2}
    Consumers = {c1, c2}
    Capacity = 2
    MaxTicks = 4
SPECIFICATION Spec
INVARIANTS
    QueueInv
