CONSTANTS
    n1 = n1
    n2 = n2
    udp = udp
    tcp = tcp
    c1 = c1
    c2 = c2
    d1 = d1
    Checker = check
    HmPeers <- TwoPeers
    Receivers <- TwoReceivers
    HmSetups <- MembershipSetups
    MaxDeaths = 1
    Coords <- TwoCoords
    Primary = c1
    DataNodes <- OneDataNode
    LeaseModes = {TRUE, FALSE}
    Patience = 2
    MaxLost = 3
    MaxCrashes = 3
    MaxCalls = 2
SPECIFICATION FairSpec
CHECK_DEADLOCK FALSE
INVARIANTS
    MembershipSafe
    LossIsNotFailover
PROPERTIES
    DownIsReplaced
