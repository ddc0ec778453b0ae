CONSTANTS
    n1 = n1
    n2 = n2
    n3 = n3
    n4 = n4
    Node <- MCNode
    Dist <- MCDist
    RoutingNodes <- MCRouting
    LaterVerified <- MCLater
    Knows <- MCKnows
    PeerHolders = {n3}
    LookupK = 2
    FindNodeTimeout = 2
    RoundGap = 1
    OpTimeout = 10
    Op = "announce_peer"
    Silent = {}

SPECIFICATION Spec
CHECK_DEADLOCK FALSE
INVARIANT TypeOK
INVARIANT AnnounceNeverSkipsNearer
