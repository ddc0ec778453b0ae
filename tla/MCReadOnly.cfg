CONSTANTS
    r1 = r1
    r2 = r2
    h1 = h1
    ipA = ipA
    ipB = ipB
    i1 = i1
    i2 = i2
    s1 = s1
    None = None
    Remote <- MCRemote
    Routers <- MCRouters
    ValidFor <- MCValidFor
    InfoHash = {h1}
    AnnouncePorts = {7}
    SrcPorts = {0, 6}
    OurIPs = {}
    OurIds = {i1}
    OurValidFor = {}
    InitialId = i1
    Subscribers = {s1}
    SubCap = 1
    VoteWeight = 1
    MinVotes = 1
    ReadOnly = TRUE
    ReverifyInterval = 1
    FindNodesSkipCount = 1
    MaxTime = 1
    MaxRotations = 1
    K = 1
    VerifyGrace = 1
    ReverifyGrace = 1
    MaxTorrents = 1
    MaxPeersPerTorrent = 1
    Unreachable = {}
    MaxReplyNodes = 0

SPECIFICATION Spec
INVARIANT TypeOK
