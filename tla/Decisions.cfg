\* Inputs on both sides of every threshold; no pair of pressures adds up to one.
CONSTANTS
    LocalQueue = {0, 71, 79, 80, 89, 94, 95, 100}
    LocalCpu = {0, 33, 90}
    PeerQueue = {0, 69, 70, 96}
    PeerCpu = {0, 32}
    MaxPeers = 2
    Id = {0, 999, 1000, 1999, 2000, 2999, 3000}
    Latency = {0, 999999, 1000000}
    Score = {0, 9, 10, 70, 71}
    MaxConstraints = 2
    Token = {"rac:", "http:", "/", " ", "trade", "."}
    MaxLength = 6
    Actor = {"user", "trade-desk", "trading-bot"}
SPECIFICATION MCSpec
INVARIANTS
    RoutingTablesAgree
    RemoteRelieves
    TradesStayLocal
    
    DecisionsJustified
    UriKept
    DomainsAgree
PROPERTY
    StaysAway
\* A URI grows to its bound and stops.
CHECK_DEADLOCK FALSE
