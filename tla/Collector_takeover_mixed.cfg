SPECIFICATION ScrapedSpec
CONSTANTS
    n1 = n1
    n2 = n2
    r1 = r1
    r2 = r2
    Nodes = {n1, n2}
    Reqs = {r1}
    Kind = "host"
    RingEnabled = TRUE
    CacheEnabled = TRUE
    LockRequests = FALSE
    CacheOnPartial = FALSE
    Compression <- CompressionMixed
    Skew <- NoSkewBoth
    TTL = 0
    QueueSize = 1
    MaxTime = 1
    CallerParams = {"absent"}
    EmptyMatch = FALSE
    MayCrash = FALSE
    NoData = NoData
    NoEntry = NoEntry
    NoReply = NoReply
    Empty = Empty
PROPERTIES LeaderServes
