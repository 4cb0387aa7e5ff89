SPECIFICATION LiveSpec
CONSTANTS
    n1 = n1
    n2 = n2
    r1 = r1
    r2 = r2
    Nodes = {n1}
    Reqs = {r1, r2}
    Kind = "host"
    RingEnabled = FALSE
    CacheEnabled = TRUE
    LockRequests = TRUE
    CacheOnPartial = FALSE
    Compression <- PlainOne
    Skew <- NoSkewOne
    TTL = 0
    QueueSize = 1
    MaxTime = 1
    CallerParams = {"absent", "true", "malformed"}
    EmptyMatch = FALSE
    MayCrash = FALSE
    NoData = NoData
    NoEntry = NoEntry
    NoReply = NoReply
    Empty = Empty
INVARIANTS TypeOK LockExclusive CachedOnlyWhole PartialReported FallbackOptedIn SilenceExplained
PROPERTIES CacheNeverGoesBack EveryRequestAnswered LockReleased
