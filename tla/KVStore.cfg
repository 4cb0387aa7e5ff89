SPECIFICATION KVFairSpec
CONSTANTS
    n1 = n1
    n2 = n2
    n3 = n3
    Nodes = {n1, n2, n3}
    Contents = {"a", "b"}
    NoEntry = NoEntry
    QueueSize = 3
    Stamps = {1, 2, 3}
    UniqueStamps = TRUE
INVARIANTS SameStampSameValue
PROPERTIES ReplicaNeverOlder Converges
