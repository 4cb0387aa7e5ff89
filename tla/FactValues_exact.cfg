SPECIFICATION Spec
CONSTANTS
    HostLists <- Lists
    BatchSizes <- Sizes
    URLLengths = {0, 15, 21, 30}
    Fixed = 8
    InOperator = "^"
    FactCount <- Counts
    Filtered = {2}
    FactMaxPages = 2
    Configs <- BothServers
INVARIANTS TruncatedIsIncomplete
\* The call returns.
CHECK_DEADLOCK FALSE
