SPECIFICATION Spec
CONSTANTS
    Hosts = {1, 2, 3, 4, 5}
    InitialFleets <- FourHosts
    Silent = {}
    Configs <- BothCalls
    MaxChanges = 1
    Failed = Failed
INVARIANTS SteadyHostsListed
