SPECIFICATION Spec
CONSTANTS
    Hosts = {1, 2, 4}
    InitialFleets <- FewFleets
    Silent = {2}
    Configs <- ManyConfigs
    MaxChanges = 1
    Failed = Failed
INVARIANTS TypeOK ExactWhenSteady PartialInOrder
PROPERTIES CallsReturn ImplementsClient
