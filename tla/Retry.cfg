SPECIFICATION Spec
CONSTANTS
    Slots = {1, 2}
    Second = 2
    MaxInt = 15
    RetryWaitMin = 1
    RetryWaitMax = 2
    Configs <- ManyConfigs
    Responses <- ManyResponses
    NoHeader = NoHeader
INVARIANTS TypeOK Paced SleepCapped
PROPERTIES EveryRequestEnds
