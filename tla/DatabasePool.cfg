SPECIFICATION FairSpec
CONSTANTS
    Messages <- MCMessages
    Nobody = Nobody
    Prefetch = 3
    PoolMax = 2
    MaxAttempts = 2
    MaxFaults = 1
    SampleCapacity = 2
CHECK_DEADLOCK FALSE
INVARIANTS
    TypeOK
    StartTimesMatch
    SamplerHoldsLatest
    WaitIsBounded
PROPERTIES
    EveryMessageSettles
