SPECIFICATION FairSpec
CONSTANTS
    x = x
    host = host
    Keys = {0, 1, 2, 3}
    Contents <- Few
    Sizes = {1, 2}
    PoolSize = 2
    Receivers <- One
    Tags = {x}
    MaxOps = 3
    MaxFaults = 1
INVARIANTS
    DataIsRight
PROPERTIES
    EveryOperationEnds
    EveryPushArrives
CHECK_DEADLOCK FALSE
