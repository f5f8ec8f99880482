SPECIFICATION ClusterFairSpec
CONSTANTS
    Schedulers = {s1, s2}
    Hosts = {s1}
    TTL = 1
    MaxCrashes = 2
    MaxTrouble = 1
INVARIANTS
    MutualExclusion
    OneNode
PROPERTIES
    DeadLockRecovered
    NoFalseAlarm
    EveryServerListed
CHECK_DEADLOCK FALSE
