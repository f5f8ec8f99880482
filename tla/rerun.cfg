SPECIFICATION FairSpec
CONSTANTS
    p1 = p1
    p2 = p2
    t1 = t1
    u1 = u1
    Parties = {p1, p2}
    Tasks = {t1}
    Deps <- Single
    Users = {u1}
    AutoRetries = 1
    MaxVersion = 3
    MaxTrouble = 1
INVARIANTS
    OneVersionRuns
    RerunInv
PROPERTIES
    EveryRerunEnds
CHECK_DEADLOCK FALSE
