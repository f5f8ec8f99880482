SPECIFICATION FairSpec
CONSTANTS
    t1 = t1
    t2 = t2
    p1 = p1
    p2 = p2
    Parties = {p1, p2}
    Tasks = {t1, t2}
    Jobs <- MCJobs
    Cancelers = {p1}
INVARIANTS
    JobInv
PROPERTIES
    DependenciesFirst
    EveryJobEnds
    DeadTasksEnd
CHECK_DEADLOCK FALSE
