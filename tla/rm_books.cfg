SPECIFICATION BooksSpec
CONSTANTS
    j1 = j1
    j2 = j2
    t1 = t1
    t2 = t2
    t3 = t3
    Jobs = {j1, j2}
    Tasks = {t1, t2, t3}
    Servers = {s1, s2}
    CoreConfigs = {2, 4}
    JobOf <- MCJobOf
    Demand <- MCDemand
    TaskDemand <- MCTaskDemand
    Load <- MCLoad
    TaskLoad <- MCTaskLoad
    MaxDrift = 2
INVARIANTS
    EngineConservation
    TasksWithinJob
    ReturnNeverRefused
