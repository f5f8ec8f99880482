SPECIFICATION FairSpec
CONSTANTS
    t1 = t1
    t2 = t2
    a = a
    b = b
    guest = guest
    host = host
    Roles = {guest, host}
    PartyOf <- Places
    TaskSeq <- Two
    Deps <- Chain
    RolesOf <- Both
    TryTimes = 2
    MaxFaults = 1
    MaxStops = 1
INVARIANTS
    BfiaInv
    InputsBeforeRun
PROPERTIES
    EveryJobEnds
CHECK_DEADLOCK FALSE
