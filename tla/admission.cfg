SPECIFICATION FairSpec
CONSTANTS
    j1 = j1
    j2 = j2
    p1 = p1
    p2 = p2
    a = a
    b = b
    Jobs = {j1, j2}
    Parties = {p1, p2}
    Rank <- MCRank
    Homes <- BothHomes
    Rooms <- TightOrLimited
    Cancelers = {j1}
    MaxFaults = 1
INVARIANTS
    AdmissionInv
PROPERTIES
    HeldCoresComeBack
    EveryJobComesIn
CHECK_DEADLOCK FALSE
