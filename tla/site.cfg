SPECIFICATION SiteSpec
CONSTANTS
    Loaders = {l1, l2}
    MaxVersion = 1
    Callers = {c1, c2}
    Servers = {s1, s2}
    Boss = boss
    Apps = {a}
    Clerks = {k1, k2}
    Names <- MCNames
    Lists <- MCLists
    Flow <- MCFlow
    Wanted <- MCWanted
    Budgets <- MCBudgets
SYMMETRY Symmetry
INVARIANTS
    AccessInv
    InheritedWhole
CHECK_DEADLOCK FALSE
