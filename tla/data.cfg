SPECIFICATION FairSpec
CONSTANTS
  c1 = c1
  c2 = c2
  Clients = {c1, c2}
  Files = {"first", "second"}
  BadFile = "bad"
  LinesOf <- MCLinesOf
  Uploads <- MCUploads
  MaxParts = 2
  MaxOps = 3
  MaxCrashes = 1
  NoTable = NoTable
  Bound = Bound
  Uncertain = Uncertain
  None = None
INVARIANTS
    TableRecovers
PROPERTIES
    KeepsPromise
    EverySessionGoes
CHECK_DEADLOCK FALSE
