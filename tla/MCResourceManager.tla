------------------------- MODULE MCResourceManager -------------------------
(* Small parties for TLC: demands that fit together, alone, or not at all.  *)
EXTENDS ResourceManager, FiniteSetsExt, TLC

CONSTANTS j1, j2, t1, t2, t3

MCDemand == (j1 :> 2) @@ (j2 :> 3)
MCJobOf == (t1 :> j1) @@ (t2 :> j1) @@ (t3 :> j2)
MCTaskDemand == (t1 :> 1) @@ (t2 :> 2) @@ (t3 :> 3)
MCLoad == [S \in SUBSET Jobs |-> MapThenSumSet(LAMBDA j : MCDemand[j], S)]
MCTaskLoad == [S \in SUBSET Tasks |-> MapThenSumSet(LAMBDA t : MCTaskDemand[t], S)]
=============================================================================
