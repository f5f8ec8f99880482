--------------------------- MODULE MCJobAdmission ---------------------------
(* Two jobs for TLC, at parties that have room for one of them at a time.   *)
EXTENDS JobAdmission, TLC

CONSTANTS j1, j2, p1, p2, a, b

MCRank == (j1 :> 1) @@ (j2 :> 2)
BothHomes == {[j \in Jobs |-> a], (j1 :> a) @@ (j2 :> b)}

OneAtATime == {{}, {j1}, {j2}}
TightOrLimited == {[p \in Parties |-> OneAtATime], (p1 :> OneAtATime) @@ (p2 :> {{}, {j2}})}
=============================================================================
