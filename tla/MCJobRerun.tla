----------------------------- MODULE MCJobRerun -----------------------------
(* A job of one task for TLC: its versions are what matters here.          *)
EXTENDS JobRerun, TLC

CONSTANTS t1, p1, p2, u1

Single == t1 :> {}
=============================================================================
