---------------------------- MODULE MCBfiaAdapter ----------------------------
(* A job of two parties and two tasks, one after the other, for TLC.        *)
EXTENDS BfiaAdapter

CONSTANTS t1, t2, a, b, guest, host

Two == <<t1, t2>>
Chain == (t1 :> {}) @@ (t2 :> {t1})
Places == (guest :> a) @@ (host :> b)
Both == (t1 :> {guest, host}) @@ (t2 :> {guest})
=============================================================================
