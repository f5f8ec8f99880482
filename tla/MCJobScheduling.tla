-------------------------- MODULE MCJobScheduling --------------------------
(* Jobs of two tasks for TLC: one after the other, with a loss or a crash   *)
(* in either mode, and side by side, without.                               *)
EXTENDS JobScheduling, TLC

CONSTANTS t1, t2, p1, p2

Chain == (t1 :> {}) @@ (t2 :> {t1})
Parallel == (t1 :> {}) @@ (t2 :> {})

TroubledChains ==
    {c \in [deps : {Chain}, sync : {"callback", "poll"}, lost : 0..1, crashes : 0..1] :
        c.lost + c.crashes = 1}
SoundPairs == [deps : {Parallel}, sync : {"callback"}, lost : {0}, crashes : {0}]
MCJobs == TroubledChains \cup SoundPairs
=============================================================================
