------------------------------- MODULE MCSite -------------------------------
(* Small instances of Site for TLC. *)
EXTENDS Site, TLC

\* fate_flow offers one component; fate two, or with another list one of them.
MCLists(p) == IF p = "fate_flow" THEN {{"lr"}} ELSE {{"psi", "lr"}, {"psi"}}
MCFlow == "fate_flow"
MCNames == {"fate_flow", "fate"}
MCWanted == {"psi", "lr"}

\* Two requests about roles and a crash; two about grants, or one and one about providers,
\* while a job asks; the source and the calls of start_job while a job inherits.
Events == [roles |-> 0, grants |-> 0, providers |-> 0, source |-> 0, crash |-> 0, job |-> 0]
MCBudgets ==
    {[Events EXCEPT !.roles = 2, !.crash = 1],
     [Events EXCEPT !.grants = 2, !.crash = 1, !.job = 1],
     [Events EXCEPT !.grants = 1, !.providers = 2, !.job = 1],
     [Events EXCEPT !.providers = 3],
     [Events EXCEPT !.source = 3, !.job = 1]}

Symmetry == Permutations(Callers) \cup Permutations(Servers) \cup Permutations(Clerks)
                \cup Permutations(Loaders)
=============================================================================
