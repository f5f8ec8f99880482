--------------------------- MODULE MCTaskExecution ---------------------------
(* A task that takes the table and the model of another and puts out two    *)
(* data items; and, as long as nothing gets lost and no user stops the job, *)
(* a third that takes nothing and begins after the second.                  *)
EXTENDS TaskExecution

CONSTANTS reader, train, stats

Channels == [t \in Tasks |-> IF t = train THEN <<reader>> ELSE <<>>]
Counts == [t \in Tasks |-> IF t = train THEN 2 ELSE 1]
Tables == [t \in Tasks |-> t = reader]

\* Beside the third task there are no faults and no users.
Instance == row[<<stats, 0>>] = WAITING \/ (faults + stops = 0 /\ row[<<train, 0>>] # WAITING)

MCSpec == Init /\ [][Next /\ Instance']_vars /\ Fairness
=============================================================================
