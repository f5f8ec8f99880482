------------------------------ MODULE Enforcer ------------------------------
(***************************************************************************)
(* A casbin enforcer (db/casbin_models.py) at servers that share a table   *)
(* of rules.  Each server has one enforcer, with the rules in its memory,  *)
(* and all threads of the server use it without a lock: a read first loads *)
(* the rules, which is to select the rows, to empty the memory and to fill *)
(* it line by line, and any other thread may run in between.  A casbin     *)
(* that fills a memory aside and then installs it is the case in which     *)
(* nobody does.  Two equal rows of the table count as one.                 *)
(***************************************************************************)
CONSTANTS
    Threads,
    Servers

VARIABLES
    table,   \* the rules in the database
    memory,  \* per server: the rules its enforcer has in memory
    load     \* per thread: how far its load is, and the lines it has yet to put in

Idle == [at |-> "idle", copy |-> {}]

\* load_policy of a thread: the rows are selected, the memory is emptied, each line put in.
Select(t) ==
    /\ load[t].at = "idle"
    /\ load' = [load EXCEPT ![t] = [at |-> "selected", copy |-> table]]
    /\ UNCHANGED <<table, memory>>

Clear(t, s) ==
    /\ load[t].at = "selected"
    /\ load' = [load EXCEPT ![t].at = "filling"]
    /\ memory' = [memory EXCEPT ![s] = {}]
    /\ UNCHANGED table

Line(t, s) ==
    /\ load[t].at = "filling"
    /\ \E l \in load[t].copy :
          /\ load' = [load EXCEPT ![t].copy = @ \ {l}]
          /\ memory' = [memory EXCEPT ![s] = @ \cup {l}]
    /\ UNCHANGED table

Load(t, s) == Select(t) \/ Clear(t, s) \/ Line(t, s)

\* The load is done, and the memory, as it then is, is read.
Loaded(t) == load[t].at = "filling" /\ load[t].copy = {}
Read(t) == Loaded(t) /\ load' = [load EXCEPT ![t] = Idle]

\* The enforcer writes what its memory has not, and deletes what its memory has.
AddRule(s, l) ==
    IF l \in memory[s]
    THEN UNCHANGED <<table, memory>>
    ELSE /\ table' = table \cup {l}
         /\ memory' = [memory EXCEPT ![s] = @ \cup {l}]

RemoveRule(s, l) ==
    IF l \in memory[s]
    THEN /\ table' = table \ {l}
         /\ memory' = [memory EXCEPT ![s] = @ \ {l}]
    ELSE UNCHANGED <<table, memory>>

\* The adapter does not delete by a filter: the rules leave the memory alone.
RemoveAll(s) == memory' = [memory EXCEPT ![s] = {}] /\ UNCHANGED table

\* A server starts again with the rules of the table, and without its threads.
Restart(s, threads) ==
    /\ memory' = [memory EXCEPT ![s] = table]
    /\ load' = [t \in Threads |-> IF t \in threads THEN Idle ELSE load[t]]
    /\ UNCHANGED table
=============================================================================
