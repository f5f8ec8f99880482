--------------------------- MODULE StandaloneStore ---------------------------
(***************************************************************************)
(* The standalone computing and storage engine, _standalone.py: tables in  *)
(* partitions, each an LMDB environment of its own, operations on them     *)
(* that a pool of processes carries out partition by partition, and the    *)
(* federation, by which one party pushes objects and tables to others that *)
(* wait for them.                                                          *)
(*                                                                         *)
(* One party's driver works on the tables and pushes; every other party    *)
(* pulls.  A process opens a write transaction, of which an environment    *)
(* has one at a time, on each of its outputs before it maps, and commits   *)
(* them together, or none if its function raises.  After the first failure *)
(* the driver goes on while the processes it has submitted still run.      *)
(***************************************************************************)
EXTENDS Naturals, Sequences, FiniteSets, FiniteSetsExt, SequencesExt, Functions, TLC

CONSTANTS
    Keys,       \* keys of the records: some natural numbers
    Contents,   \* what the driver may put into a new table: sets of keys
    Sizes,      \* numbers of partitions a table may get
    PoolSize,   \* the processes of the pool (max_workers)
    Receivers,  \* the parties pushed to, in the order of the push
    Tags,       \* a push and its pulls agree on a tag, which is used once
    MaxOps,     \* bound on the operations of the driver
    MaxFaults   \* bound on the functions that raise

ASSUME StoreAssumption ==
    /\ Keys \subseteq Nat /\ Contents \subseteq SUBSET Keys
    /\ Sizes \subseteq Nat \ {0} /\ PoolSize \in Nat \ {0}
    /\ MaxOps \in Nat /\ MaxFaults \in Nat

VARIABLES
    env,     \* the content of each environment that has been written to
    meta,    \* the number of partitions of each table in __META__
    work,    \* the processes submitted to the pool
    op,      \* the operation the driver is at
    ops,     \* how many it has begun
    status,  \* the federation's status table of each party
    object,  \* and its object table
    pull,    \* how far each party is with the pull of a tag
    got,     \* what it has pulled
    sent,    \* what was pushed under the tag (for the properties)
    faults

vars == <<env, meta, work, op, ops, status, object, pull, got, sent, faults>>
store == <<env, meta>>
driver == <<work, op, ops>>
federation == <<status, object, pull, got, sent>>

None == <<>>
Empty == <<>>
Idle == [phase |-> "idle"]
Table(i, r) == <<"table", i, r>>   \* the name of what operation i made (for party r)
Cache(i) == <<"cache", i>>

(* A record's value is a list of keys, what a reducer concatenates. *)
Part(k, n) == k % n
Env(name, p) == IF <<name, p>> \in DOMAIN env THEN env[<<name, p>>] ELSE Empty
InOrder(f) == LET ks == SetToSortSeq(DOMAIN f, <) IN [i \in DOMAIN ks |-> <<ks[i], f[ks[i]]>>]

\* A later put of a key replaces an earlier one.
PutAll(f, pairs) == FoldLeft(LAMBDA g, kv : (kv[1] :> kv[2]) @@ g, f, pairs)
Collide(pairs) == [i \in DOMAIN pairs |-> <<pairs[i][1] \div 2, pairs[i][2]>>]
To(q, n, pairs) == SelectSeq(pairs, LAMBDA kv : Part(kv[1], n) = q)
Parallelize(ks, n) == [q \in 0..n-1 |-> [k \in {x \in ks : Part(x, n) = q} |-> <<k>>]]
Tables == DOMAIN meta
Own == {t \in Tables : t[3] = "own"}   \* those the driver has at hand
Content(t) == [p \in 0..meta[t]-1 |-> Env(t, p)]
All(c) == FoldLeft(LAMBDA s, p : s \o InOrder(c[p]), <<>>, SetToSortSeq(DOMAIN c, <))

Init ==
    /\ env = Empty /\ meta = Empty
    /\ work = {} /\ op = Idle /\ ops = 0
    /\ status = [r \in Range(Receivers) |-> Empty]
    /\ object = [r \in Range(Receivers) |-> Empty]
    /\ pull = [r \in Range(Receivers), t \in Tags |-> "off"]
    /\ got = [r \in Range(Receivers), t \in Tags |-> None]
    /\ sent = [t \in Tags |-> None]
    /\ faults = 0
----------------------------------------------------------------------------
(* The processes *)

\* The outputs a process opens for writing, in this order.
Outputs(j) ==
    CASE j.do = "reduce" -> <<>>
      [] j.do \in {"copy", "join", "read"} -> <<<<j.o.dst, j.p>>>>
      [] j.do \in {"scatter", "write"} /\ j.p >= j.o.in -> <<>>
      [] j.do = "scatter" -> [q \in 1..j.o.out |-> <<j.o.dst, q - 1>>]
      [] j.do = "write" -> [q \in 1..j.o.out |-> <<Cache(j.o.id), <<j.p, q - 1>>>>]

\* _do_mrwi_shuffle_read_and_reduce: in the order of the input partitions, and in
\* each in the order of the index the records were written with.
ReadAndReduce(j) ==
    LET pairs == FoldLeft(LAMBDA s, i : s \o Env(Cache(j.o.id), <<i, j.p>>),
                          <<>>, [i \in 1..j.o.in |-> i - 1])
    IN  FoldLeft(LAMBDA f, kv : IF kv[1] \in DOMAIN f
                                THEN [f EXCEPT ![kv[1]] = @ \o kv[2]]
                                ELSE (kv[1] :> kv[2]) @@ f,
                 Empty, pairs)

\* _do_binary_sorted_map_with_index, with the function that joins on the key.
Join(f, g) == [k \in DOMAIN f \cap DOMAIN g |-> f[k] \o g[k]]

\* Mutant: the index starts anew with every output, so records overwrite each other.
M_Written(j, e) ==
    LET in == InOrder(Env(j.o.src, j.p))
    IN  CASE j.do = "copy" -> PutAll(Env(e[1], e[2]), in)
          [] j.do = "join" -> PutAll(Env(e[1], e[2]), InOrder(Join(Env(j.o.src, j.p), Env(j.o.other, j.p))))
          [] j.do = "scatter" -> PutAll(Env(e[1], e[2]), To(e[2], j.o.out, Collide(in)))
          [] j.do = "write" -> LET s == To(e[2][2], j.o.out, Collide(in))
                               IN  IF s = <<>> THEN s ELSE <<Last(s)>>
          [] j.do = "read" -> ReadAndReduce(j)

\* What a process leaves in its output e.
Written(j, e) ==
    LET in == InOrder(Env(j.o.src, j.p))
    IN  CASE j.do = "copy" -> PutAll(Env(e[1], e[2]), in)
          [] j.do = "join" -> PutAll(Env(e[1], e[2]), InOrder(Join(Env(j.o.src, j.p), Env(j.o.other, j.p))))
          [] j.do = "scatter" -> PutAll(Env(e[1], e[2]), To(e[2], j.o.out, Collide(in)))
          [] j.do = "write" -> To(e[2][2], j.o.out, Collide(in))
          [] j.do = "read" -> ReadAndReduce(j)

\* _do_reduce: None for an empty partition.
Folded(pairs) == FoldLeft(LAMBDA v, kv : v \o kv[2], <<>>, pairs)

Held(j) == IF j.st = "run" THEN Range(SubSeq(Outputs(j), 1, j.held)) ELSE {}
Becomes(j, k) == work' = (work \ {j}) \cup {k}

Take(j) ==
    /\ j.st = "queued"
    /\ Cardinality({k \in work : k.st = "run"}) < PoolSize
    /\ \A k \in work : k.st = "queued" => j.o.id < k.o.id \/ (j.o.id = k.o.id /\ j.p <= k.p)
    /\ Becomes(j, [j EXCEPT !.st = "run"])
    /\ UNCHANGED <<store, op, ops, federation, faults>>

\* Mutant: every process opens its own output first.
M_Open(j) ==
    /\ j.st = "run" /\ j.held < Len(Outputs(j))
    /\ LET outs == Outputs(j)
           mine == [i \in DOMAIN outs |-> outs[((i - 1 + j.p) % Len(outs)) + 1]]
           held == [k \in work |-> IF k.st # "run" THEN {} ELSE
                      {Outputs(k)[((i - 1 + k.p) % Len(Outputs(k))) + 1] : i \in 1..k.held}]
       IN  \A k \in work : mine[j.held + 1] \notin held[k]
    /\ Becomes(j, [j EXCEPT !.held = @ + 1])
    /\ UNCHANGED <<store, op, ops, federation, faults>>

\* env.begin(write=True) waits for the transaction another process has on it.
Open(j) ==
    /\ j.st = "run" /\ j.held < Len(Outputs(j))
    /\ \A k \in work : Outputs(j)[j.held + 1] \notin Held(k)
    /\ Becomes(j, [j EXCEPT !.held = @ + 1])
    /\ UNCHANGED <<store, op, ops, federation, faults>>

Run(j) ==
    /\ j.st = "run" /\ j.held = Len(Outputs(j))
    /\ env' = [e \in Range(Outputs(j)) |-> Written(j, e)] @@ env
    /\ Becomes(j, [j EXCEPT !.st = "done", !.held = 0,
                            !.value = IF j.do = "reduce" THEN Folded(InOrder(Env(j.o.src, j.p))) ELSE None])
    /\ UNCHANGED <<meta, op, ops, federation, faults>>

Raise(j) ==
    /\ j.st = "run" /\ j.held = Len(Outputs(j)) /\ faults < MaxFaults
    /\ faults' = faults + 1
    /\ Becomes(j, [j EXCEPT !.st = "failed", !.held = 0])
    /\ UNCHANGED <<store, op, ops, federation>>
----------------------------------------------------------------------------
(* The driver *)

\* BasicProcessPool.submit, with as many processes as the operation asks for.
Submitted(o, do, n) ==
    {[o |-> o, do |-> do, p |-> p, st |-> "queued", held |-> 0, value |-> None] : p \in 0..n-1}
Most(o) == IF o.in >= o.out THEN o.in ELSE o.out

Begin(kind, src, other, out, tag) ==
    LET o == [id |-> ops, kind |-> kind, src |-> src, other |-> other, in |-> meta[src],
              out |-> out, dst |-> Table(ops, IF kind = "push" THEN Receivers[1] ELSE "own")]
        do == CASE kind \in {"push", "copy"} -> "copy" [] kind = "mapreduce" -> "write" [] OTHER -> kind
    IN  /\ op = Idle /\ ops < MaxOps
        /\ op' = [phase |-> do, o |-> o, got |-> {}, values |-> Empty, to |-> 1, tag |-> tag]
        /\ work' = work \cup Submitted(o, do, IF do \in {"reduce", "join"} THEN o.in ELSE Most(o))
        /\ ops' = ops + 1
        /\ UNCHANGED <<store, status, object, pull, got, faults>>

\* reduce, copy_as, binary_sorted_map_partitions_with_index (of tables with as many
\* partitions), map_reduce_partitions_with_index with a shuffle, without and with a
\* reducer.
Operate(src) ==
    /\ \/ Begin("reduce", src, src, meta[src], None)
       \/ Begin("copy", src, src, meta[src], None)
       \/ \E other \in Own : meta[other] = meta[src] /\ Begin("join", src, other, meta[src], None)
       \/ \E n \in Sizes : Begin("scatter", src, src, n, None) \/ Begin("mapreduce", src, src, n, None)
    /\ UNCHANGED sent

PushTable(src, tag) ==
    /\ sent[tag] = None
    /\ Begin("push", src, src, meta[src], tag)
    /\ sent' = [sent EXCEPT ![tag] = Content(src)]

Phases == {"reduce", "join", "copy", "scatter", "write", "read"}
Asked(j) == op.phase \in Phases /\ j.do = op.phase /\ j.o = op.o

Collect(j) ==
    /\ Asked(j) /\ j.st = "done"
    /\ op' = [op EXCEPT !.got = @ \cup {j.p}, !.values = (j.p :> j.value) @@ @]
    /\ work' = work \ {j}
    /\ UNCHANGED <<store, ops, federation, faults>>

\* The first failure that is seen ends the operation; the others are left to run.
GiveUp(j) ==
    /\ Asked(j) /\ j.st = "failed"
    /\ op' = Idle
    /\ work' = work \ {j}
    /\ UNCHANGED <<store, ops, federation, faults>>

Processes == IF op.phase \in {"reduce", "join"} THEN op.o.in ELSE Most(op.o)
Collected ==
    /\ op.phase \in Phases
    /\ op.got = 0..Processes-1

\* The second step of a map-reduce.
Shuffled ==
    /\ Collected /\ op.phase = "write"
    /\ op' = [op EXCEPT !.phase = "read", !.got = {}]
    /\ work' = work \cup Submitted(op.o, "read", Most(op.o))
    /\ UNCHANGED <<store, ops, federation, faults>>

\* _create_table, and the removal of what was written for the shuffle.
Finish ==
    /\ Collected /\ op.phase \in {"join", "copy", "scatter", "read"}
    /\ meta' = (op.o.dst :> op.o.out) @@ meta
    /\ env' = Restrict(env, {e \in DOMAIN env : e[1] # Cache(op.o.id)})
    /\ op' = IF op.tag = None THEN Idle ELSE [op EXCEPT !.phase = "announce"]
    /\ UNCHANGED <<work, ops, federation, faults>>

\* submit_reduce folds what the partitions have come to, in their order.
Reduced(values) == FoldLeft(LAMBDA v, p : v \o values[p], <<>>, SetToSortSeq(DOMAIN values, <))
Return ==
    /\ Collected /\ op.phase = "reduce"
    /\ op' = Idle
    /\ UNCHANGED <<store, work, ops, federation, faults>>

\* push_table tells the party the name of its copy, and makes the next one's.
Announce ==
    LET r == Receivers[op.to]
        next == [op.o EXCEPT !.dst = Table(op.o.id, Receivers[op.to + 1])]
    IN  /\ op # Idle /\ op.phase = "announce"
        /\ status' = [status EXCEPT ![r] = (op.tag :> op.o.dst) @@ @]
        /\ IF op.to = Len(Receivers)
           THEN op' = Idle /\ UNCHANGED work
           ELSE /\ op' = [op EXCEPT !.phase = "copy", !.o = next, !.got = {}, !.to = @ + 1]
                /\ work' = work \cup Submitted(next, "copy", Most(next))
        /\ UNCHANGED <<store, ops, object, pull, got, sent, faults>>

\* push_bytes: for every party first the object, then the status.
PushBytes(tag) ==
    /\ op = Idle /\ ops < MaxOps /\ sent[tag] = None
    /\ sent' = [sent EXCEPT ![tag] = <<"bytes", tag>>]
    /\ op' = [phase |-> "bytes", tag |-> tag, to |-> 1]
    /\ ops' = ops + 1
    /\ UNCHANGED <<store, work, status, object, pull, got, faults>>

\* set_object, then set_status.
TellParty ==
    LET r == Receivers[op.to] IN
    /\ \/ /\ op.phase = "bytes"
          /\ object' = [object EXCEPT ![r] = (op.tag :> sent[op.tag]) @@ @]
          /\ op' = [op EXCEPT !.phase = "object"]
          /\ UNCHANGED status
       \/ /\ op.phase = "object"
          /\ status' = [status EXCEPT ![r] = (op.tag :> op.tag) @@ @]
          /\ op' = IF op.to = Len(Receivers) THEN Idle ELSE [op EXCEPT !.phase = "bytes", !.to = @ + 1]
          /\ UNCHANGED object
    /\ UNCHANGED <<store, work, ops, pull, got, sent, faults>>

\* parallelize: a new table, and put_all in it.
Load(ks, n) ==
    LET t == Table(ops, "own") IN
    /\ op = Idle /\ ops < MaxOps
    /\ meta' = (t :> n) @@ meta
    /\ env' = [e \in {<<t, p>> : p \in 0..n-1} |-> Parallelize(ks, n)[e[2]]] @@ env
    /\ ops' = ops + 1
    /\ UNCHANGED <<work, op, federation, faults>>

\* Table.destroy, of a table of the driver's own.
Dropped(t) ==
    /\ meta' = Restrict(meta, Tables \ {t})
    /\ env' = Restrict(env, {e \in DOMAIN env : e[1] # t})
Destroy(t) ==
    /\ op = Idle /\ ops < MaxOps
    /\ Dropped(t)
    /\ ops' = ops + 1
    /\ UNCHANGED <<work, op, federation, faults>>
----------------------------------------------------------------------------
(* A receiver *)

Step(r, t, from, to) == pull[r, t] = from /\ pull' = [pull EXCEPT ![r, t] = to]
Ack(table, r, t) == [table EXCEPT ![r] = Restrict(@, DOMAIN @ \ {t})]

Ask(r, t) ==
    /\ Step(r, t, "off", "wait")
    /\ UNCHANGED <<store, driver, status, object, got, sent, faults>>

\* Mutant: a pull looks only once.
M_Found(r, t) ==
    /\ Step(r, t, "wait", IF t \notin DOMAIN status[r] THEN "error"
                          ELSE IF status[r][t] = t THEN "bytes" ELSE "table")
    /\ UNCHANGED <<store, driver, status, object, got, sent, faults>>

\* wait_status_set looks again and again; what is pulled is then told by its kind.
Found(r, t) ==
    /\ t \in DOMAIN status[r]
    /\ Step(r, t, "wait", IF status[r][t] = t THEN "bytes" ELSE "table")
    /\ UNCHANGED <<store, driver, status, object, got, sent, faults>>

\* An object or a table that is not there raises.
GetObject(r, t) ==
    /\ IF t \in DOMAIN object[r]
       THEN Step(r, t, "bytes", "ack") /\ got' = [got EXCEPT ![r, t] = object[r][t]]
       ELSE Step(r, t, "bytes", "error") /\ UNCHANGED got
    /\ UNCHANGED <<store, driver, status, object, sent, faults>>

AckObject(r, t) ==
    /\ Step(r, t, "ack", "acked")
    /\ object' = Ack(object, r, t)
    /\ UNCHANGED <<store, driver, status, got, sent, faults>>

LoadTable(r, t) ==
    /\ t \in DOMAIN status[r]
    /\ IF status[r][t] \in Tables
       THEN Step(r, t, "table", "acked") /\ got' = [got EXCEPT ![r, t] = status[r][t]]
       ELSE Step(r, t, "table", "error") /\ UNCHANGED got
    /\ UNCHANGED <<store, driver, status, object, sent, faults>>

AckStatus(r, t) ==
    /\ Step(r, t, "acked", "pulled")
    /\ status' = Ack(status, r, t)
    /\ UNCHANGED <<store, driver, object, got, sent, faults>>

\* The table that was pulled goes with the object that stands for it.
Release(r, t) ==
    /\ Step(r, t, "pulled", "gone")
    /\ got[r, t] \in Tables
    /\ Dropped(got[r, t])
    /\ UNCHANGED <<driver, status, object, got, sent, faults>>
----------------------------------------------------------------------------
Pool == \E j \in work : Take(j) \/ Open(j) \/ Run(j) \/ Raise(j)
Driver ==
    \/ \E j \in work : Collect(j) \/ GiveUp(j)
    \/ Shuffled \/ Finish \/ Return \/ Announce \/ TellParty
Program ==
    \/ \E ks \in Contents, n \in Sizes : Load(ks, n)
    \/ \E t \in Own : Operate(t) \/ Destroy(t) \/ \E tag \in Tags : PushTable(t, tag)
    \/ \E tag \in Tags : PushBytes(tag)
Receive(r, t) ==
    \/ Found(r, t) \/ GetObject(r, t) \/ AckObject(r, t)
    \/ LoadTable(r, t) \/ AckStatus(r, t) \/ Release(r, t)

Next == Pool \/ Driver \/ Program \/ \E r \in Range(Receivers), t \in Tags : Ask(r, t) \/ Receive(r, t)

Spec == Init /\ [][Next]_vars

\* Processes and the driver run; a party pulls what its program asks for, and the
\* programs of the two parties agree on that.
Fairness ==
    /\ WF_vars(\E j \in work : Take(j) \/ Open(j) \/ Run(j))
    /\ WF_vars(Driver)
    /\ \A r \in Range(Receivers), t \in Tags : WF_vars(Ask(r, t) \/ Receive(r, t))

FairSpec == Spec /\ Fairness
----------------------------------------------------------------------------
\* What the operations are to compute, of the whole table at once.
IsRight(o, made) ==
    LET in == Content(o.src)
        pairs == Collide(All(in))
        of(k) == SelectSeq(pairs, LAMBDA kv : kv[1] = k)
        keys(q) == {k \in {pairs[i][1] : i \in DOMAIN pairs} : Part(k, o.out) = q}
    IN  CASE o.kind \in {"push", "copy"} -> made = in
          [] o.kind = "join" -> made = [q \in DOMAIN in |-> Join(in[q], Content(o.other)[q])]
          [] o.kind = "mapreduce" ->
               made = [q \in 0..o.out-1 |-> [k \in keys(q) |-> Folded(of(k))]]
          [] o.kind = "scatter" -> \A q \in 0..o.out-1 :
               /\ DOMAIN made[q] = keys(q)
               /\ \A k \in keys(q) : \E i \in DOMAIN of(k) : made[q][k] = of(k)[i][2]

\* When the driver has the answer of every process, the table it is about to make
\* visible, or the value it is about to return, is that of the whole table computed
\* at once: however the processes took turns, however many partitions there are on
\* either side, and though others that it had given up may still run.
ResultsAreRight ==
    Collected =>
        CASE op.phase = "write" -> TRUE
          [] op.phase = "reduce" -> Reduced(op.values) = Folded(All(Content(op.o.src)))
          [] OTHER -> IsRight(op.o, [q \in 0..op.o.out-1 |-> Env(op.o.dst, q)])

\* A party gets what was pushed under the tag, and keeps a table as it was pushed,
\* whatever the pusher has done since with its own; no pull finds a status without
\* what it stands for.
PulledIsPushed ==
    \A r \in Range(Receivers), t \in Tags :
        /\ pull[r, t] # "error"
        /\ pull[r, t] \in {"ack", "acked", "pulled"} =>
             sent[t] = IF got[r, t] \in Tables THEN Content(got[r, t]) ELSE got[r, t]

\* What is computed and what is exchanged is the data, however the processes take turns.
DataIsRight == ResultsAreRight /\ PulledIsPushed

\* Every operation comes to an end: the processes never wait for each other's outputs
\* in a circle, and the pool is never full of those that wait.
EveryOperationEnds == op # Idle ~> op = Idle

\* What a party has been told of it gets, once.
EveryPushArrives ==
    \A r \in Range(Receivers), t \in Tags :
        (t \in DOMAIN status[r]) ~> (pull[r, t] \in {"pulled", "gone"})
=============================================================================
