------------------------- MODULE TaskExecutionProofs -------------------------
(***************************************************************************)
(* For any number of tasks, channels, data items, process ids and          *)
(* versions, with faults, stops and reruns at any time: a table that is    *)
(* known has its data, a component has what it was handed, a task that is  *)
(* run again finds its inputs, and no worker outlives the stop of its      *)
(* version.                                                                *)
(***************************************************************************)
EXTENDS TaskExecution, TLAPS

(* The invariant *)

\* The worker processes.
Places == {"input", "ready", "wait", "push", "destroy", "drop", "report"}

Process ==
    [x : Versions, k : 1..2, at : Places, i : Nat \ {0}, ins : SUBSET Uris, temp : Seq(Uris), ok : BOOLEAN]

\* Types.
Typed ==
    /\ row \in [Versions -> {None, WAITING, RUNNING, CANCELED, FAILED, SUCCESS}]
    /\ workers \in [Versions -> Seq(Pids)] /\ \A x \in Versions : Len(workers[x]) <= 2
    /\ proc \in [Pids -> {Free} \cup Process]
    /\ tracking \subseteq Uris /\ metas \subseteq tracking /\ data \subseteq Uris
    /\ model \in [Tasks -> {NoModel} \cup [row : Versions, from : Starts]]
    /\ killing \in [Versions -> {<<>>} \cup ({"begin", "kill"} \X {CANCELED, FAILED})]
    /\ faults \in Nat

\* A task has the versions up to the latest, and all before that were interrupted.
Latest(t, v) ==
    /\ row[<<t, v>>] # None
    /\ \A w \in 0..MaxVersion : /\ w > v => row[<<t, w>>] = None
                                /\ w < v => row[<<t, w>>] \in InterruptStatus

OneByOne == \A t \in Tasks : \E v \in 0..MaxVersion : Latest(t, v)

\* A version that has begun has inputs whose tasks have succeeded, for good.
InputsDone ==
    \A x \in Versions : row[x] \notin {None, WAITING} =>
        \A d \in Range(Inputs[x[1]]) : row[Current(d)] = SUCCESS

\* A version that has not begun has had no worker.
Begun == \A x \in Versions : row[x] \in {None, WAITING} => workers[x] = <<>>

\* The worker has its id in the list of its start, and its version runs still, unless it was
\* started twice.
Owned(p) ==
    /\ proc[p].k \in DOMAIN workers[proc[p].x] /\ workers[proc[p].x][proc[p].k] = p
    /\ row[proc[p].x] # CANCELED
    /\ Len(workers[proc[p].x]) = 1 => row[proc[p].x] = RUNNING

Live == \A p \in Pids : Alive(p) => Owned(p)

\* The data items that a start puts out.
Outs(e) == {u \in Uris : u[1] = e}

\* What a worker has still to record is in the storage and has no row yet.
Unwritten(p) ==
    /\ proc[p].at \in {"input", "ready", "wait"} => Outs(Me(p)) \cap tracking = {}
    /\ proc[p].at = "push" =>
         \A u \in Outs(Me(p)) : u[2] >= proc[p].i => u \in data /\ u \notin tracking

\* A recorded data item of a task whose outputs t takes.
Takes(t, u) == u \in tracking /\ u[1][1][1] \in Range(Inputs[t])

\* What a worker has been handed are outputs of the tasks whose outputs it takes; a table
\* that it is about to drop has no row of the storage any more.
Took(p) ==
    /\ \A u \in proc[p].ins : Takes(Task(p), u)
    /\ \A j \in 1..Len(proc[p].temp) : Takes(Task(p), proc[p].temp[j]) /\ IsTable[proc[p].temp[j][1][1][1]]
    /\ proc[p].at = "drop" => proc[p].i <= Len(proc[p].temp) /\ proc[p].temp[proc[p].i] \notin metas

\* No version of the task was started twice.
Once(t) == \A x \in Versions : x[1] = t => Len(workers[x]) <= 1

\* The data a worker was handed stays while its component may read it.
Keeps(p) ==
    proc[p].at \in {"input", "ready", "wait"} /\ Once(Task(p)) =>
        \A u \in proc[p].ins : u \in data \/ Shared(u[1][1][1])

\* All outputs of the first start of a version are recorded.
Whole(x) == Outs(<<x, 1>>) \subseteq tracking /\ (x[1] \in Models => HasModel(x[1]))

\* The outputs are stored: only the clean-up and the report are left.
Through(p) == proc[p].at \in {"destroy", "drop"} \/ (proc[p].at = "report" /\ proc[p].ok)

\* Without faults a worker records its items one after the other, and none is missing in
\* the end.
Stores(p) ==
    /\ proc[p].at = "push" => \A u \in Outs(Me(p)) : u[2] < proc[p].i => u \in tracking
    /\ Through(p) => Whole(proc[p].x)

Fine(p) == Unwritten(p) /\ Took(p) /\ Keeps(p) /\ (faults = 0 => Stores(p))
AllFine == \A p \in Pids : Alive(p) => Fine(p)

\* A table has its data, and a data item comes from a start that was made.
Settled ==
    /\ metas \subseteq data
    /\ \A u \in tracking : u[1][2] <= Len(workers[u[1][1]])

\* While nothing has got lost: one start of each version, whole outputs of those that have
\* succeeded, and a table that has gone was destroyed by a task that has stored its outputs.
Books ==
    faults = 0 =>
        /\ \A x \in Versions : Len(workers[x]) <= 1 /\ (row[x] = SUCCESS => Whole(x))
        /\ \A u \in tracking : u \in metas \/ (IsTable[u[1][1][1]] /\ \E t \in Tasks : Takes(t, u) /\ Stored(t))

IInv == Typed /\ OneByOne /\ InputsDone /\ Begun /\ Live /\ Settled /\ AllFine /\ Books
-----------------------------------------------------------------------------
LEMMA Statuses ==
    /\ None \notin {WAITING, RUNNING, CANCELED, FAILED, SUCCESS}
    /\ WAITING \notin {RUNNING, CANCELED, FAILED, SUCCESS}
    /\ RUNNING \notin {CANCELED, FAILED, SUCCESS} /\ SUCCESS \notin {CANCELED, FAILED} /\ CANCELED # FAILED
    /\ FAILED \in InterruptStatus /\ CANCELED \in InterruptStatus
    /\ {None, WAITING, RUNNING, SUCCESS} \cap InterruptStatus = {}
  BY DEF None, WAITING, RUNNING, CANCELED, TIMEOUT, FAILED, SUCCESS, InterruptStatus

LEMMA Numbers == MaxVersion \in Nat /\ MaxFaults \in Nat /\ MaxStops \in Nat
  BY ExecutionAssumption

LEMMA VersionFacts ==
    /\ \A x \in Versions : x[1] \in Tasks /\ x[2] \in 0..MaxVersion /\ x = <<x[1], x[2]>>
    /\ \A t \in Tasks, v \in 0..MaxVersion : <<t, v>> \in Versions
    /\ \A e \in Starts : e[1] \in Versions /\ e[2] \in 1..2 /\ e = <<e[1], e[2]>>
    /\ \A x \in Versions, k \in 1..2 : <<x, k>> \in Starts
  BY DEF Versions, Starts

LEMMA ItemFacts == \A t \in Tasks : Items[t] \in Nat /\ Items[t] >= 1
  BY ExecutionAssumption

LEMMA UriFacts ==
    /\ \A u \in Uris : /\ u[1] \in Starts /\ u[1][1] \in Versions /\ u[1][1][1] \in Tasks
                       /\ u[2] \in Nat \ {0} /\ u = <<u[1], u[2]>>
    /\ \A e \in Starts, i \in Nat : <<e, i>> \in Uris <=> i \in 1..Items[e[1][1]]
<1>1. ASSUME NEW u \in Uris
      PROVE  /\ u[1] \in Starts /\ u[1][1] \in Versions /\ u[1][1][1] \in Tasks
             /\ u[2] \in Nat \ {0} /\ u = <<u[1], u[2]>>
    <2>1. PICK e \in Starts : u \in {e} \X (1..Items[e[1][1]])
        BY <1>1 DEF Uris
    <2>2. e[1] \in Versions /\ e[1][1] \in Tasks
        BY VersionFacts
    <2>3. Items[e[1][1]] \in Nat
        BY <2>2, ItemFacts
    <2> QED
        BY <2>1, <2>2, <2>3
<1>2. ASSUME NEW e \in Starts, NEW i \in Nat PROVE <<e, i>> \in Uris <=> i \in 1..Items[e[1][1]]
    <2>1. ASSUME <<e, i>> \in Uris PROVE i \in 1..Items[e[1][1]]
        <3>1. PICK f \in Starts : <<e, i>> \in {f} \X (1..Items[f[1][1]])
            BY <2>1 DEF Uris
        <3> QED
            BY <3>1
    <2>2. ASSUME i \in 1..Items[e[1][1]] PROVE <<e, i>> \in Uris
        <3>1. <<e, i>> \in {e} \X (1..Items[e[1][1]])
            BY <2>2
        <3> QED
            BY <3>1 DEF Uris
    <2> QED
        BY <2>1, <2>2
<1> QED
    BY <1>1, <1>2

\* A record of a worker is not that of a free id.
LEMMA ProcessFacts ==
    ASSUME Typed, NEW p \in Pids, Alive(p)
    PROVE  /\ proc[p] \in Process /\ Me(p) \in Starts /\ Task(p) \in Tasks
           /\ proc[p].x \in Versions /\ proc[p].k \in 1..2 /\ proc[p].at \in Places /\ proc[p].i \in Nat \ {0}
           /\ proc[p].ins \subseteq Uris /\ proc[p].temp \in Seq(Uris) /\ proc[p].ok \in BOOLEAN
<1>1. proc[p] \in Process
    BY DEF Typed, Alive
<1>2. /\ proc[p].x \in Versions /\ proc[p].k \in 1..2 /\ proc[p].at \in Places /\ proc[p].i \in Nat \ {0}
      /\ proc[p].ins \subseteq Uris /\ proc[p].temp \in Seq(Uris) /\ proc[p].ok \in BOOLEAN
    BY <1>1 DEF Process
<1> QED
    BY <1>1, <1>2, VersionFacts DEF Me, Task

\* One process goes on as r.
LEMMA BecomeFacts ==
    ASSUME Typed, NEW p \in Pids, NEW r \in {Free} \cup Process, Become(p, r)
    PROVE  /\ proc' \in [Pids -> {Free} \cup Process] /\ proc'[p] = r
           /\ \A q \in Pids : q # p => proc'[q] = proc[q]
  BY DEF Become, Typed

\* The latest version is the one the rows have, whichever rows.
LatestIn(f, t) == CHOOSE x \in Versions :
    x[1] = t /\ f[x] # None /\ \A y \in Versions : y[1] = t /\ f[y] # None => y[2] <= x[2]

LEMMA LatestIs ==
    ASSUME NEW f, NEW t \in Tasks, NEW v \in 0..MaxVersion, f[<<t, v>>] # None,
           \A w \in 0..MaxVersion : w > v => f[<<t, w>>] = None
    PROVE  LatestIn(f, t) = <<t, v>>
<1> DEFINE P(x) == x[1] = t /\ f[x] # None /\ \A y \in Versions : y[1] = t /\ f[y] # None => y[2] <= x[2]
<1>1. <<t, v>> \in Versions /\ P(<<t, v>>)
    BY VersionFacts, Numbers
<1>2. ASSUME NEW x \in Versions, P(x) PROVE x = <<t, v>>
    <2>1. x[2] \in 0..MaxVersion /\ x = <<t, x[2]>>
        BY <1>2, VersionFacts
    <2>2. v <= x[2]
        BY <1>1, <1>2
    <2>3. ~(x[2] > v)
        BY <1>2, <2>1
    <2> QED
        BY <2>1, <2>2, <2>3, Numbers
<1>3. LatestIn(f, t) = CHOOSE x \in Versions : P(x)
    BY DEF LatestIn
<1> HIDE DEF P
<1> QED
    BY <1>1, <1>2, <1>3

LEMMA CurrentIs ==
    ASSUME NEW t \in Tasks
    PROVE  Current(t) = LatestIn(row, t) /\ Current(t)' = LatestIn(row', t)
  BY DEF Current, LatestIn

\* The statuses a row can have.
Reached == {None, WAITING, RUNNING, CANCELED, FAILED, SUCCESS}

LEMMA InputFacts == \A t \in Tasks : Inputs[t] \in Seq(Tasks) /\ Range(Inputs[t]) \subseteq Tasks
<1> SUFFICES ASSUME NEW t \in Tasks PROVE Inputs[t] \in Seq(Tasks) /\ Range(Inputs[t]) \subseteq Tasks
    OBVIOUS
<1>1. Inputs[t] \in Seq(Tasks)
    BY ExecutionAssumption
<1>2. \A i \in DOMAIN Inputs[t] : Inputs[t][i] \in Tasks
    BY <1>1
<1> QED
    BY <1>1, <1>2 DEF Range

\* The versions of a task of which one is the latest.
LEMMA LatestFacts ==
    ASSUME Typed, OneByOne, NEW t \in Tasks
    PROVE  /\ Current(t) \in Versions /\ Current(t)[1] = t /\ Latest(t, Current(t)[2]) /\ row[Current(t)] # None
           /\ \A x \in Versions : x[1] = t /\ row[x] \notin InterruptStatus \cup {None} => x = Current(t)
           /\ \A x \in Versions : x[1] = t /\ x[2] > Current(t)[2] => row[x] = None
<1>1. PICK v \in 0..MaxVersion : Latest(t, v)
    BY DEF OneByOne
<1>2. Current(t) = <<t, v>> /\ <<t, v>> \in Versions
    BY <1>1, CurrentIs, LatestIs, VersionFacts DEF Latest
<1>3. row[<<t, v>>] # None
    BY <1>1 DEF Latest
<1>4. ASSUME NEW x \in Versions, x[1] = t
      PROVE  /\ row[x] \notin InterruptStatus \cup {None} => x = <<t, v>>
             /\ x[2] > v => row[x] = None
    <2>1. x[2] \in 0..MaxVersion /\ x = <<t, x[2]>>
        BY <1>4, VersionFacts
    <2>2. /\ x[2] > v => row[x] = None
          /\ x[2] < v => row[x] \in InterruptStatus
        BY <1>1, <2>1 DEF Latest
    <2>3. x[2] > v \/ x[2] < v \/ x[2] = v
        BY <2>1, Numbers
    <2> QED
        BY <2>1, <2>2, <2>3
<1> QED
    BY <1>1, <1>2, <1>3, <1>4

LEMMA NowFacts ==
    ASSUME Typed, OneByOne, NEW x \in Now
    PROVE  x \in Versions /\ x = Current(x[1]) /\ x[1] \in Tasks /\ row[x] # None
<1>1. PICK t \in Tasks : x = Current(t)
    BY DEF Now
<1> QED
    BY <1>1, LatestFacts

LEMMA RuleFacts ==
    \A a \in Reached, s \in {RUNNING, SUCCESS, FAILED, CANCELED} :
        TaskMayBecome(a, s) <=> \/ a = WAITING /\ s \in {RUNNING, SUCCESS}
                                \/ a = RUNNING /\ s \in {SUCCESS, FAILED, CANCELED}
  BY DEF Reached, TaskMayBecome, TaskRules, None, WAITING, RUNNING, CANCELED, TIMEOUT, FAILED, PASS, SUCCESS

LEMMA MovedFacts ==
    ASSUME Typed, NEW x \in Versions, NEW s \in {RUNNING, SUCCESS, FAILED, CANCELED}, row' = Moved(x, s)
    PROVE  /\ row' \in [Versions -> Reached]
           /\ \A y \in Versions : y # x => row'[y] = row[y]
           /\ row'[x] = IF TaskMayBecome(row[x], s) THEN s ELSE row[x]
  BY DEF Typed, Moved, Reached

\* What a step makes of the rows, but for a request to run the job again.
RowsMove ==
    /\ row' \in [Versions -> Reached]
    /\ \A x \in Versions :
         \/ row'[x] = row[x]
         \/ row[x] = RUNNING /\ row'[x] \in {SUCCESS, FAILED, CANCELED}
         \/ /\ row[x] = WAITING /\ row'[x] = RUNNING
            /\ \A d \in Range(Inputs[x[1]]) : row[Current(d)] = SUCCESS

LEMMA RowsMoveKeeps ==
    ASSUME Typed, OneByOne, InputsDone, RowsMove
    PROVE  /\ OneByOne' /\ InputsDone'
           /\ \A t \in Tasks : Current(t)' = Current(t)
           /\ \A x \in Versions : row[x] = SUCCESS => row'[x] = SUCCESS
<1>1. ASSUME NEW t \in Tasks PROVE Latest(t, Current(t)[2])' /\ Current(t)' = Current(t) /\ Current(t) \in Versions
    <2>1. PICK v \in 0..MaxVersion : Latest(t, v)
        BY DEF OneByOne
    <2>2. \A w \in 0..MaxVersion : <<t, w>> \in Versions
        BY VersionFacts
    <2>3. \A w \in 0..MaxVersion : /\ row[<<t, w>>] # None => row'[<<t, w>>] # None
                                   /\ row[<<t, w>>] = None => row'[<<t, w>>] = None
                                   /\ row[<<t, w>>] \in InterruptStatus => row'[<<t, w>>] = row[<<t, w>>]
        BY <2>2, Statuses DEF RowsMove
    <2>4. Latest(t, v)'
        BY <2>1, <2>3 DEF Latest
    <2>5. Current(t) = <<t, v>> /\ Current(t)' = <<t, v>>
        <3>1. Current(t) = <<t, v>>
            BY <2>1, CurrentIs, LatestIs DEF Latest
        <3>2. Current(t)' = <<t, v>>
            BY <2>4, CurrentIs, LatestIs DEF Latest
        <3> QED
            BY <3>1, <3>2
    <2> QED
        BY <2>2, <2>4, <2>5
<1>2. OneByOne'
    <2>1. ASSUME NEW t \in Tasks PROVE (\E v \in 0..MaxVersion : Latest(t, v))'
        <3>1. Current(t)[2] \in 0..MaxVersion
            BY <1>1, VersionFacts
        <3>2. Latest(t, Current(t)[2])'
            BY <1>1
        <3> QED
            BY <1>1, <3>1, <3>2
    <2> QED
        BY <2>1 DEF OneByOne
<1>3. \A x \in Versions : row[x] = SUCCESS => row'[x] = SUCCESS
    BY Statuses DEF RowsMove
<1>4. InputsDone'
    <2>1. ASSUME NEW x \in Versions, row'[x] \notin {None, WAITING}, NEW d \in Range(Inputs[x[1]])
          PROVE  row'[Current(d)'] = SUCCESS
        <3>1. row[Current(d)] = SUCCESS
            BY <2>1, Statuses DEF RowsMove, InputsDone
        <3>2. d \in Tasks
            BY <2>1, InputFacts, VersionFacts
        <3> QED
            BY <1>1, <1>3, <3>1, <3>2
    <2> QED
        BY <2>1 DEF InputsDone
<1> QED
    BY <1>1, <1>2, <1>3, <1>4

LEMMA RowsKept ==
    ASSUME OneByOne, InputsDone, Begun, UNCHANGED rows
    PROVE  OneByOne' /\ InputsDone' /\ Begun'
<1>1. row' = row /\ workers' = workers
    BY DEF rows
<1>2. \A t : Current(t)' = Current(t)
    BY <1>1 DEF Current
<1> QED
    BY <1>1, <1>2 DEF OneByOne, Latest, InputsDone, Begun

\* Workers go on or end, and none appears.
GoOn ==
    /\ proc' \in [Pids -> {Free} \cup Process]
    /\ \A p \in Pids : proc'[p] # Free => proc[p] # Free /\ proc'[p].x = proc[p].x /\ proc'[p].k = proc[p].k

LEMMA LiveKept ==
    ASSUME Live, GoOn, UNCHANGED rows
    PROVE  Live'
<1>1. row' = row /\ workers' = workers
    BY DEF rows
<1> QED
    BY <1>1 DEF Live, GoOn, Alive, Owned

LEMMA GoesOn ==
    ASSUME Typed, NEW p \in Pids, Alive(p), NEW r \in {Free} \cup Process, Become(p, r),
           r = Free \/ (r.x = proc[p].x /\ r.k = proc[p].k)
    PROVE  GoOn
  BY BecomeFacts DEF GoOn, Alive

\* Around a worker that does nothing: rows of outputs come, but no one else writes its
\* own; data goes that it does not need; its process goes on.
Around(q) ==
    /\ tracking \subseteq tracking' /\ Outs(Me(q)) \cap tracking' \subseteq tracking
    /\ \A u \in data : u \in data' \/ (u \in tracking /\ (Once(Task(q)) /\ u \in proc[q].ins => Shared(u[1][1][1])))
    /\ \A j \in 1..Len(proc[q].temp) : proc[q].temp[j] \in metas' => proc[q].temp[j] \in metas
    /\ \A x \in Versions : Len(workers[x]) <= Len(workers'[x])
    /\ faults' = 0 => faults = 0
    /\ \A t \in Tasks : HasModel(t) => HasModel(t)'

LEMMA Bystander ==
    ASSUME Typed, Typed', NEW q \in Pids, Alive(q), Fine(q), Around(q), proc'[q] = proc[q]
    PROVE  Fine(q)'
<1>0. /\ Me(q)' = Me(q) /\ Task(q)' = Task(q) /\ Task(q) \in Tasks /\ proc[q].x \in Versions
      /\ proc[q].temp \in Seq(Uris) /\ proc[q].i \in Nat
    BY ProcessFacts DEF Me, Task
<1>1. Unwritten(q)'
    <2>1. \A u \in Outs(Me(q)) : u \in tracking' => u \in tracking
        BY DEF Around
    <2>2. \A u \in data : u \notin tracking => u \in data'
        BY DEF Around
    <2>3. Outs(Me(q))' = Outs(Me(q))
        BY <1>0 DEF Outs
    <2> QED
        BY <1>0, <2>1, <2>2, <2>3 DEF Fine, Unwritten
<1>2. Took(q)'
    <2>1. \A u : Takes(Task(q), u) => Takes(Task(q), u)'
        BY <1>0 DEF Takes, Around
    <2>3. \A u \in proc[q].ins : Takes(Task(q), u)
        BY DEF Fine, Took
    <2>4. \A j \in 1..Len(proc[q].temp) : Takes(Task(q), proc[q].temp[j]) /\ IsTable[proc[q].temp[j][1][1][1]]
        BY DEF Fine, Took
    <2>5. proc[q].at = "drop" => proc[q].i <= Len(proc[q].temp) /\ proc[q].temp[proc[q].i] \notin metas
        BY DEF Fine, Took
    <2>2. proc[q].at = "drop" => proc[q].temp[proc[q].i] \notin metas'
        <3>1. proc[q].i <= Len(proc[q].temp) => proc[q].i \in 1..Len(proc[q].temp)
            BY ProcessFacts
        <3>2. \A j \in 1..Len(proc[q].temp) : proc[q].temp[j] \in metas' => proc[q].temp[j] \in metas
            BY DEF Around
        <3> QED
            BY <2>5, <3>1, <3>2
    <2> QED
        BY <1>0, <2>1, <2>2, <2>3, <2>4, <2>5 DEF Took
<1>3. Keeps(q)'
    <2>1. Once(Task(q))' => Once(Task(q))
        <3>1. \A x \in Versions : Len(workers[x]) \in Nat /\ Len(workers'[x]) \in Nat /\ Len(workers[x]) <= Len(workers'[x])
            BY DEF Typed, Around
        <3> QED
            BY <1>0, <3>1 DEF Once
    <2>2. \A u \in data : u \in data' \/ (Once(Task(q)) /\ u \in proc[q].ins => Shared(u[1][1][1]))
        BY DEF Around
    <2>3. \A u : Shared(u)' <=> Shared(u)
        BY DEF Shared
    <2>4. proc[q].at \in {"input", "ready", "wait"} /\ Once(Task(q)) =>
              \A u \in proc[q].ins : u \in data \/ Shared(u[1][1][1])
        BY DEF Fine, Keeps
    <2> QED
        BY <1>0, <2>1, <2>2, <2>3, <2>4 DEF Keeps
<1>4. faults' = 0 => Stores(q)'
    <2> SUFFICES ASSUME faults' = 0 PROVE Stores(q)'
        OBVIOUS
    <2>1. faults = 0 /\ Stores(q)
        BY DEF Around, Fine
    <2>2. tracking \subseteq tracking'
        BY DEF Around
    <2>3. Whole(proc[q].x) => Whole(proc[q].x)'
        <3>1. proc[q].x[1] \in Tasks
            BY <1>0, VersionFacts
        <3> QED
            BY <1>0, <2>2, <3>1 DEF Whole, Around, Outs
    <2>4. Outs(Me(q))' = Outs(Me(q))
        BY <1>0 DEF Outs
    <2>5. Through(q)' = Through(q)
        BY DEF Through
    <2> QED
        BY <1>0, <2>1, <2>2, <2>3, <2>4, <2>5 DEF Stores
<1> QED
    BY <1>1, <1>2, <1>3, <1>4 DEF Fine

\* What is left to show of a step, once its rows are dealt with.
LEMMA StepKeeps ==
    ASSUME IInv, Typed', OneByOne', InputsDone', Begun', Live', Settled', Books',
           \A q \in Pids : Alive(q)' => Fine(q)' \/ (Alive(q) /\ proc'[q] = proc[q] /\ Around(q))
    PROVE  IInv'
<1>1. ASSUME NEW q \in Pids, Alive(q), proc'[q] = proc[q], Around(q) PROVE Fine(q)'
    <2>1. Typed /\ Typed' /\ Fine(q)
        BY <1>1 DEF IInv, AllFine
    <2> QED
        BY <1>1, <2>1, Bystander
<1>2. AllFine'
    BY <1>1 DEF AllFine
<1> QED
    BY <1>2 DEF IInv

LEMMA AroundSame ==
    ASSUME UNCHANGED <<workers, tracking, metas, data, model>>, faults' = 0 => faults = 0, Typed
    PROVE  \A q \in Pids : Around(q)
  BY DEF Around, Outs, HasModel, Typed

LEMMA BooksKept ==
    ASSUME Books, UNCHANGED <<rows, tracking, metas, model>>, faults' = 0 => faults = 0
    PROVE  Books'
<1>1. row' = row /\ workers' = workers /\ tracking' = tracking /\ metas' = metas /\ model' = model
    BY DEF rows
<1>2. \A x : Whole(x)' = Whole(x)
    BY <1>1 DEF Whole, Outs, HasModel
<1>3. \A t, u : Takes(t, u)' = Takes(t, u) /\ Stored(t)' = Stored(t)
    BY <1>1 DEF Takes, Stored
<1> QED
    BY <1>1, <1>2, <1>3 DEF Books

\* A worker goes on, or ends, and nothing else happens.
LEMMA WorkerGoesOn ==
    ASSUME IInv, NEW p \in Pids, Alive(p), NEW r \in {Free} \cup Process, Become(p, r),
           r = Free \/ (r.x = proc[p].x /\ r.k = proc[p].k),
           UNCHANGED <<rows, outputs, killing>>, faults' \in Nat, faults' = 0 => faults = 0, r # Free => Fine(p)'
    PROVE  IInv'
<1>0. /\ Typed /\ OneByOne /\ InputsDone /\ Begun /\ Live /\ Settled /\ Books
      /\ row' = row /\ workers' = workers /\ tracking' = tracking /\ metas' = metas /\ data' = data
      /\ model' = model /\ killing' = killing
    BY DEF IInv, rows, outputs
<1>1. /\ proc' \in [Pids -> {Free} \cup Process] /\ proc'[p] = r
      /\ \A q \in Pids : q # p => proc'[q] = proc[q]
    BY <1>0, BecomeFacts
<1>2. Typed'
    BY <1>0, <1>1 DEF Typed
<1>3. GoOn
    BY <1>0, GoesOn
<1>4. OneByOne' /\ InputsDone' /\ Begun'
    BY <1>0, RowsKept DEF rows
<1>5. Live'
    BY <1>0, <1>3, LiveKept DEF rows
<1>6. Settled'
    BY <1>0 DEF Settled
<1>7. Books'
    BY <1>0, BooksKept DEF rows
<1>8. ASSUME NEW q \in Pids, Alive(q)' PROVE Fine(q)' \/ (Alive(q) /\ proc'[q] = proc[q] /\ Around(q))
    <2>1. CASE q = p
        BY <1>1, <1>8, <2>1 DEF Alive
    <2>2. CASE q # p
        <3>1. Around(q)
            BY <1>0, AroundSame
        <3> QED
            BY <1>1, <1>8, <2>2, <3>1 DEF Alive
    <2> QED
        BY <2>1, <2>2
<1> QED
    BY <1>2, <1>4, <1>5, <1>6, <1>7, <1>8, StepKeeps

\* The record of a worker that goes to another place.
GoTo(p, place, i) == Become(p, [proc[p] EXCEPT !.at = place, !.i = i])

LEMMA BecomesAt ==
    ASSUME Typed, NEW p \in Pids, Alive(p), NEW place \in Places, NEW i \in Nat \ {0}, GoTo(p, place, i)
    PROVE  \E r \in Process :
             /\ Become(p, r) /\ proc'[p] = r
             /\ r.x = proc[p].x /\ r.k = proc[p].k /\ r.at = place /\ r.i = i
             /\ r.ins = proc[p].ins /\ r.temp = proc[p].temp /\ r.ok = proc[p].ok
<1>1. PICK s \in Process : s = proc[p]
    BY ProcessFacts
<1>2. PICK r : r = [s EXCEPT !.at = place, !.i = i]
    OBVIOUS
<1>3. /\ r \in Process /\ r.x = s.x /\ r.k = s.k /\ r.at = place /\ r.i = i
      /\ r.ins = s.ins /\ r.temp = s.temp /\ r.ok = s.ok
    <2>1. r \in Process
        BY <1>2 DEF Process
    <2> QED
        BY <1>2, <2>1 DEF Process
<1>4. Become(p, r)
    BY <1>1, <1>2 DEF GoTo
<1>5. proc'[p] = r
    BY <1>3, <1>4, BecomeFacts
<1> QED
    BY <1>1, <1>3, <1>4, <1>5

LEMMA FaultFacts ==
    ASSUME Typed
    PROVE  /\ Fault => faults' \in Nat /\ faults' # 0
           /\ NoFault => faults' \in Nat /\ faults' = faults
  BY Numbers DEF Typed, Fault, NoFault

LEMMA MeUnique ==
    ASSUME Live, NEW p \in Pids, NEW q \in Pids, Alive(p), Alive(q), Me(p) = Me(q)
    PROVE  p = q
<1>1. proc[p].x = proc[q].x /\ proc[p].k = proc[q].k
    BY DEF Me
<1> QED
    BY <1>1 DEF Live, Owned

LEMMA MovesTo ==
    ASSUME Typed, NEW p \in Pids, Alive(p), NEW place \in Places,
           Become(p, [proc[p] EXCEPT !.at = place])
    PROVE  \E r \in Process :
             /\ Become(p, r) /\ proc'[p] = r
             /\ r.x = proc[p].x /\ r.k = proc[p].k /\ r.at = place /\ r.i = proc[p].i
             /\ r.ins = proc[p].ins /\ r.temp = proc[p].temp /\ r.ok = proc[p].ok
<1>1. PICK s \in Process : s = proc[p]
    BY ProcessFacts
<1>2. PICK r : r = [s EXCEPT !.at = place]
    OBVIOUS
<1>3. /\ r \in Process /\ r.x = s.x /\ r.k = s.k /\ r.at = place /\ r.i = s.i
      /\ r.ins = s.ins /\ r.temp = s.temp /\ r.ok = s.ok
    <2>1. r \in Process
        BY <1>2 DEF Process
    <2> QED
        BY <1>2, <2>1 DEF Process
<1>4. Become(p, r)
    BY <1>1, <1>2
<1>5. proc'[p] = r
    BY <1>3, <1>4, BecomeFacts
<1> QED
    BY <1>1, <1>3, <1>4, <1>5

LEMMA Counts ==
    ASSUME Typed, NEW p \in Pids, Alive(p), NEW i \in Nat \ {0},
           Become(p, [proc[p] EXCEPT !.i = i])
    PROVE  \E r \in Process :
             /\ Become(p, r) /\ proc'[p] = r
             /\ r.x = proc[p].x /\ r.k = proc[p].k /\ r.at = proc[p].at /\ r.i = i
             /\ r.ins = proc[p].ins /\ r.temp = proc[p].temp /\ r.ok = proc[p].ok
<1>1. PICK s \in Process : s = proc[p]
    BY ProcessFacts
<1>2. PICK r : r = [s EXCEPT !.i = i]
    OBVIOUS
<1>3. /\ r \in Process /\ r.x = s.x /\ r.k = s.k /\ r.at = s.at /\ r.i = i
      /\ r.ins = s.ins /\ r.temp = s.temp /\ r.ok = s.ok
    <2>1. r \in Process
        BY <1>2 DEF Process
    <2> QED
        BY <1>2, <2>1 DEF Process
<1>4. Become(p, r)
    BY <1>1, <1>2
<1>5. proc'[p] = r
    BY <1>3, <1>4, BecomeFacts
<1> QED
    BY <1>1, <1>3, <1>4, <1>5

\* The workers that wait for a component which ends go on, all others stay.
LEMMA ReturnedFacts ==
    ASSUME Typed, NEW E, NEW ok \in BOOLEAN, proc' = Returned(E, ok)
    PROVE  /\ proc' \in [Pids -> {Free} \cup Process]
           /\ \A q \in Pids :
                \/ proc'[q] = proc[q]
                \/ /\ Alive(q) /\ Me(q) \in E /\ proc[q].at = "wait" /\ proc'[q] \in Process
                   /\ proc'[q].x = proc[q].x /\ proc'[q].k = proc[q].k
                   /\ proc'[q].at = (IF ok THEN "push" ELSE "report") /\ proc'[q].ok = ok /\ proc'[q].i = 1
                   /\ proc'[q].ins = proc[q].ins /\ proc'[q].temp = proc[q].temp
<1>1. ASSUME NEW q \in Pids
      PROVE  \/ proc'[q] = proc[q]
             \/ /\ Alive(q) /\ Me(q) \in E /\ proc[q].at = "wait" /\ proc'[q] \in Process
                /\ proc'[q].x = proc[q].x /\ proc'[q].k = proc[q].k
                /\ proc'[q].at = (IF ok THEN "push" ELSE "report") /\ proc'[q].ok = ok /\ proc'[q].i = 1
                /\ proc'[q].ins = proc[q].ins /\ proc'[q].temp = proc[q].temp
    <2>1. CASE ~(Alive(q) /\ Me(q) \in E /\ proc[q].at = "wait")
        BY <2>1 DEF Returned
    <2>2. CASE Alive(q) /\ Me(q) \in E /\ proc[q].at = "wait"
        <3>1. PICK s \in Process : s = proc[q]
            BY <2>2, ProcessFacts
        <3>2. PICK place : place = (IF ok THEN "push" ELSE "report")
            OBVIOUS
        <3>3. place \in Places
            BY <3>2 DEF Places
        <3>0. PICK one \in Nat \ {0} : one = 1
            OBVIOUS
        <3>4. PICK r : r = [s EXCEPT !.at = place, !.ok = ok, !.i = one]
            OBVIOUS
        <3>5. r \in Process
            BY <3>3, <3>4 DEF Process
        <3>6. /\ r.x = s.x /\ r.k = s.k /\ r.at = place /\ r.ok = ok /\ r.i = one
              /\ r.ins = s.ins /\ r.temp = s.temp
            BY <3>4, <3>5 DEF Process
        <3>7. proc'[q] = r
            BY <2>2, <3>0, <3>1, <3>2, <3>4 DEF Returned
        <3> QED
            BY <2>2, <3>0, <3>1, <3>2, <3>5, <3>6, <3>7
    <2> QED
        BY <2>1, <2>2
<1>2. ASSUME NEW q \in Pids PROVE proc'[q] \in {Free} \cup Process
    BY <1>1 DEF Typed
<1>3. proc' = [q \in Pids |-> proc'[q]]
    BY DEF Returned
<1> QED
    BY <1>1, <1>2, <1>3

LEMMA FailsAt ==
    ASSUME Typed, NEW p \in Pids, Alive(p), Fail(p)
    PROVE  \E r \in Process :
             /\ Become(p, r) /\ proc'[p] = r
             /\ r.x = proc[p].x /\ r.k = proc[p].k /\ r.at = "report" /\ ~r.ok
             /\ r.ins = proc[p].ins /\ r.temp = proc[p].temp
<1>1. PICK s \in Process : s = proc[p]
    BY ProcessFacts
<1>2. PICK r : r = [s EXCEPT !.at = "report", !.ok = FALSE]
    OBVIOUS
<1>3. /\ r \in Process /\ r.x = s.x /\ r.k = s.k /\ r.at = "report" /\ ~r.ok
      /\ r.ins = s.ins /\ r.temp = s.temp
    <2>1. r \in Process
        BY <1>2 DEF Process, Places
    <2> QED
        BY <1>2, <2>1 DEF Process
<1>4. Become(p, r)
    BY <1>1, <1>2 DEF Fail
<1>5. proc'[p] = r
    BY <1>3, <1>4, BecomeFacts
<1> QED
    BY <1>1, <1>3, <1>4, <1>5

\* A worker that is to report a failure needs nothing more.
LEMMA FailureIsFine ==
    ASSUME Typed, NEW p \in Pids, Alive(p), Took(p), NEW r \in Process, proc'[p] = r, tracking \subseteq tracking',
           r.x = proc[p].x, r.k = proc[p].k, r.ins = proc[p].ins, r.temp = proc[p].temp, r.at = "report", ~r.ok
    PROVE  Fine(p)'
<1>1. Task(p)' = Task(p)
    BY DEF Task
<1>2. \A u : Takes(Task(p), u) => Takes(Task(p), u)'
    BY <1>1 DEF Takes
<1>3. Took(p)'
    BY <1>1, <1>2 DEF Took
<1>4. Unwritten(p)' /\ Keeps(p)' /\ Stores(p)'
    BY DEF Unwritten, Keeps, Stores, Through
<1> QED
    BY <1>3, <1>4 DEF Fine

\* A worker that has its inputs goes on in a way that leaves them.
LEMMA StillFine ==
    ASSUME Typed, NEW p \in Pids, Alive(p), Fine(p), NEW r \in Process, proc'[p] = r,
           UNCHANGED <<workers, tracking, metas, data, model>>,
           r.x = proc[p].x, r.k = proc[p].k, r.ins = proc[p].ins, r.temp = proc[p].temp,
           proc[p].at \in {"input", "ready"}, r.at \in {"input", "ready", "wait"}
    PROVE  Fine(p)'
<1>1. Me(p)' = Me(p) /\ Task(p)' = Task(p)
    BY DEF Me, Task
<1>2. Unwritten(p)'
    BY <1>1 DEF Fine, Unwritten, Outs
<1>3. Took(p)'
    BY <1>1 DEF Fine, Took, Takes
<1>4. Keeps(p)'
    BY <1>1 DEF Fine, Keeps, Once
<1>5. Stores(p)'
    BY DEF Stores, Through
<1> QED
    BY <1>2, <1>3, <1>4, <1>5 DEF Fine

LEMMA InputStep == ASSUME IInv, NEW p \in Pids, Input(p) PROVE IInv'
<1>0. faults' \in Nat /\ (faults' = 0 => faults = 0)
    BY DEF Input, IInv, Typed
<1>1. Alive(p) /\ proc[p].at = "input" /\ Typed /\ OneByOne /\ Settled /\ Fine(p) /\ proc[p] \in Process /\ Task(p) \in Tasks
    BY ProcessFacts DEF Input, At, IInv, AllFine
<1>2. UNCHANGED <<rows, outputs, killing, faults>>
    BY DEF Input, stopVars
<1>3. workers' = workers /\ tracking' = tracking /\ metas' = metas /\ data' = data /\ model' = model /\ faults' = faults
    BY <1>2 DEF rows, outputs
<1>4. CASE Go(p, "ready")
    <2>1. "ready" \in Places /\ 1 \in Nat \ {0} /\ GoTo(p, "ready", 1)
        BY <1>4 DEF Places, Go, GoTo
    <2>2. PICK r \in Process :
            /\ Become(p, r) /\ proc'[p] = r
            /\ r.x = proc[p].x /\ r.k = proc[p].k /\ r.at = "ready" /\ r.i = 1
            /\ r.ins = proc[p].ins /\ r.temp = proc[p].temp /\ r.ok = proc[p].ok
        BY <1>1, <2>1, BecomesAt
    <2>3. Fine(p)'
        BY <1>1, <1>3, <2>2, StillFine
    <2> QED
        BY <1>0, <1>1, <1>2, <2>2, <2>3, WorkerGoesOn
<1>5. CASE Fail(p)
    <2>1. PICK r \in Process :
            /\ Become(p, r) /\ proc'[p] = r
            /\ r.x = proc[p].x /\ r.k = proc[p].k /\ r.at = "report" /\ ~r.ok
            /\ r.ins = proc[p].ins /\ r.temp = proc[p].temp
        BY <1>1, <1>5, FailsAt
    <2>2. Fine(p)'
        BY <1>1, <1>3, <2>1, FailureIsFine DEF Fine
    <2> QED
        BY <1>0, <1>1, <1>2, <2>1, <2>2, WorkerGoesOn
<1> DEFINE d == Inputs[Task(p)][proc[p].i]
<1>6. ASSUME ~(proc[p].i > Len(Inputs[Task(p)])), Readable(d), NEW u \in Found(d),
             Become(p, [proc[p] EXCEPT !.i = @ + 1, !.ins = @ \cup {u},
                          !.temp = IF IsTable[d] /\ Found(d) = {u} THEN Append(@, u) ELSE @])
      PROVE  IInv'
    <2>1. d \in Range(Inputs[Task(p)]) /\ d \in Tasks
        <3>1. proc[p].i \in Nat \ {0} /\ Inputs[Task(p)] \in Seq(Tasks)
            BY <1>1, ProcessFacts, InputFacts
        <3>2. proc[p].i \in DOMAIN Inputs[Task(p)]
            BY <1>6, <3>1
        <3> QED
            BY <3>1, <3>2 DEF Range
    <2>2. u \in tracking /\ u \in metas /\ u[1][1] = Current(d) /\ u \in Uris /\ u \in data
        BY <1>1, <1>6 DEF Found, Readable, HasTables, Typed, Settled
    <2>3. u[1][1][1] = d
        BY <1>1, <2>1, <2>2, LatestFacts
    <2> HIDE DEF d
    <2>4. PICK s \in Process : s = proc[p]
        BY <1>1
    <2>5. PICK c \in BOOLEAN : c = (IsTable[d] /\ Found(d) = {u})
        BY <2>1, ExecutionAssumption
    <2>6. PICK r : r = [s EXCEPT !.i = @ + 1, !.ins = @ \cup {u}, !.temp = IF c THEN Append(@, u) ELSE @]
        OBVIOUS
    <2>7. /\ r \in Process /\ r.x = s.x /\ r.k = s.k /\ r.at = s.at /\ r.ins = s.ins \cup {u}
          /\ r.temp = IF c THEN Append(s.temp, u) ELSE s.temp
        <3>1. PICK temp : temp = IF c THEN Append(s.temp, u) ELSE s.temp
            OBVIOUS
        <3>2. temp \in Seq(Uris) /\ s.i + 1 \in Nat \ {0} /\ s.ins \cup {u} \in SUBSET Uris
            BY <2>2, <3>1 DEF Process
        <3>3. r = [s EXCEPT !.i = s.i + 1, !.ins = s.ins \cup {u}, !.temp = temp]
            BY <2>6, <3>1
        <3>4. r \in Process
            BY <3>2, <3>3 DEF Process
        <3>5. /\ r.x = s.x /\ r.k = s.k /\ r.at = s.at /\ r.ins = s.ins \cup {u} /\ r.temp = temp
            BY <3>3 DEF Process
        <3> QED
            BY <3>1, <3>4, <3>5
    <2>8. Become(p, r)
        BY <1>6, <2>4, <2>5, <2>6
    <2>9. proc'[p] = r
        BY <1>1, <2>7, <2>8, BecomeFacts
    <2>10. Me(p)' = Me(p) /\ Task(p)' = Task(p)
        BY <2>4, <2>7, <2>9 DEF Me, Task
    <2>11. Unwritten(p)'
        BY <1>1, <1>3, <2>4, <2>7, <2>9, <2>10 DEF Fine, Unwritten, Outs
    <2>12. Took(p)'
        <3>1. Takes(Task(p), u)
            BY <2>1, <2>2, <2>3 DEF Takes
        <3>2. \A v : Takes(Task(p), v)' = Takes(Task(p), v)
            BY <1>3, <2>10 DEF Takes
        <3>3. \A v \in r.ins : Takes(Task(p), v)
            BY <1>1, <2>4, <2>7, <3>1 DEF Fine, Took
        <3>4. \A j \in 1..Len(r.temp) : Takes(Task(p), r.temp[j]) /\ IsTable[r.temp[j][1][1][1]]
            <4>1. \A j \in 1..Len(s.temp) : Takes(Task(p), s.temp[j]) /\ IsTable[s.temp[j][1][1][1]]
                BY <1>1, <2>4 DEF Fine, Took
            <4>2. s.temp \in Seq(Uris)
                BY DEF Process
            <4>3. CASE ~c
                BY <2>7, <4>1, <4>3
            <4>4. CASE c
                <5>1. IsTable[u[1][1][1]]
                    BY <2>3, <2>5, <4>4
                <5>2. r.temp = Append(s.temp, u)
                    BY <2>7, <4>4
                <5>3. \A j \in 1..Len(r.temp) : r.temp[j] = u \/ (j \in 1..Len(s.temp) /\ r.temp[j] = s.temp[j])
                    BY <4>2, <5>2, <2>2
                <5> QED
                    BY <3>1, <4>1, <5>1, <5>3
            <4> QED
                BY <4>3, <4>4
        <3>5. r.at # "drop"
            BY <1>1, <2>4, <2>7
        <3> QED
            BY <2>9, <2>10, <3>2, <3>3, <3>4, <3>5 DEF Took
    <2>13. Keeps(p)'
        <3>1. Once(Task(p))' = Once(Task(p))
            BY <1>3, <2>10 DEF Once
        <3> QED
            BY <1>1, <1>3, <2>2, <2>4, <2>7, <2>9, <2>10, <3>1 DEF Fine, Keeps
    <2>14. Stores(p)'
        BY <1>1, <2>4, <2>7, <2>9 DEF Stores, Through
    <2>15. Fine(p)'
        BY <2>11, <2>12, <2>13, <2>14 DEF Fine
    <2> QED
        BY <1>0, <1>1, <1>2, <2>4, <2>7, <2>8, <2>15, WorkerGoesOn
<1> QED
    BY <1>4, <1>5, <1>6 DEF Input

LEMMA SpawnStep == ASSUME IInv, NEW p \in Pids, Spawn(p) PROVE IInv'
<1>0. faults' \in Nat /\ (faults' = 0 => faults = 0)
    BY DEF Spawn, IInv, Typed
<1>1. Alive(p) /\ proc[p].at = "ready" /\ Typed /\ Fine(p)
    BY DEF Spawn, At, IInv, AllFine
<1>2. UNCHANGED <<rows, outputs, killing, faults>> /\ GoTo(p, "wait", 1)
    BY DEF Spawn, Go, GoTo, stopVars
<1>3. PICK r \in Process :
        /\ Become(p, r) /\ proc'[p] = r
        /\ r.x = proc[p].x /\ r.k = proc[p].k /\ r.at = "wait" /\ r.i = 1
        /\ r.ins = proc[p].ins /\ r.temp = proc[p].temp /\ r.ok = proc[p].ok
    <2>1. "wait" \in Places /\ 1 \in Nat \ {0}
        BY DEF Places
    <2> QED
        BY <1>1, <1>2, <2>1, BecomesAt
<1>4. Fine(p)'
    <2>1. UNCHANGED <<workers, tracking, metas, data, model>>
        BY <1>2 DEF rows, outputs
    <2> QED
        BY <1>1, <1>3, <2>1, StillFine
<1> QED
    BY <1>0, <1>1, <1>2, <1>3, <1>4, WorkerGoesOn

LEMMA OkStays ==
    ASSUME NEW x \in Versions, tracking \subseteq tracking', \A t \in Tasks : HasModel(t) => HasModel(t)'
    PROVE  Whole(x) => Whole(x)'
  BY VersionFacts DEF Whole, Outs

LEMMA TakesStays ==
    ASSUME tracking \subseteq tracking'
    PROVE  \A t, u : (Takes(t, u) => Takes(t, u)') /\ (Stored(t) => Stored(t)')
  BY DEF Takes, Stored

LEMMA ComponentEndsStep == ASSUME IInv, NEW e \in Starts, ComponentEnds(e) PROVE IInv'
<1>0. /\ Typed /\ OneByOne /\ InputsDone /\ Begun /\ Live /\ Settled /\ Books /\ AllFine
      /\ UNCHANGED rows /\ row' = row /\ workers' = workers /\ tracking' = tracking /\ metas' = metas
      /\ model' = model /\ killing' = killing /\ faults' = faults
    BY DEF IInv, ComponentEnds, rows, stopVars
<1>1. PICK ok \in BOOLEAN : /\ data' = IF ok THEN data \cup {u \in Uris : u[1] = e} ELSE data
                            /\ proc' = Returned({e}, ok)
    BY DEF ComponentEnds
<1>2. /\ proc' \in [Pids -> {Free} \cup Process]
      /\ \A q \in Pids :
           \/ proc'[q] = proc[q]
           \/ /\ Alive(q) /\ Me(q) \in {e} /\ proc[q].at = "wait" /\ proc'[q] \in Process
              /\ proc'[q].x = proc[q].x /\ proc'[q].k = proc[q].k
              /\ proc'[q].at = (IF ok THEN "push" ELSE "report") /\ proc'[q].ok = ok /\ proc'[q].i = 1
              /\ proc'[q].ins = proc[q].ins /\ proc'[q].temp = proc[q].temp
    BY <1>0, <1>1, ReturnedFacts
<1>3. data \subseteq data' /\ data' \subseteq Uris
    BY <1>0, <1>1 DEF Typed
<1>4. Typed'
    BY <1>0, <1>2, <1>3 DEF Typed
<1>5. GoOn
    BY <1>2 DEF GoOn, Alive
<1>6. OneByOne' /\ InputsDone' /\ Begun' /\ Live'
    BY <1>0, <1>5, RowsKept, LiveKept
<1>7. Settled'
    BY <1>0, <1>3 DEF Settled
<1>8. Books'
    BY <1>0, BooksKept
<1>9. ASSUME NEW q \in Pids, Alive(q)' PROVE Fine(q)' \/ (Alive(q) /\ proc'[q] = proc[q] /\ Around(q))
    <2>1. CASE proc'[q] = proc[q]
        <3>1. \A t : HasModel(t)' = HasModel(t)
            BY <1>0 DEF HasModel
        <3>2. \A x \in Versions : Len(workers[x]) \in Nat
            BY <1>0 DEF Typed
        <3>3. Around(q)
            BY <1>0, <1>3, <3>1, <3>2 DEF Around
        <3> QED
            BY <1>9, <2>1, <3>3 DEF Alive
    <2>2. CASE proc'[q] # proc[q]
        <3>1. /\ Alive(q) /\ Me(q) = e /\ proc[q].at = "wait" /\ proc'[q] \in Process
              /\ proc'[q].x = proc[q].x /\ proc'[q].k = proc[q].k
              /\ proc'[q].at = (IF ok THEN "push" ELSE "report") /\ proc'[q].ok = ok /\ proc'[q].i = 1
              /\ proc'[q].ins = proc[q].ins /\ proc'[q].temp = proc[q].temp
            BY <1>2, <2>2
        <3>2. Fine(q)
            BY <1>0, <3>1 DEF AllFine
        <3>3. CASE ~ok
            BY <1>0, <3>1, <3>2, <3>3, FailureIsFine DEF Fine
        <3>4. CASE ok
            <4>1. Me(q)' = e /\ Task(q)' = Task(q) /\ proc'[q].at = "push" /\ proc'[q].i = 1
                BY <3>1, <3>4 DEF Me, Task
            <4>2. Unwritten(q)'
                <5>1. Outs(e) \cap tracking = {}
                    BY <3>1, <3>2 DEF Fine, Unwritten
                <5>2. Outs(e) \subseteq data'
                    BY <1>1, <3>4 DEF Outs
                <5> QED
                    BY <1>0, <4>1, <5>1, <5>2 DEF Unwritten, Outs
            <4>3. Took(q)'
                <5>1. \A u : Takes(Task(q), u) => Takes(Task(q), u)'
                    BY <1>0, <4>1 DEF Takes
                <5> QED
                    BY <3>1, <3>2, <4>1, <5>1 DEF Fine, Took
            <4>4. Keeps(q)'
                BY <4>1 DEF Keeps
            <4>5. Stores(q)'
                <5>1. \A u \in Outs(e) : ~(u[2] < 1)
                    BY UriFacts DEF Outs
                <5> QED
                    BY <4>1, <5>1 DEF Stores, Through, Outs
            <4> QED
                BY <4>2, <4>3, <4>4, <4>5 DEF Fine
        <3> QED
            BY <3>3, <3>4
    <2> QED
        BY <2>1, <2>2
<1> QED
    BY <1>4, <1>6, <1>7, <1>8, <1>9, StepKeeps

LEMMA KillChildrenStep == ASSUME IInv, NEW x \in Versions, KillChildren(x) PROVE IInv'
<1>0. /\ Typed /\ OneByOne /\ InputsDone /\ Begun /\ Live /\ Settled /\ Books /\ AllFine
      /\ UNCHANGED rows /\ row' = row /\ workers' = workers /\ tracking' = tracking /\ metas' = metas
      /\ data' = data /\ model' = model /\ faults' = faults
    BY DEF IInv, KillChildren, rows, outputs
<1>1. PICK E : proc' = Returned(E, FALSE)
    BY DEF KillChildren
<1>2. /\ proc' \in [Pids -> {Free} \cup Process]
      /\ \A q \in Pids :
           \/ proc'[q] = proc[q]
           \/ /\ Alive(q) /\ proc'[q] \in Process
              /\ proc'[q].x = proc[q].x /\ proc'[q].k = proc[q].k
              /\ proc'[q].at = "report" /\ ~proc'[q].ok
              /\ proc'[q].ins = proc[q].ins /\ proc'[q].temp = proc[q].temp
    BY <1>0, <1>1, ReturnedFacts
<1>3. killing' \in [Versions -> {<<>>} \cup ({"begin", "kill"} \X {CANCELED, FAILED})]
    <2>1. killing[x] \in {"begin", "kill"} \X {CANCELED, FAILED}
        BY <1>0 DEF KillChildren, Typed
    <2>2. killing' = [killing EXCEPT ![x] = [killing[x] EXCEPT ![1] = "kill"]]
        BY DEF KillChildren
    <2>3. [killing[x] EXCEPT ![1] = "kill"] \in {"begin", "kill"} \X {CANCELED, FAILED}
        BY <2>1
    <2> QED
        BY <1>0, <2>2, <2>3 DEF Typed
<1>4. Typed'
    BY <1>0, <1>2, <1>3 DEF Typed
<1>5. GoOn
    BY <1>2 DEF GoOn, Alive
<1>6. OneByOne' /\ InputsDone' /\ Begun' /\ Live'
    BY <1>0, <1>5, RowsKept, LiveKept
<1>7. Settled'
    BY <1>0 DEF Settled
<1>8. Books'
    BY <1>0, BooksKept
<1>9. ASSUME NEW q \in Pids, Alive(q)' PROVE Fine(q)' \/ (Alive(q) /\ proc'[q] = proc[q] /\ Around(q))
    <2>1. CASE proc'[q] = proc[q]
        BY <1>0, <1>9, <2>1, AroundSame DEF Alive
    <2>2. CASE proc'[q] # proc[q]
        BY <1>0, <1>2, <2>2, FailureIsFine DEF AllFine, Fine
    <2> QED
        BY <2>1, <2>2
<1> QED
    BY <1>4, <1>6, <1>7, <1>8, <1>9, StepKeeps

\* The item that a worker is about to record is its own, in the storage, and has no row.
LEMMA NextItem ==
    ASSUME IInv, NEW p \in Pids, Alive(p), proc[p].at = "push", <<Me(p), proc[p].i>> \in Uris
    PROVE  LET u == <<Me(p), proc[p].i>> IN
           /\ u \in data /\ u \notin tracking /\ u[1] = Me(p) /\ u[1][1][1] = Task(p)
           /\ u[1][2] <= Len(workers[u[1][1]])
<1> DEFINE u == <<Me(p), proc[p].i>>
<1>1. Typed /\ Unwritten(p) /\ Owned(p)
    BY DEF IInv, AllFine, Fine, Live
<1>2. proc[p].i \in Nat /\ proc[p].x \in Versions
    BY <1>1, ProcessFacts
<1>3. u \in Outs(Me(p)) /\ u[2] >= proc[p].i
    BY <1>2 DEF Outs
<1>4. u \in data /\ u \notin tracking
    BY <1>1, <1>3 DEF Unwritten
<1>5. workers[proc[p].x] \in Seq(Pids)
    BY <1>1, <1>2 DEF Typed
<1>6. proc[p].k <= Len(workers[proc[p].x])
    BY <1>1, <1>5 DEF Owned
<1>7. u[1] = Me(p) /\ u[1][1][1] = Task(p) /\ u[1][2] = proc[p].k /\ u[1][1] = proc[p].x
    BY DEF Me, Task
<1> QED
    BY <1>4, <1>6, <1>7

LEMMA PushDataStep == ASSUME IInv, NEW p \in Pids, PushData(p) PROVE IInv'
<1> DEFINE u == <<Me(p), proc[p].i>>
<1>0. /\ Typed /\ OneByOne /\ InputsDone /\ Begun /\ Live /\ Settled /\ Books /\ AllFine
      /\ UNCHANGED rows /\ row' = row /\ workers' = workers /\ data' = data /\ model' = model /\ killing' = killing
    BY DEF IInv, PushData, rows, stopVars
<1>1. Alive(p) /\ proc[p].at = "push" /\ u \in Uris /\ Fine(p) /\ proc[p] \in Process /\ proc[p].i \in Nat \ {0} /\ Task(p) \in Tasks
    BY <1>0, ProcessFacts DEF PushData, At, AllFine
<1>2. /\ u \in data /\ u \notin tracking /\ u[1] = Me(p) /\ u[1][1][1] = Task(p)
      /\ u[1][2] <= Len(workers[u[1][1]])
    BY <1>1, NextItem
<1>3. /\ tracking' = tracking \/ tracking' = tracking \cup {u}
      /\ metas' = metas \/ (metas' = metas \cup {u} /\ tracking' = tracking \cup {u})
      /\ faults' \in Nat
      /\ \/ Become(p, [proc[p] EXCEPT !.i = proc[p].i + 1]) \/ Fail(p)
      /\ faults' = 0 => /\ faults = 0 /\ metas' = metas \cup {u} /\ tracking' = tracking \cup {u}
                        /\ Become(p, [proc[p] EXCEPT !.i = proc[p].i + 1])
    <2>1. CASE Save(u) /\ Become(p, [proc[p] EXCEPT !.i = @ + 1]) /\ NoFault
        BY <1>0, <2>1, FaultFacts DEF Save, CreateMeta
    <2>2. CASE Fault /\ tracking' \in {tracking, tracking \cup {u}} /\ UNCHANGED metas
               /\ Become(p, [proc[p] EXCEPT !.i = @ + 1])
        BY <1>0, <2>2, FaultFacts
    <2>3. CASE Fault /\ (Save(u) \/ UNCHANGED <<tracking, metas>>) /\ Fail(p)
        BY <1>0, <2>3, FaultFacts DEF Save, CreateMeta
    <2> QED
        BY <2>1, <2>2, <2>3 DEF PushData
<1> HIDE DEF u
<1>4. PICK r \in Process :
        /\ Become(p, r) /\ proc'[p] = r /\ r.x = proc[p].x /\ r.k = proc[p].k
        /\ r.ins = proc[p].ins /\ r.temp = proc[p].temp
        /\ \/ r.at = "push" /\ r.i = proc[p].i + 1
           \/ r.at = "report" /\ ~r.ok /\ faults' # 0
    <2>1. CASE Become(p, [proc[p] EXCEPT !.i = proc[p].i + 1])
        <3>1. proc[p].i + 1 \in Nat \ {0}
            BY <1>1
        <3> QED
            BY <1>0, <1>1, <2>1, <3>1, Counts
    <2>2. CASE Fail(p) /\ ~Become(p, [proc[p] EXCEPT !.i = proc[p].i + 1])
        <3>1. faults' # 0
            BY <1>3, <2>2
        <3> QED
            BY <1>0, <1>1, <2>2, <3>1, FailsAt
    <2> QED
        BY <1>3, <2>1, <2>2
<1>5. /\ proc' \in [Pids -> {Free} \cup Process] /\ \A q \in Pids : q # p => proc'[q] = proc[q]
    BY <1>0, <1>4, BecomeFacts
<1>6. GoOn
    BY <1>0, <1>1, <1>4, GoesOn
<1>7. OneByOne' /\ InputsDone' /\ Begun' /\ Live'
    BY <1>0, <1>6, RowsKept, LiveKept
<1>8. Typed'
    <2>1. tracking' \subseteq Uris /\ metas' \subseteq tracking'
        BY <1>0, <1>1, <1>3 DEF Typed
    <2> QED
        BY <1>0, <1>3, <1>5, <2>1 DEF Typed
<1>9. Settled'
    BY <1>0, <1>2, <1>3 DEF Settled
<1>10. tracking \subseteq tracking' /\ \A t : HasModel(t)' = HasModel(t)
    BY <1>0, <1>3 DEF HasModel
<1>11. Books'
    <2> SUFFICES ASSUME faults' = 0
                 PROVE  /\ \A x \in Versions : Len(workers'[x]) <= 1 /\ (row'[x] = SUCCESS => Whole(x)')
                        /\ \A v \in tracking' : v \in metas' \/ (IsTable[v[1][1][1]] /\ \E t \in Tasks : Takes(t, v)' /\ Stored(t)')
        BY DEF Books
    <2>1. faults = 0 /\ metas' = metas \cup {u} /\ tracking' = tracking \cup {u}
        BY <1>3
    <2>2. \A x \in Versions : Whole(x) => Whole(x)'
        BY <1>10, OkStays
    <2>3. \A t, v : (Takes(t, v) => Takes(t, v)') /\ (Stored(t) => Stored(t)')
        BY <1>10, TakesStays
    <2> QED
        BY <1>0, <2>1, <2>2, <2>3 DEF Books
<1>12. Fine(p)'
    <2>1. CASE r.at = "report" /\ ~r.ok
        BY <1>0, <1>1, <1>4, <1>10, <2>1, FailureIsFine DEF Fine
    <2>2. CASE r.at = "push" /\ r.i = proc[p].i + 1
        <3>1. Me(p)' = Me(p) /\ Task(p)' = Task(p)
            BY <1>4 DEF Me, Task
        <3>2. \A v \in Outs(Me(p)) : /\ v[2] \in Nat /\ (v[2] = proc[p].i => v = u)
            BY UriFacts DEF Outs, u
        <3>3. Unwritten(p)'
            <4>1. \A v \in Outs(Me(p)) : v[2] >= proc[p].i + 1 => v[2] >= proc[p].i /\ v # u
                BY <1>1, <3>2 DEF u
            <4> QED
                BY <1>0, <1>1, <1>3, <1>4, <2>2, <3>1, <4>1 DEF Fine, Unwritten, Outs
        <3>4. Took(p)'
            <4>1. \A v : Takes(Task(p), v) => Takes(Task(p), v)'
                BY <1>10, <3>1 DEF Takes
            <4> QED
                BY <1>1, <1>4, <2>2, <3>1, <4>1 DEF Fine, Took
        <3>5. Keeps(p)'
            BY <1>4, <2>2 DEF Keeps
        <3>6. faults' = 0 => Stores(p)'
            <4> SUFFICES ASSUME faults' = 0 PROVE Stores(p)'
                OBVIOUS
            <4>1. tracking' = tracking \cup {u} /\ \A v \in Outs(Me(p)) : v[2] < proc[p].i => v \in tracking
                BY <1>1, <1>3 DEF Fine, Stores
            <4>2. \A v \in Outs(Me(p)) : v[2] < proc[p].i + 1 => v[2] < proc[p].i \/ v = u
                BY <1>1, <3>2
            <4>3. \A v \in Outs(Me(p)) : v[2] < proc[p].i + 1 => v \in tracking'
                BY <4>1, <4>2
            <4>4. Outs(Me(p))' = Outs(Me(p))
                BY <3>1 DEF Outs
            <4> QED
                BY <1>4, <2>2, <3>1, <4>3, <4>4 DEF Stores, Through
        <3> QED
            BY <3>3, <3>4, <3>5, <3>6 DEF Fine
    <2> QED
        BY <1>4, <2>1, <2>2
<1>13. ASSUME NEW q \in Pids, q # p, Alive(q) PROVE Around(q)
    <2>1. Me(q) # Me(p)
        BY <1>0, <1>1, <1>13, MeUnique
    <2>2. u \notin Outs(Me(q))
        BY <1>2, <2>1 DEF Outs
    <2>3. \A j \in 1..Len(proc[q].temp) : proc[q].temp[j] \in tracking
        BY <1>0, <1>13 DEF AllFine, Fine, Took, Takes
    <2>4. \A j \in 1..Len(proc[q].temp) : proc[q].temp[j] \in metas' => proc[q].temp[j] \in metas
        BY <1>2, <1>3, <2>3
    <2>5. \A x \in Versions : Len(workers[x]) \in Nat
        BY <1>0 DEF Typed
    <2> QED
        BY <1>0, <1>3, <1>10, <2>2, <2>4, <2>5 DEF Around
<1>14. ASSUME NEW q \in Pids, Alive(q)' PROVE Fine(q)' \/ (Alive(q) /\ proc'[q] = proc[q] /\ Around(q))
    BY <1>5, <1>12, <1>13, <1>14 DEF Alive
<1> QED
    BY <1>7, <1>8, <1>9, <1>11, <1>14, StepKeeps

\* Without a fault a start is the first of its version.
LEMMA FirstStart ==
    ASSUME Typed, Live, Books, faults = 0, NEW p \in Pids, Alive(p)
    PROVE  Me(p) = <<proc[p].x, 1>> /\ row[proc[p].x] = RUNNING
<1>1. proc[p].x \in Versions /\ proc[p].k \in 1..2
    BY ProcessFacts
<1>2. Len(workers[proc[p].x]) <= 1 /\ workers[proc[p].x] \in Seq(Pids)
    BY <1>1 DEF Books, Typed
<1>3. proc[p].k \in DOMAIN workers[proc[p].x] /\ (Len(workers[proc[p].x]) = 1 => row[proc[p].x] = RUNNING)
    BY DEF Live, Owned
<1>4. proc[p].k = 1 /\ Len(workers[proc[p].x]) = 1
    <2>1. PICK s \in Seq(Pids) : s = workers[proc[p].x]
        BY <1>2
    <2>2. PICK k \in 1..2 : k = proc[p].k
        BY <1>1
    <2>3. k \in DOMAIN s /\ Len(s) <= 1
        BY <1>2, <1>3, <2>1, <2>2
    <2>4. PICK n \in Nat : n = Len(s)
        BY <2>1
    <2>5. k \in 1..n
        BY <2>1, <2>3, <2>4
    <2>6. n <= 1
        BY <2>3, <2>4
    <2>7. k = 1 /\ n = 1
        BY <2>4, <2>5, <2>6
    <2> QED
        BY <2>1, <2>2, <2>4, <2>7
<1> QED
    BY <1>3, <1>4 DEF Me

LEMMA PushModelStep == ASSUME IInv, NEW p \in Pids, PushModel(p) PROVE IInv'
<1>0. /\ Typed /\ OneByOne /\ InputsDone /\ Begun /\ Live /\ Settled /\ Books /\ AllFine
      /\ UNCHANGED rows /\ row' = row /\ workers' = workers /\ tracking' = tracking /\ metas' = metas
      /\ data' = data /\ killing' = killing
    BY DEF IInv, PushModel, rows, stopVars
<1>1. /\ Alive(p) /\ proc[p].at = "push" /\ <<Me(p), proc[p].i>> \notin Uris /\ Fine(p) /\ proc[p] \in Process
      /\ proc[p].i \in Nat \ {0} /\ Task(p) \in Tasks /\ Me(p) \in Starts /\ proc[p].x \in Versions
      /\ Me(p)[1] = proc[p].x /\ proc[p].x[1] = Task(p)
    BY <1>0, ProcessFacts DEF PushModel, At, AllFine, Me, Task
<1>2. PICK t \in Tasks, x \in Versions : t = Task(p) /\ x = proc[p].x /\ x[1] = t
    BY <1>1
<1>3. /\ faults' \in Nat /\ (faults' = 0 => faults = 0)
      /\ model' = Uploaded(Me(p)) \/ model' = model
      /\ faults' = 0 /\ t \in Models => model' = Uploaded(Me(p))
    <2>1. CASE model' = Uploaded(Me(p)) /\ NoFault
        BY <1>0, <2>1, FaultFacts
    <2>2. CASE Fault /\ UNCHANGED model
        BY <1>0, <2>2, FaultFacts
    <2>3. CASE t \notin Models /\ UNCHANGED <<model, faults>>
        BY <1>0, <2>3 DEF Typed
    <2> QED
        BY <1>1, <1>2, <2>1, <2>2, <2>3 DEF PushModel
<1>4. /\ model' \in [Tasks -> {NoModel} \cup [row : Versions, from : Starts]]
      /\ \A d \in Tasks : HasModel(d) => HasModel(d)'
      /\ model' = Uploaded(Me(p)) => HasModel(t)'
    <2>1. CASE model' = model
        <3>1. model' = Uploaded(Me(p)) => HasModel(t)
            <4> SUFFICES ASSUME model' = Uploaded(Me(p)) PROVE HasModel(t)
                OBVIOUS
            <4>1. PICK m : m = [row |-> RowOf(model[t], Me(p)[1]), from |-> Me(p)]
                OBVIOUS
            <4>2. model[t] = m
                BY <1>0, <1>1, <1>2, <2>1, <4>1 DEF Uploaded, Typed
            <4>3. m # NoModel
                BY <4>1 DEF NoModel
            <4> QED
                BY <4>2, <4>3 DEF HasModel
        <3>2. model' \in [Tasks -> {NoModel} \cup [row : Versions, from : Starts]]
            BY <1>0, <2>1 DEF Typed
        <3>3. \A d : HasModel(d)' = HasModel(d)
            BY <2>1 DEF HasModel
        <3> QED
            BY <3>1, <3>2, <3>3
    <2>2. CASE model' = Uploaded(Me(p))
        <3>1. PICK m : m = [row |-> RowOf(model[t], Me(p)[1]), from |-> Me(p)]
            OBVIOUS
        <3>2. RowOf(model[t], Me(p)[1]) \in Versions
            <4>1. model[t] = NoModel \/ model[t].row \in Versions
                BY <1>0, <1>1, <1>2 DEF Typed
            <4> QED
                BY <1>1, <1>2, <4>1 DEF RowOf
        <3>3. m \in [row : Versions, from : Starts] /\ m # NoModel
            BY <1>1, <1>2, <3>1, <3>2 DEF NoModel
        <3>4. model' = [model EXCEPT ![t] = m]
            BY <1>1, <1>2, <2>2, <3>1 DEF Uploaded
        <3>5. model' \in [Tasks -> {NoModel} \cup [row : Versions, from : Starts]]
            BY <1>0, <3>3, <3>4 DEF Typed
        <3>6. model \in [Tasks -> {NoModel} \cup [row : Versions, from : Starts]]
            BY <1>0 DEF Typed
        <3>7. \A d \in Tasks : model'[d] = model[d] \/ model'[d] # NoModel
            BY <1>1, <1>2, <3>3, <3>4, <3>6
        <3>8. model'[t] # NoModel
            BY <1>1, <1>2, <3>3, <3>4, <3>6
        <3> QED
            BY <3>5, <3>7, <3>8 DEF HasModel
    <2> QED
        BY <1>3, <2>1, <2>2
<1>5. PICK r \in Process :
        /\ Become(p, r) /\ proc'[p] = r
        /\ r.x = proc[p].x /\ r.k = proc[p].k /\ r.at = "destroy" /\ r.i = 1
        /\ r.ins = proc[p].ins /\ r.temp = proc[p].temp /\ r.ok = proc[p].ok
    <2>1. "destroy" \in Places /\ 1 \in Nat \ {0} /\ GoTo(p, "destroy", 1)
        BY DEF Places, Go, GoTo, PushModel
    <2>2. Typed /\ Alive(p)
        BY <1>0, <1>1
    <2> QED
        BY <2>1, <2>2, BecomesAt
<1>6. /\ proc' \in [Pids -> {Free} \cup Process] /\ \A q \in Pids : q # p => proc'[q] = proc[q]
    BY <1>0, <1>5, BecomeFacts
<1>7. OneByOne' /\ InputsDone' /\ Begun' /\ Live'
    BY <1>0, <1>1, <1>5, GoesOn, RowsKept, LiveKept
<1>8. Typed'
    BY <1>0, <1>3, <1>4, <1>6 DEF Typed
<1>9. Settled'
    BY <1>0 DEF Settled
<1>10. \A y \in Versions : Whole(y) => Whole(y)'
    BY <1>0, <1>4, OkStays
<1>11. Books'
    <2>1. \A s, v : Takes(s, v)' = Takes(s, v) /\ Stored(s)' = Stored(s)
        BY <1>0 DEF Takes, Stored
    <2> QED
        BY <1>0, <1>3, <1>10, <2>1 DEF Books
<1>12. Fine(p)'
    <2>1. Me(p)' = Me(p) /\ Task(p)' = Task(p)
        BY <1>5 DEF Me, Task
    <2>2. Unwritten(p)' /\ Keeps(p)'
        BY <1>5 DEF Unwritten, Keeps
    <2>3. Took(p)'
        <3>1. \A u : Takes(Task(p), u) => Takes(Task(p), u)'
            BY <1>0, <2>1 DEF Takes
        <3> QED
            BY <1>1, <1>5, <2>1, <3>1 DEF Fine, Took
    <2>4. faults' = 0 => Stores(p)'
        <3> SUFFICES ASSUME faults' = 0 PROVE Whole(x)'
            BY <1>2, <1>5 DEF Stores
        <3>1. faults = 0 /\ Me(p) = <<x, 1>> /\ Stores(p)
            BY <1>0, <1>1, <1>2, <1>3, FirstStart DEF Fine
        <3>2. \A u \in Outs(Me(p)) : u[2] < proc[p].i
            <4> SUFFICES ASSUME NEW u \in Outs(Me(p)) PROVE u[2] < proc[p].i
                OBVIOUS
            <4>1. u \in Uris /\ u[1] = Me(p) /\ u[2] \in Nat \ {0} /\ u = <<u[1], u[2]>>
                BY UriFacts DEF Outs
            <4>2. Items[Me(p)[1][1]] \in Nat
                BY <1>1, ItemFacts
            <4>3. u[2] \in 1..Items[Me(p)[1][1]]
                BY <1>1, <4>1, UriFacts
            <4>4. ~(proc[p].i \in 1..Items[Me(p)[1][1]])
                BY <1>1, UriFacts
            <4> QED
                BY <1>1, <4>2, <4>3, <4>4
        <3>3. Outs(<<x, 1>>) \subseteq tracking
            BY <1>1, <3>1, <3>2 DEF Stores
        <3>4. x[1] \in Models => HasModel(x[1])'
            BY <1>2, <1>3, <1>4, <3>1
        <3> QED
            BY <1>0, <3>3, <3>4 DEF Whole, Outs
    <2> QED
        BY <2>2, <2>3, <2>4 DEF Fine
<1>13. ASSUME NEW q \in Pids, q # p PROVE Around(q)
    <2>1. \A y \in Versions : Len(workers[y]) \in Nat
        BY <1>0 DEF Typed
    <2> QED
        BY <1>0, <1>3, <1>4, <2>1 DEF Around
<1>14. ASSUME NEW q \in Pids, Alive(q)' PROVE Fine(q)' \/ (Alive(q) /\ proc'[q] = proc[q] /\ Around(q))
    BY <1>6, <1>12, <1>13, <1>14 DEF Alive
<1> QED
    BY <1>7, <1>8, <1>9, <1>11, <1>14, StepKeeps

LEMMA TempFacts ==
    ASSUME Typed, NEW p \in Pids, Alive(p), ~(proc[p].i > Len(proc[p].temp))
    PROVE  proc[p].i \in 1..Len(proc[p].temp) /\ proc[p].temp[proc[p].i] \in Uris
<1>1. proc[p].i \in Nat \ {0} /\ proc[p].temp \in Seq(Uris)
    BY ProcessFacts
<1> QED
    BY <1>1

\* A worker that is through goes on with its clean-up; what it was handed it still has
\* been handed, and its outputs are whole as before.
LEMMA CleansUp ==
    ASSUME Typed, NEW p \in Pids, Alive(p), Fine(p), NEW r \in Process, proc'[p] = r,
           UNCHANGED <<tracking, model>>, faults' = 0 => faults = 0,
           r.x = proc[p].x, r.k = proc[p].k, r.ins = proc[p].ins, r.temp = proc[p].temp,
           proc[p].at \in {"destroy", "drop"}, r.at \in {"destroy", "drop", "report"},
           r.at = "drop" => r.i <= Len(r.temp) /\ r.temp[r.i] \notin metas'
    PROVE  Fine(p)'
<1>1. PICK x : x = proc[p].x /\ proc'[p].x = x
    OBVIOUS
<1>2. Task(p)' = Task(p)
    BY DEF Task
<1>3. Took(p)'
    <2>1. \A u : Takes(Task(p), u)' = Takes(Task(p), u)
        BY <1>2 DEF Takes
    <2> QED
        BY <1>2, <2>1 DEF Fine, Took
<1>4. Unwritten(p)' /\ Keeps(p)'
    BY DEF Unwritten, Keeps
<1>5. faults' = 0 => Stores(p)'
    <2> SUFFICES ASSUME faults' = 0 PROVE Stores(p)'
        OBVIOUS
    <2>1. Whole(x)
        BY <1>1 DEF Fine, Stores, Through
    <2>2. Whole(x)'
        BY <2>1 DEF Whole, Outs, HasModel
    <2> QED
        BY <1>1, <2>2 DEF Stores
<1> QED
    BY <1>3, <1>4, <1>5 DEF Fine

LEMMA DestroyStep == ASSUME IInv, NEW p \in Pids, Destroy(p) PROVE IInv'
<1>0. /\ Typed /\ OneByOne /\ InputsDone /\ Begun /\ Live /\ Settled /\ Books /\ AllFine
      /\ UNCHANGED rows /\ row' = row /\ workers' = workers /\ tracking' = tracking
      /\ data' = data /\ model' = model /\ killing' = killing /\ faults' = faults /\ faults \in Nat
    BY DEF IInv, Destroy, rows, stopVars, Typed
<1>1. /\ Alive(p) /\ proc[p].at = "destroy" /\ Fine(p) /\ proc[p] \in Process /\ proc[p].i \in Nat \ {0}
      /\ {"report", "drop", "destroy"} \subseteq Places /\ 1 \in Nat \ {0} /\ proc[p].x \in Versions
    BY <1>0, ProcessFacts DEF Destroy, At, AllFine, Places
<1>2. CASE proc[p].i > Len(proc[p].temp) /\ Go(p, "report") /\ UNCHANGED metas
    <2>1. GoTo(p, "report", 1)
        BY <1>2 DEF Go, GoTo
    <2>2. PICK r \in Process :
            /\ Become(p, r) /\ proc'[p] = r
            /\ r.x = proc[p].x /\ r.k = proc[p].k /\ r.at = "report" /\ r.i = 1
            /\ r.ins = proc[p].ins /\ r.temp = proc[p].temp /\ r.ok = proc[p].ok
        BY <1>0, <1>1, <2>1, BecomesAt
    <2>3. Fine(p)'
        BY <1>0, <1>1, <2>2, CleansUp
    <2>4. UNCHANGED <<rows, outputs, killing>>
        BY <1>0, <1>2 DEF outputs
    <2> QED
        BY <1>0, <1>1, <2>2, <2>3, <2>4, WorkerGoesOn
<1>3. CASE Become(p, [proc[p] EXCEPT !.i = proc[p].i + 1]) /\ UNCHANGED metas
    <2>1. proc[p].i + 1 \in Nat \ {0}
        BY <1>1
    <2>2. PICK r \in Process :
            /\ Become(p, r) /\ proc'[p] = r
            /\ r.x = proc[p].x /\ r.k = proc[p].k /\ r.at = proc[p].at /\ r.i = proc[p].i + 1
            /\ r.ins = proc[p].ins /\ r.temp = proc[p].temp /\ r.ok = proc[p].ok
        BY <1>0, <1>1, <1>3, <2>1, Counts
    <2>3. Fine(p)'
        BY <1>0, <1>1, <2>2, CleansUp
    <2>4. UNCHANGED <<rows, outputs, killing>>
        BY <1>0, <1>3 DEF outputs
    <2> QED
        BY <1>0, <1>1, <2>2, <2>3, <2>4, WorkerGoesOn
<1> DEFINE u == proc[p].temp[proc[p].i]
<1>4. CASE /\ ~(proc[p].i > Len(proc[p].temp)) /\ u \in metas /\ metas' = metas \ {u}
           /\ Become(p, [proc[p] EXCEPT !.at = "drop"])
    <2>1. PICK r \in Process :
            /\ Become(p, r) /\ proc'[p] = r
            /\ r.x = proc[p].x /\ r.k = proc[p].k /\ r.at = "drop" /\ r.i = proc[p].i
            /\ r.ins = proc[p].ins /\ r.temp = proc[p].temp /\ r.ok = proc[p].ok
        BY <1>0, <1>1, <1>4, MovesTo
    <2>2. proc[p].i \in 1..Len(proc[p].temp) /\ u \in Uris
        BY <1>0, <1>1, <1>4, TempFacts
    <2>3. Fine(p)'
        <3>1. r.at = "drop" => r.i <= Len(r.temp) /\ r.temp[r.i] \notin metas'
            BY <1>4, <2>1, <2>2
        <3> QED
            BY <1>0, <1>1, <2>1, <3>1, CleansUp
    <2>4. PICK t \in Tasks : t = Task(p) /\ Takes(t, u) /\ IsTable[u[1][1][1]]
        BY <1>0, <1>1, <2>2, ProcessFacts DEF Fine, Took
    <2> HIDE DEF u
    <2>5. /\ proc' \in [Pids -> {Free} \cup Process] /\ \A q \in Pids : q # p => proc'[q] = proc[q]
        BY <1>0, <2>1, BecomeFacts
    <2>6. OneByOne' /\ InputsDone' /\ Begun' /\ Live'
        BY <1>0, <1>1, <2>1, GoesOn, RowsKept, LiveKept
    <2>7. Typed'
        BY <1>0, <1>4, <2>5 DEF Typed
    <2>8. Settled'
        BY <1>0, <1>4 DEF Settled
    <2>9. Books'
        <3> SUFFICES ASSUME faults = 0
                     PROVE  /\ \A x \in Versions : Len(workers'[x]) <= 1 /\ (row'[x] = SUCCESS => Whole(x)')
                            /\ \A v \in tracking' : v \in metas' \/ (IsTable[v[1][1][1]] /\ \E s \in Tasks : Takes(s, v)' /\ Stored(s)')
            BY <1>0 DEF Books
        <3>1. \A x : Whole(x)' = Whole(x)
            BY <1>0 DEF Whole, Outs, HasModel
        <3>2. \A s, v : Takes(s, v)' = Takes(s, v) /\ Stored(s)' = Stored(s)
            BY <1>0 DEF Takes, Stored
        <3>3. Stored(t)
            <4>1. PICK x \in Versions : x = proc[p].x /\ x[1] = t
                BY <1>1, <2>4 DEF Task
            <4>2. Whole(x)
                BY <1>1, <4>1 DEF Fine, Stores, Through
            <4>3. <<x, 1>> \in Starts /\ 1 \in 1..Items[t]
                <5>1. Items[t] \in Nat \ {0}
                    BY ItemFacts
                <5>2. 1 \in 1..2 /\ 1 \in 1..Items[t]
                    BY <5>1
                <5> QED
                    BY <5>2 DEF Starts
            <4>4. <<<<x, 1>>, 1>> \in Uris
                BY <4>1, <4>3, UriFacts
            <4>5. <<<<x, 1>>, 1>> \in tracking
                BY <4>2, <4>4 DEF Whole, Outs
            <4> QED
                BY <4>1, <4>5 DEF Stored
        <3> QED
            BY <1>0, <1>4, <2>4, <3>1, <3>2, <3>3 DEF Books
    <2>10. ASSUME NEW q \in Pids, q # p PROVE Around(q)
        <3>1. \A x \in Versions : Len(workers[x]) \in Nat
            BY <1>0 DEF Typed
        <3>2. \A t1 : HasModel(t1)' = HasModel(t1)
            BY <1>0 DEF HasModel
        <3> QED
            BY <1>0, <1>4, <3>1, <3>2 DEF Around
    <2>11. ASSUME NEW q \in Pids, Alive(q)' PROVE Fine(q)' \/ (Alive(q) /\ proc'[q] = proc[q] /\ Around(q))
        BY <2>3, <2>5, <2>10, <2>11 DEF Alive
    <2> QED
        BY <2>6, <2>7, <2>8, <2>9, <2>11, StepKeeps
<1> QED
    BY <1>2, <1>3, <1>4 DEF Destroy

\* A table that a worker destroys is no input of another, unless several tasks take it or
\* one was started twice.
LEMMA NobodyElses ==
    ASSUME IInv, NEW p \in Pids, NEW q \in Pids, p # q, Alive(p), Alive(q), NEW u \in tracking,
           Takes(Task(p), u), IsTable[u[1][1][1]], u \in proc[q].ins, Once(Task(q))
    PROVE  Shared(u[1][1][1])
<1>0. Typed /\ OneByOne /\ Live /\ Took(q) /\ Task(p) \in Tasks /\ Task(q) \in Tasks
    BY ProcessFacts DEF IInv, AllFine, Fine
<1>1. Takes(Task(q), u)
    BY <1>0 DEF Took
<1>2. CASE Task(p) # Task(q)
    BY <1>0, <1>1, <1>2 DEF Shared, Takes
<1>3. CASE Task(p) = Task(q)
    <2>1. PICK t \in Tasks : t = Task(p) /\ t = Task(q)
        BY <1>0, <1>3
    <2>2. ASSUME NEW s \in {p, q} PROVE proc[s].x = Current(t) /\ proc[s].k = 1 /\ workers[Current(t)][1] = s
        <3>1. Alive(s) /\ s \in Pids
            OBVIOUS
        <3>2. proc[s].x \in Versions /\ proc[s].x[1] = t /\ proc[s].k \in 1..2
            BY <1>0, <2>1, <3>1, ProcessFacts DEF Task
        <3>3. PICK x \in Versions, k \in 1..2 : x = proc[s].x /\ k = proc[s].k /\ x[1] = t
            BY <3>2
        <3>4. PICK n \in Nat : n = Len(workers[x]) /\ n <= 1 /\ k \in 1..n /\ workers[x][k] = s
            <4>1. workers[x] \in Seq(Pids) /\ Len(workers[x]) \in Nat
                BY <1>0 DEF Typed
            <4>2. Len(workers[x]) <= 1
                BY <2>1, <3>3 DEF Once
            <4>3. k \in DOMAIN workers[x] /\ workers[x][k] = s
                BY <1>0, <3>1, <3>3 DEF Live, Owned
            <4> QED
                BY <4>1, <4>2, <4>3
        <3>5. k = 1 /\ n = 1
            <4>1. 1 <= k /\ k <= n /\ n <= 1 /\ k \in Nat /\ n \in Nat
                BY <3>3, <3>4
            <4> QED
                BY <4>1
        <3>6. row[x] = RUNNING
            BY <1>0, <3>1, <3>3, <3>4, <3>5 DEF Live, Owned
        <3>7. x = Current(t)
            BY <1>0, <3>3, <3>6, LatestFacts, Statuses
        <3> QED
            BY <3>3, <3>4, <3>5, <3>7
    <2> QED
        BY <2>2
<1> QED
    BY <1>2, <1>3

LEMMA DropStep == ASSUME IInv, NEW p \in Pids, Drop(p) PROVE IInv'
<1>0. /\ Typed /\ OneByOne /\ InputsDone /\ Begun /\ Live /\ Settled /\ Books /\ AllFine
      /\ UNCHANGED rows /\ row' = row /\ workers' = workers /\ tracking' = tracking /\ metas' = metas
      /\ model' = model /\ killing' = killing /\ faults' = faults
    BY DEF IInv, Drop, rows, stopVars
<1>1. /\ Alive(p) /\ proc[p].at = "drop" /\ Fine(p) /\ proc[p] \in Process /\ proc[p].i \in Nat \ {0}
      /\ "destroy" \in Places /\ Task(p) \in Tasks /\ proc[p].i + 1 \in Nat \ {0}
    BY <1>0, ProcessFacts DEF Drop, At, AllFine, Places
<1> DEFINE u == proc[p].temp[proc[p].i]
<1>2. data' = data \ {u} /\ GoTo(p, "destroy", proc[p].i + 1)
    BY DEF Drop, GoTo
<1>3. u \notin metas /\ Takes(Task(p), u) /\ IsTable[u[1][1][1]] /\ u \in tracking
    <2>1. proc[p].i <= Len(proc[p].temp) /\ u \notin metas
        BY <1>1 DEF Fine, Took
    <2>2. proc[p].i \in 1..Len(proc[p].temp)
        BY <1>0, <1>1, <2>1, ProcessFacts
    <2> QED
        BY <1>1, <2>1, <2>2 DEF Fine, Took, Takes
<1> HIDE DEF u
<1>4. PICK r \in Process :
        /\ Become(p, r) /\ proc'[p] = r
        /\ r.x = proc[p].x /\ r.k = proc[p].k /\ r.at = "destroy" /\ r.i = proc[p].i + 1
        /\ r.ins = proc[p].ins /\ r.temp = proc[p].temp /\ r.ok = proc[p].ok
    BY <1>0, <1>1, <1>2, BecomesAt
<1>5. Fine(p)'
    BY <1>0, <1>1, <1>4, CleansUp
<1>6. /\ proc' \in [Pids -> {Free} \cup Process] /\ \A q \in Pids : q # p => proc'[q] = proc[q]
    BY <1>0, <1>4, BecomeFacts
<1>7. OneByOne' /\ InputsDone' /\ Begun' /\ Live'
    BY <1>0, <1>1, <1>4, GoesOn, RowsKept, LiveKept
<1>8. Typed'
    BY <1>0, <1>2, <1>6 DEF Typed
<1>9. Settled'
    BY <1>0, <1>2, <1>3 DEF Settled
<1>10. Books'
    BY <1>0, BooksKept
<1>11. ASSUME NEW q \in Pids, Alive(q)' PROVE Fine(q)' \/ (Alive(q) /\ proc'[q] = proc[q] /\ Around(q))
    <2>1. CASE q = p
        BY <1>5, <2>1
    <2>2. CASE q # p
        <3>1. Alive(q) /\ proc'[q] = proc[q]
            BY <1>6, <1>11, <2>2 DEF Alive
        <3>2. Once(Task(q)) /\ u \in proc[q].ins => Shared(u[1][1][1])
            BY <1>1, <1>3, <2>2, <3>1, NobodyElses
        <3>3. \A v \in data : v \in data' \/ (v \in tracking /\ (Once(Task(q)) /\ v \in proc[q].ins => Shared(v[1][1][1])))
            BY <1>2, <1>3, <3>2
        <3>4. \A x \in Versions : Len(workers[x]) \in Nat
            BY <1>0 DEF Typed
        <3>5. \A t : HasModel(t)' = HasModel(t)
            BY <1>0 DEF HasModel
        <3>6. Around(q)
            BY <1>0, <3>3, <3>4, <3>5 DEF Around
        <3> QED
            BY <3>1, <3>6
    <2> QED
        BY <2>1, <2>2
<1> QED
    BY <1>7, <1>8, <1>9, <1>10, <1>11, StepKeeps

\* Threads that stop a job are begun or go on.
LEMMA OnlyKilling ==
    ASSUME IInv, UNCHANGED <<rows, proc, outputs, faults>>,
           killing' \in [Versions -> {<<>>} \cup ({"begin", "kill"} \X {CANCELED, FAILED})]
    PROVE  IInv'
<1>0. /\ Typed /\ OneByOne /\ InputsDone /\ Begun /\ Live /\ Settled /\ Books /\ AllFine
      /\ row' = row /\ workers' = workers /\ tracking' = tracking /\ metas' = metas
      /\ data' = data /\ model' = model /\ faults' = faults /\ proc' = proc
    BY DEF IInv, rows, outputs
<1>1. Typed'
    BY <1>0 DEF Typed
<1>2. GoOn
    BY <1>0 DEF GoOn, Typed
<1>3. OneByOne' /\ InputsDone' /\ Begun' /\ Live'
    BY <1>0, <1>2, RowsKept, LiveKept
<1>4. Settled' /\ Books'
    BY <1>0, BooksKept DEF Settled
<1>5. \A q \in Pids : Alive(q)' => Alive(q) /\ proc'[q] = proc[q] /\ Around(q)
    BY <1>0, AroundSame DEF Alive
<1> QED
    BY <1>1, <1>3, <1>4, <1>5, StepKeeps

LEMMA StopJobStep ==
    ASSUME IInv, NEW s \in {CANCELED, FAILED}, StopJob(s), UNCHANGED <<rows, proc, outputs, faults>>
    PROVE  IInv'
<1>1. killing \in [Versions -> {<<>>} \cup ({"begin", "kill"} \X {CANCELED, FAILED})]
    BY DEF IInv, Typed
<1>2. <<"begin", s>> \in {"begin", "kill"} \X {CANCELED, FAILED}
    OBVIOUS
<1>3. killing' \in [Versions -> {<<>>} \cup ({"begin", "kill"} \X {CANCELED, FAILED})]
    BY <1>1, <1>2 DEF StopJob
<1> QED
    BY <1>3, OnlyKilling

LEMMA VanishStep == ASSUME IInv, NEW p \in Pids, Vanish(p) PROVE IInv'
<1>1. Typed /\ Alive(p) /\ faults' \in Nat /\ faults' # 0 /\ Become(p, Free) /\ UNCHANGED <<rows, outputs, killing>>
    BY FaultFacts DEF IInv, Vanish, stopVars
<1> QED
    BY <1>1, WorkerGoesOn

\* The rows may move to an end status, and workers end.
LEMMA StatusMoves ==
    ASSUME IInv, NEW x \in Versions, NEW s \in {SUCCESS, FAILED, CANCELED}, row' = Moved(x, s),
           UNCHANGED <<workers, outputs>>, faults' = faults,
           killing' \in [Versions -> {<<>>} \cup ({"begin", "kill"} \X {CANCELED, FAILED})],
           proc' \in [Pids -> {Free} \cup Process], \A q \in Pids : proc'[q] # Free => proc'[q] = proc[q],
           s = CANCELED \/ Len(workers[x]) = 1 => \A q \in Pids : proc'[q] # Free => proc[q].x # x,
           s = SUCCESS => row[x] # WAITING /\ (faults = 0 => Whole(x))
    PROVE  IInv'
<1>0. /\ Typed /\ OneByOne /\ InputsDone /\ Begun /\ Live /\ Settled /\ Books /\ AllFine
      /\ workers' = workers /\ tracking' = tracking /\ metas' = metas /\ data' = data /\ model' = model
    BY DEF IInv, outputs
<1>1. /\ row' \in [Versions -> Reached]
      /\ \A y \in Versions : y # x => row'[y] = row[y]
      /\ row'[x] = IF TaskMayBecome(row[x], s) THEN s ELSE row[x]
    BY <1>0, MovedFacts
<1>2. row'[x] = row[x] \/ (row[x] = RUNNING /\ row'[x] = s)
    <2>1. row[x] \in Reached
        BY <1>0 DEF Typed, Reached
    <2>2. TaskMayBecome(row[x], s) => row[x] = RUNNING
        BY <2>1, RuleFacts, Statuses
    <2> QED
        BY <1>1, <2>2
<1>3. RowsMove
    BY <1>1, <1>2 DEF RowsMove
<1>4. OneByOne' /\ InputsDone'
    BY <1>0, <1>3, RowsMoveKeeps
<1>5. Begun'
    BY <1>0, <1>1, <1>2, Statuses DEF Begun
<1>6. Live'
    <2>1. ASSUME NEW q \in Pids, Alive(q)' PROVE Owned(q)'
        <3>1. Alive(q) /\ proc'[q] = proc[q] /\ Owned(q)
            BY <1>0, <2>1 DEF Alive, Live
        <3>2. PICK y \in Versions : y = proc[q].x
            BY <1>0, <3>1, ProcessFacts
        <3>3. y = x => s # CANCELED /\ Len(workers[x]) # 1
            BY <2>1, <3>2 DEF Alive
        <3>4. row'[y] # CANCELED /\ (Len(workers[y]) = 1 => row'[y] = RUNNING)
            BY <1>1, <1>2, <3>1, <3>2, <3>3 DEF Owned
        <3> QED
            BY <1>0, <3>1, <3>2, <3>4 DEF Owned
    <2> QED
        BY <2>1 DEF Live
<1>7. Typed'
    BY <1>0, <1>1 DEF Typed, Reached
<1>8. Settled'
    BY <1>0 DEF Settled
<1>9. Books'
    <2>1. \A y : Whole(y)' = Whole(y)
        BY <1>0 DEF Whole, Outs, HasModel
    <2>2. \A t, u : Takes(t, u)' = Takes(t, u) /\ Stored(t)' = Stored(t)
        BY <1>0 DEF Takes, Stored
    <2>3. \A y \in Versions : faults = 0 /\ row'[y] = SUCCESS => Whole(y)
        BY <1>0, <1>1, <1>2 DEF Books
    <2> QED
        BY <1>0, <2>1, <2>2, <2>3 DEF Books
<1>10. \A q \in Pids : Alive(q)' => Alive(q) /\ proc'[q] = proc[q] /\ Around(q)
    BY <1>0, AroundSame DEF Alive
<1> QED
    BY <1>4, <1>5, <1>6, <1>7, <1>8, <1>9, <1>10, StepKeeps

\* A version with one start has one worker at most.
LEMMA OneWorker ==
    ASSUME Typed, Live, NEW p \in Pids, NEW q \in Pids, Alive(p), Alive(q), proc[q].x = proc[p].x,
           Len(workers[proc[p].x]) = 1
    PROVE  q = p
<1>1. PICK x \in Versions, k \in 1..2, l \in 1..2 : x = proc[p].x /\ x = proc[q].x /\ k = proc[p].k /\ l = proc[q].k
    BY ProcessFacts
<1>2. PICK w \in Seq(Pids) : w = workers[x]
    BY DEF Typed
<1>3. k \in DOMAIN w /\ w[k] = p /\ l \in DOMAIN w /\ w[l] = q /\ Len(w) = 1
    BY <1>1, <1>2 DEF Live, Owned
<1>4. k = 1 /\ l = 1
    BY <1>2, <1>3
<1> QED
    BY <1>3, <1>4

\* A version that has a worker has begun.
LEMMA HasBegun ==
    ASSUME Typed, Begun, Live, NEW p \in Pids, Alive(p)
    PROVE  row[proc[p].x] \notin {None, WAITING}
<1>1. proc[p].x \in Versions /\ workers[proc[p].x] # <<>>
    BY ProcessFacts DEF Live, Owned
<1> QED
    BY <1>1 DEF Begun

LEMMA ReportStep == ASSUME IInv, NEW p \in Pids, Report(p) PROVE IInv'
<1>0. /\ Typed /\ Begun /\ Live /\ Alive(p) /\ Fine(p) /\ proc[p].at = "report" /\ Become(p, Free)
      /\ proc[p].x \in Versions /\ UNCHANGED <<workers, outputs, killing>>
    BY ProcessFacts DEF IInv, AllFine, Report, At, stopVars
<1>1. CASE Fault /\ UNCHANGED row
    <2>1. UNCHANGED rows /\ faults' \in Nat /\ faults' # 0
        BY <1>0, <1>1, FaultFacts DEF rows
    <2> QED
        BY <1>0, <2>1, WorkerGoesOn
<1>2. CASE row' = Moved(proc[p].x, IF proc[p].ok THEN SUCCESS ELSE FAILED) /\ NoFault
    <2>1. PICK x \in Versions : x = proc[p].x
        BY <1>0
    <2>2. PICK s \in {SUCCESS, FAILED, CANCELED} : s = (IF proc[p].ok THEN SUCCESS ELSE FAILED)
        OBVIOUS
    <2>3. row' = Moved(x, s) /\ faults' = faults
        BY <1>2, <2>1, <2>2 DEF NoFault
    <2>4. /\ proc' \in [Pids -> {Free} \cup Process] /\ proc'[p] = Free
          /\ \A q \in Pids : q # p => proc'[q] = proc[q]
        BY <1>0, BecomeFacts
    <2>5. s # CANCELED
        BY <2>2, Statuses
    <2>6. ASSUME Len(workers[x]) = 1, NEW q \in Pids, proc'[q] # Free PROVE proc[q].x # x
        BY <1>0, <2>1, <2>4, <2>6, OneWorker DEF Alive
    <2>7. s = SUCCESS => row[x] # WAITING /\ (faults = 0 => Whole(x))
        <3>1. s = SUCCESS => proc[p].ok
            BY <2>2, Statuses
        <3>2. proc[p].ok /\ faults = 0 => Whole(x)
            BY <1>0, <2>1 DEF Fine, Stores, Through
        <3> QED
            BY <1>0, <2>1, <3>1, <3>2, HasBegun
    <2>8. killing' \in [Versions -> {<<>>} \cup ({"begin", "kill"} \X {CANCELED, FAILED})]
        BY <1>0 DEF Typed
    <2> QED
        BY <1>0, <2>3, <2>4, <2>5, <2>6, <2>7, <2>8, StatusMoves
<1> QED
    BY <1>1, <1>2 DEF Report

LEMMA KillWorkerStep == ASSUME IInv, NEW x \in Versions, KillWorker(x) PROVE IInv'
<1>0. /\ Typed /\ Live /\ UNCHANGED <<workers, outputs>> /\ faults' = faults
    BY DEF IInv, KillWorker
<1>1. PICK s \in {SUCCESS, FAILED, CANCELED} : s = killing[x][2] /\ s # SUCCESS
    <2>1. killing[x] \in {"begin", "kill"} \X {CANCELED, FAILED}
        BY <1>0 DEF KillWorker, Typed
    <2> QED
        BY <2>1, Statuses
<1>2. row' = Moved(x, s)
    BY <1>1 DEF KillWorker
<1>3. killing' \in [Versions -> {<<>>} \cup ({"begin", "kill"} \X {CANCELED, FAILED})]
    BY <1>0 DEF KillWorker, Typed
<1>4. proc' = [p \in Pids |-> IF p \in Targets(x) THEN Free ELSE proc[p]]
    BY DEF KillWorker
<1>5. proc' \in [Pids -> {Free} \cup Process] /\ \A q \in Pids : proc'[q] # Free => proc'[q] = proc[q]
    BY <1>0, <1>4 DEF Typed
<1>6. ASSUME NEW q \in Pids, proc'[q] # Free PROVE proc[q].x # x
    <2> SUFFICES ASSUME proc[q].x = x PROVE FALSE
        OBVIOUS
    <2>1. Alive(q) /\ q \notin Targets(x)
        BY <1>4, <1>6 DEF Alive
    <2>2. proc[q].k \in DOMAIN workers[x] /\ workers[x][proc[q].k] = q
        BY <1>0, <2>1 DEF Live, Owned
    <2>3. q \in Range(workers[x])
        BY <2>2 DEF Range
    <2> QED
        BY <2>1, <2>3 DEF Targets
<1> QED
    BY <1>0, <1>1, <1>2, <1>3, <1>5, <1>6, StatusMoves

LEMMA NoneOrOne == \A n \in Nat : n <= 1 => n \in 0..1
  OBVIOUS

\* The process of a further start of a version.
NewStart(x, p) == ~Alive(p) /\ workers' = [workers EXCEPT ![x] = Append(@, p)] /\ Become(p, Worker(x))

\* A new worker of a version that has one start at most.
LEMMA NewWorker ==
    ASSUME IInv, NEW x \in Versions, NEW p \in Pids, NewStart(x, p), Len(workers[x]) <= 1,
           UNCHANGED <<outputs, killing>>, faults' \in Nat, faults' = 0 => faults = 0 /\ Len(workers[x]) = 0,
           RowsMove, row'[x] = RUNNING, \A y \in Versions : y # x => row'[y] = row[y]
    PROVE  IInv'
<1>0. /\ Typed /\ OneByOne /\ InputsDone /\ Begun /\ Live /\ Settled /\ Books /\ AllFine
      /\ tracking' = tracking /\ metas' = metas /\ data' = data /\ model' = model /\ killing' = killing
      /\ ~Alive(p) /\ workers' = [workers EXCEPT ![x] = Append(@, p)] /\ Become(p, Worker(x))
    BY DEF IInv, outputs, NewStart
<1>1. PICK n \in 0..1 : n = Len(workers[x]) /\ (faults' = 0 => n = 0)
    <2>1. Len(workers[x]) \in Nat
        BY <1>0 DEF Typed
    <2>2. PICK n \in Nat : n = Len(workers[x]) /\ n <= 1
        BY <2>1
    <2>3. n \in 0..1
        BY <2>2, NoneOrOne
    <2> QED
        BY <2>2, <2>3
<1>2. /\ workers' \in [Versions -> Seq(Pids)] /\ Len(workers'[x]) = n + 1 /\ workers'[x][n + 1] = p
      /\ n + 1 \in DOMAIN workers'[x]
      /\ \A k \in DOMAIN workers[x] : k \in DOMAIN workers'[x] /\ workers'[x][k] = workers[x][k]
      /\ \A y \in Versions : y # x => workers'[y] = workers[y]
    <2>1. PICK w \in Seq(Pids) : w = workers[x]
        BY <1>0 DEF Typed
    <2>2. workers'[x] = Append(w, p) /\ \A y \in Versions : y # x => workers'[y] = workers[y]
        BY <1>0, <2>1 DEF Typed
    <2>3. workers' \in [Versions -> Seq(Pids)]
        BY <1>0 DEF Typed
    <2> QED
        BY <1>1, <2>1, <2>2, <2>3
<1>3. \A y \in Versions : Len(workers'[y]) <= 2 /\ Len(workers[y]) <= Len(workers'[y])
    <2>1. ASSUME NEW y \in Versions PROVE Len(workers'[y]) <= 2 /\ Len(workers[y]) <= Len(workers'[y])
        <3>1. Len(workers[y]) \in Nat /\ Len(workers[y]) <= 2
            BY <1>0 DEF Typed
        <3> QED
            BY <1>1, <1>2, <3>1
    <2> QED
        BY <2>1
<1>4. PICK r \in Process :
        /\ r = Worker(x) /\ r.x = x /\ r.k = n + 1 /\ r.at = "input" /\ r.ins = {} /\ r.temp = <<>>
    <2>1. PICK k \in 1..2, i \in Nat \ {0} : k = n + 1 /\ i = 1
        BY <1>1
    <2>2. PICK r : r = Worker(x)
        OBVIOUS
    <2>3. r = [x |-> x, k |-> k, at |-> "input", i |-> i, ins |-> {}, temp |-> <<>>, ok |-> TRUE]
        BY <1>1, <2>1, <2>2 DEF Worker
    <2>4. r \in Process
        BY <2>1, <2>3 DEF Process, Places
    <2> QED
        BY <2>1, <2>2, <2>3, <2>4
<1>5. /\ proc' \in [Pids -> {Free} \cup Process] /\ proc'[p] = r
      /\ \A q \in Pids : q # p => proc'[q] = proc[q]
    BY <1>0, <1>4, BecomeFacts
<1>6. Typed'
    <2>1. row' \in [Versions -> Reached]
        BY DEF RowsMove
    <2> QED
        BY <1>0, <1>2, <1>3, <1>5, <2>1 DEF Typed, Reached
<1>7. OneByOne' /\ InputsDone'
    BY <1>0, RowsMoveKeeps
<1>8. Begun'
    BY <1>0, <1>2, Statuses DEF Begun
<1>9. Live'
    <2>1. ASSUME NEW q \in Pids, Alive(q)', q # p PROVE Owned(q)'
        <3>1. Alive(q) /\ proc'[q] = proc[q] /\ Owned(q)
            BY <1>0, <1>5, <2>1 DEF Alive, Live
        <3>2. PICK y \in Versions : y = proc[q].x
            BY <1>0, <3>1, ProcessFacts
        <3>3. CASE y = x
            BY <1>2, <3>1, <3>2, <3>3, Statuses DEF Owned
        <3>4. CASE y # x
            BY <1>2, <3>1, <3>2, <3>4 DEF Owned
        <3> QED
            BY <3>3, <3>4
    <2>2. Owned(p)'
        BY <1>2, <1>4, <1>5, Statuses DEF Owned
    <2> QED
        BY <2>1, <2>2 DEF Live
<1>10. Settled'
    <2>1. ASSUME NEW u \in tracking PROVE u[1][2] <= Len(workers'[u[1][1]])
        <3>1. u[1][1] \in Versions /\ u[1][2] \in 1..2 /\ u[1][2] <= Len(workers[u[1][1]])
            BY <1>0, UriFacts, VersionFacts DEF Settled, Typed
        <3>2. Len(workers[u[1][1]]) \in Nat /\ Len(workers'[u[1][1]]) \in Nat
            BY <1>0, <1>2, <3>1 DEF Typed
        <3> QED
            BY <1>3, <3>1, <3>2
    <2> QED
        BY <1>0, <2>1 DEF Settled
<1>11. Books'
    <2> SUFFICES ASSUME faults' = 0 PROVE Books'
        BY DEF Books
    <2>1. \A y : Whole(y)' = Whole(y)
        BY <1>0 DEF Whole, Outs, HasModel
    <2>2. \A t, u : Takes(t, u)' = Takes(t, u) /\ Stored(t)' = Stored(t)
        BY <1>0 DEF Takes, Stored
    <2>3. \A y \in Versions : Len(workers'[y]) <= 1 /\ (row'[y] = SUCCESS => Whole(y))
        BY <1>0, <1>1, <1>2, Statuses DEF Books
    <2> QED
        BY <1>0, <2>1, <2>2, <2>3 DEF Books
<1>12. Fine(p)'
    <2>1. proc'[p].x = x /\ proc'[p].k = n + 1 /\ proc'[p].at = "input" /\ proc'[p].ins = {} /\ proc'[p].temp = <<>>
        BY <1>4, <1>5
    <2>2. Outs(<<x, n + 1>>) \cap tracking = {}
        <3> SUFFICES ASSUME NEW u \in tracking, u[1] = <<x, n + 1>> PROVE FALSE
            BY DEF Outs
        <3>1. u[1][2] <= n
            BY <1>0, <1>1 DEF Settled
        <3> QED
            BY <1>1, <3>1
    <2>3. Unwritten(p)'
        <3>1. Outs(Me(p))' = Outs(<<x, n + 1>>)
            BY <2>1 DEF Me, Outs
        <3> QED
            BY <1>0, <2>1, <2>2, <3>1 DEF Unwritten
    <2>4. Took(p)' /\ Keeps(p)' /\ Stores(p)'
        BY <2>1 DEF Took, Keeps, Stores, Through
    <2> QED
        BY <2>3, <2>4 DEF Fine
<1>13. ASSUME NEW q \in Pids, q # p PROVE Around(q)
    <2>1. \A t : HasModel(t)' = HasModel(t)
        BY <1>0 DEF HasModel
    <2> QED
        BY <1>0, <1>3, <2>1 DEF Around
<1>14. \A q \in Pids : Alive(q)' => Fine(q)' \/ (Alive(q) /\ proc'[q] = proc[q] /\ Around(q))
    BY <1>5, <1>12, <1>13 DEF Alive
<1> QED
    BY <1>6, <1>7, <1>8, <1>9, <1>10, <1>11, <1>14, StepKeeps

LEMMA StartStep == ASSUME IInv, NEW x \in Versions, Start(x) PROVE IInv'
<1>0. Typed /\ Begun /\ row[x] = WAITING /\ row' = Moved(x, RUNNING) /\ UNCHANGED <<outputs, killing>> /\ faults' = faults
    BY DEF IInv, Start, stopVars
<1>1. /\ row' \in [Versions -> Reached] /\ \A y \in Versions : y # x => row'[y] = row[y]
      /\ row'[x] = RUNNING
    BY <1>0, MovedFacts, RuleFacts DEF Reached
<1>2. RowsMove
    BY <1>0, <1>1 DEF RowsMove, Start
<1>3. workers[x] = <<>> /\ Len(workers[x]) = 0 /\ faults' \in Nat
    BY <1>0 DEF Begun, Typed
<1>4. PICK p \in Pids : NewStart(x, p)
    BY Zenon DEF NewStart, Start
<1> QED
    BY <1>0, <1>1, <1>2, <1>3, <1>4, NewWorker

LEMMA StartAgainStep == ASSUME IInv, NEW x \in Versions, StartAgain(x) PROVE IInv'
<1>0. /\ Typed /\ row[x] = RUNNING /\ row' = row /\ UNCHANGED <<outputs, killing>> /\ Len(workers[x]) = 1
      /\ faults' \in Nat /\ faults' # 0
    BY FaultFacts DEF IInv, StartAgain, stopVars
<1>1. RowsMove /\ row'[x] = RUNNING /\ (\A y \in Versions : y # x => row'[y] = row[y]) /\ Len(workers[x]) <= 1
    BY <1>0 DEF RowsMove, Typed, Reached
<1>2. PICK p \in Pids : NewStart(x, p)
    BY Zenon DEF NewStart, StartAgain
<1> QED
    BY <1>0, <1>1, <1>2, NewWorker

LEMMA RerunStep == ASSUME IInv, Rerun PROVE IInv'
<1>0. /\ Typed /\ OneByOne /\ InputsDone /\ Begun /\ Live /\ Settled /\ Books /\ AllFine
      /\ tracking' = tracking /\ metas' = metas /\ data' = data /\ model' = model /\ killing' = killing
      /\ workers' = workers /\ proc' = proc /\ faults' = faults
      /\ row' = [x \in Versions |-> IF <<x[1], x[2] - 1>> \in Interrupted THEN WAITING ELSE row[x]]
      /\ \A x \in Interrupted : x[2] < MaxVersion
    BY DEF IInv, Rerun, outputs
<1>1. \A t \in Tasks, v \in 0..MaxVersion :
        row'[<<t, v>>] = IF <<t, v - 1>> \in Interrupted THEN WAITING ELSE row[<<t, v>>]
    BY <1>0, VersionFacts
<1>2. ASSUME NEW t \in Tasks
      PROVE  \E v \in 0..MaxVersion :
               /\ Latest(t, v) /\ Current(t) = <<t, v>>
               /\ \/ row[<<t, v>>] \notin InterruptStatus /\ \A w \in 0..MaxVersion : row'[<<t, w>>] = row[<<t, w>>]
                  \/ /\ row[<<t, v>>] \in InterruptStatus /\ v + 1 \in 0..MaxVersion
                     /\ \A w \in 0..MaxVersion : row'[<<t, w>>] = IF w = v + 1 THEN WAITING ELSE row[<<t, w>>]
    <2>1. PICK v \in 0..MaxVersion : Latest(t, v)
        BY <1>0 DEF OneByOne
    <2>2. Current(t) = <<t, v>>
        BY <2>1, CurrentIs, LatestIs DEF Latest
    <2>3. \A w \in 0..MaxVersion : <<t, w - 1>> \in Interrupted <=> w = v + 1 /\ row[<<t, v>>] \in InterruptStatus
        <3>1. ASSUME NEW w \in 0..MaxVersion, <<t, w - 1>> \in Interrupted PROVE w = v + 1 /\ row[<<t, v>>] \in InterruptStatus
            <4>1. <<t, w - 1>> \in Now /\ row[<<t, w - 1>>] \in InterruptStatus
                BY <3>1 DEF Interrupted
            <4>2. <<t, w - 1>> = Current(t)
                BY <1>0, <4>1, NowFacts
            <4>3. w - 1 = v
                BY <2>2, <4>2
            <4> QED
                BY <2>1, <4>1, <4>3
        <3>2. ASSUME NEW w \in 0..MaxVersion, w = v + 1, row[<<t, v>>] \in InterruptStatus PROVE <<t, w - 1>> \in Interrupted
            <4>1. w - 1 = v
                BY <2>1, <3>2
            <4> QED
                BY <2>2, <3>2, <4>1 DEF Interrupted, Now
        <3> QED
            BY <3>1, <3>2
    <2>4. CASE row[<<t, v>>] \notin InterruptStatus
        <3>1. \A w \in 0..MaxVersion : row'[<<t, w>>] = row[<<t, w>>]
            BY <1>1, <2>3, <2>4
        <3> QED
            BY <2>1, <2>2, <2>4, <3>1
    <2>5. CASE row[<<t, v>>] \in InterruptStatus
        <3>1. <<t, v>> \in Interrupted
            BY <2>2, <2>5 DEF Interrupted, Now
        <3>2. v < MaxVersion
            BY <1>0, <3>1
        <3>3. v + 1 \in 0..MaxVersion
            BY <3>2, Numbers
        <3>4. \A w \in 0..MaxVersion : row'[<<t, w>>] = IF w = v + 1 THEN WAITING ELSE row[<<t, w>>]
            BY <1>1, <2>3, <2>5
        <3> QED
            BY <2>1, <2>2, <2>5, <3>3, <3>4
    <2> QED
        BY <2>4, <2>5
<1>3. \A x \in Versions : row'[x] = row[x] \/ (row[x] = None /\ row'[x] = WAITING)
    <2>1. ASSUME NEW x \in Versions PROVE row'[x] = row[x] \/ (row[x] = None /\ row'[x] = WAITING)
        <3>1. PICK t \in Tasks, w \in 0..MaxVersion : x = <<t, w>>
            BY VersionFacts
        <3>2. PICK v \in 0..MaxVersion :
                /\ Latest(t, v)
                /\ \/ row'[<<t, w>>] = row[<<t, w>>]
                   \/ row'[<<t, w>>] = IF w = v + 1 THEN WAITING ELSE row[<<t, w>>]
            BY <1>2
        <3>3. w = v + 1 => row[<<t, w>>] = None
            BY <3>2 DEF Latest
        <3> QED
            BY <3>1, <3>2, <3>3
    <2> QED
        BY <2>1
<1>4. OneByOne'
    <2>1. ASSUME NEW t \in Tasks PROVE (\E v \in 0..MaxVersion : Latest(t, v))'
        <3>1. PICK v \in 0..MaxVersion :
                /\ Latest(t, v)
                /\ \/ \A w \in 0..MaxVersion : row'[<<t, w>>] = row[<<t, w>>]
                   \/ /\ row[<<t, v>>] \in InterruptStatus /\ v + 1 \in 0..MaxVersion
                      /\ \A w \in 0..MaxVersion : row'[<<t, w>>] = IF w = v + 1 THEN WAITING ELSE row[<<t, w>>]
            BY <1>2
        <3>2. CASE \A w \in 0..MaxVersion : row'[<<t, w>>] = row[<<t, w>>]
            BY <3>1, <3>2 DEF Latest
        <3>3. CASE /\ row[<<t, v>>] \in InterruptStatus /\ v + 1 \in 0..MaxVersion
                   /\ \A w \in 0..MaxVersion : row'[<<t, w>>] = IF w = v + 1 THEN WAITING ELSE row[<<t, w>>]
            <4>1. Latest(t, v + 1)'
                BY <3>1, <3>3, Statuses DEF Latest
            <4> QED
                BY <3>3, <4>1
        <3> QED
            BY <3>1, <3>2, <3>3
    <2> QED
        BY <2>1 DEF OneByOne
<1>5. InputsDone'
    <2>1. ASSUME NEW x \in Versions, row'[x] \notin {None, WAITING}, NEW d \in Range(Inputs[x[1]])
          PROVE  row'[Current(d)'] = SUCCESS
        <3>1. row[Current(d)] = SUCCESS
            BY <1>0, <1>3, <2>1 DEF InputsDone
        <3>2. d \in Tasks
            BY <2>1, InputFacts, VersionFacts
        <3>3. PICK v \in 0..MaxVersion :
                /\ Latest(d, v) /\ Current(d) = <<d, v>> /\ \A w \in 0..MaxVersion : row'[<<d, w>>] = row[<<d, w>>]
            BY <1>2, <3>1, <3>2, Statuses
        <3>4. Current(d)' = <<d, v>>
            <4>1. row'[<<d, v>>] # None /\ \A w \in 0..MaxVersion : w > v => row'[<<d, w>>] = None
                BY <3>3 DEF Latest
            <4> QED
                BY <3>2, <3>3, <4>1, CurrentIs, LatestIs
        <3> QED
            BY <3>1, <3>3, <3>4
    <2> QED
        BY <2>1 DEF InputsDone
<1>6. Begun'
    BY <1>0, <1>3, Statuses DEF Begun
<1>7. Live'
    <2>1. ASSUME NEW q \in Pids, Alive(q) PROVE Owned(q)'
        <3>1. proc[q].x \in Versions /\ Owned(q) /\ row[proc[q].x] # None
            BY <1>0, <2>1, ProcessFacts, HasBegun DEF Live
        <3>2. row'[proc[q].x] = row[proc[q].x]
            BY <1>3, <3>1
        <3> QED
            BY <1>0, <3>1, <3>2 DEF Owned
    <2> QED
        BY <1>0, <2>1 DEF Live, Alive
<1>8. Typed'
    <2>1. row' \in [Versions -> {None, WAITING, RUNNING, CANCELED, FAILED, SUCCESS}]
        BY <1>0 DEF Typed
    <2> QED
        BY <1>0, <2>1 DEF Typed
<1>9. Settled'
    BY <1>0 DEF Settled
<1>10. Books'
    <2>1. \A y : Whole(y)' = Whole(y)
        BY <1>0 DEF Whole, Outs, HasModel
    <2>2. \A t, u : Takes(t, u)' = Takes(t, u) /\ Stored(t)' = Stored(t)
        BY <1>0 DEF Takes, Stored
    <2>3. \A y \in Versions : row'[y] = SUCCESS => row[y] = SUCCESS
        BY <1>3, Statuses
    <2> QED
        BY <1>0, <2>1, <2>2, <2>3 DEF Books
<1>11. \A q \in Pids : Alive(q)' => Alive(q) /\ proc'[q] = proc[q] /\ Around(q)
    BY <1>0, AroundSame DEF Alive
<1> QED
    BY <1>4, <1>5, <1>6, <1>7, <1>8, <1>9, <1>10, <1>11, StepKeeps

LEMMA InitIInv == Init => IInv
<1> SUFFICES ASSUME Init PROVE IInv
    OBVIOUS
<1>0. /\ row = [x \in Versions |-> IF x[2] = 0 THEN WAITING ELSE None] /\ workers = [x \in Versions |-> <<>>]
      /\ proc = [p \in Pids |-> Free] /\ tracking = {} /\ metas = {} /\ data = {}
      /\ model = [t \in Tasks |-> NoModel] /\ killing = [x \in Versions |-> <<>>] /\ faults = 0
    BY DEF Init
<1>1. \A x \in Versions : workers[x] = <<>> /\ Len(workers[x]) = 0 /\ row[x] \in {None, WAITING}
    BY <1>0
<1>2. Typed
    <2>1. workers \in [Versions -> Seq(Pids)] /\ \A x \in Versions : Len(workers[x]) <= 2
        BY <1>0, <1>1
    <2>2. row \in [Versions -> {None, WAITING, RUNNING, CANCELED, FAILED, SUCCESS}]
        BY <1>0
    <2> QED
        BY <1>0, <2>1, <2>2 DEF Typed
<1>3. OneByOne
    <2>1. ASSUME NEW t \in Tasks PROVE 0 \in 0..MaxVersion /\ Latest(t, 0)
        <3>1. \A w \in 0..MaxVersion : row[<<t, w>>] = IF w = 0 THEN WAITING ELSE None
            BY <1>0, VersionFacts
        <3>2. 0 \in 0..MaxVersion /\ \A w \in 0..MaxVersion : ~(w < 0) /\ (w > 0 => w # 0)
            BY Numbers
        <3> QED
            BY <3>1, <3>2, Statuses DEF Latest
    <2> QED
        BY <2>1 DEF OneByOne
<1>4. InputsDone /\ Begun
    BY <1>1 DEF InputsDone, Begun
<1>5. Live /\ AllFine
    BY <1>0 DEF Live, AllFine, Alive
<1>6. Settled
    BY <1>0 DEF Settled
<1>7. Books
    BY <1>0, <1>1, Statuses DEF Books
<1> QED
    BY <1>2, <1>3, <1>4, <1>5, <1>6, <1>7 DEF IInv

LEMMA IInvStep == IInv /\ [Next]_vars => IInv'
<1> SUFFICES ASSUME IInv, [Next]_vars PROVE IInv'
    OBVIOUS
<1>1. ASSUME NEW p \in Pids, Work(p) PROVE IInv'
    BY <1>1, InputStep, SpawnStep, PushDataStep, PushModelStep, DestroyStep, DropStep, ReportStep DEF Work
<1>2. ASSUME NEW p \in Pids, Vanish(p) PROVE IInv'
    BY <1>2, VanishStep
<1>3. ASSUME NEW e \in Starts, ComponentEnds(e) PROVE IInv'
    BY <1>3, ComponentEndsStep
<1>4. ASSUME NEW x \in Versions, Start(x) PROVE IInv'
    BY <1>4, StartStep
<1>5. ASSUME NEW x \in Versions, StartAgain(x) PROVE IInv'
    BY <1>5, StartAgainStep
<1>6. ASSUME NEW x \in Versions, Detect(x) PROVE IInv'
    BY <1>6, StopJobStep DEF Detect
<1>7. ASSUME NEW x \in Versions, KillChildren(x) PROVE IInv'
    BY <1>7, KillChildrenStep
<1>8. ASSUME NEW x \in Versions, KillWorker(x) PROVE IInv'
    BY <1>8, KillWorkerStep
<1>9. CASE UserStops
    BY <1>9, StopJobStep DEF UserStops
<1>10. CASE SchedulerStops
    BY <1>10, StopJobStep DEF SchedulerStops
<1>11. CASE Rerun
    BY <1>11, RerunStep
<1>12. CASE UNCHANGED vars
    <2>1. UNCHANGED <<rows, proc, outputs, faults>> /\ killing' = killing
        BY <1>12 DEF vars, stopVars
    <2> QED
        BY <2>1, OnlyKilling DEF IInv, Typed
<1> QED
    BY <1>1, <1>2, <1>3, <1>4, <1>5, <1>6, <1>7, <1>8, <1>9, <1>10, <1>11, <1>12 DEF Next

\* The worker processes, their ids, the rows and tables of their outputs and the data in the
\* storage agree with the statuses of the tasks in every state.
THEOREM ProcessesAndData == Spec => []IInv
<1> QED
    BY InitIInv, IInvStep, PTL DEF Spec

LEMMA RetryFinds == IInv => RetryFindsInputs
<1> SUFFICES ASSUME IInv, faults = 0, NEW x \in Now, row[x] \in InterruptStatus, NEW d \in Range(Inputs[x[1]])
             PROVE  Readable(d) \/ Shared(d) \/ Stored(x[1])
    BY DEF RetryFindsInputs
<1>1. Typed /\ OneByOne /\ InputsDone /\ Books
    BY DEF IInv
<1>2. x \in Versions /\ x[1] \in Tasks /\ d \in Tasks
    BY <1>1, NowFacts, InputFacts
<1>3. row[Current(d)] = SUCCESS
    BY <1>1, <1>2, Statuses DEF InputsDone
<1>4. PICK y \in Versions : y = Current(d) /\ y[1] = d
    BY <1>1, <1>2, LatestFacts
<1>5. Whole(y)
    BY <1>1, <1>3, <1>4 DEF Books
<1>6. Found(d) # {}
    <2>1. <<y, 1>> \in Starts /\ 1 \in 1..Items[d]
        <3>1. Items[d] \in Nat /\ Items[d] >= 1
            BY <1>2, ItemFacts
        <3>2. 1 \in 1..2 /\ 1 \in 1..Items[d]
            BY <3>1
        <3> QED
            BY <3>2 DEF Starts
    <2>2. <<<<y, 1>>, 1>> \in Uris
        BY <1>4, <2>1, UriFacts
    <2>3. <<<<y, 1>>, 1>> \in tracking
        BY <1>5, <2>2 DEF Whole, Outs
    <2> QED
        BY <1>4, <2>3 DEF Found
<1>7. CASE Found(d) \subseteq metas
    BY <1>4, <1>5, <1>6, <1>7 DEF Readable, HasTables, Whole
<1>8. CASE ~(Found(d) \subseteq metas)
    <2>1. PICK u \in tracking : u[1][1] = y /\ u \notin metas
        BY <1>4, <1>8 DEF Found
    <2>2. IsTable[d] /\ \E t \in Tasks : Takes(t, u) /\ Stored(t)
        BY <1>1, <1>4, <2>1 DEF Books
    <2>3. PICK t \in Tasks : d \in Range(Inputs[t]) /\ Stored(t)
        BY <1>4, <2>1, <2>2 DEF Takes
    <2> QED
        BY <1>2, <2>2, <2>3 DEF Shared
<1> QED
    BY <1>7, <1>8

LEMMA DataStaysThen == IInv => DataStays
<1>1. IInv => InputsStay
    <2> SUFFICES ASSUME IInv, NEW p \in Pids, Alive(p), proc[p].at \in {"ready", "wait"},
                        \A x \in Versions : x[1] = Task(p) => Len(workers[x]) <= 1, NEW u \in proc[p].ins
                 PROVE  u \in data \/ Shared(u[1][1][1])
        BY DEF InputsStay
    <2>1. Keeps(p)
        BY DEF IInv, AllFine, Fine
    <2> QED
        BY <2>1 DEF Keeps, Once
<1>2. IInv => TablesHaveData
    BY DEF IInv, Settled, TablesHaveData
<1> QED
    BY <1>1, <1>2, RetryFinds DEF DataStays

\* The data of a task, and of its next try, outlives the processes that come and go.
THEOREM DataHolds == Spec => []DataStays
<1> QED
    BY ProcessesAndData, DataStaysThen, PTL

\* When a version has been canceled, none of its workers is left, whatever was started twice
\* and whoever has an id again.
THEOREM StopsKillAll == Spec => []StopKillsAll
<1>1. IInv => StopKillsAll
    BY DEF IInv, Live, Owned, StopKillsAll
<1> QED
    BY <1>1, ProcessesAndData, PTL
=============================================================================
