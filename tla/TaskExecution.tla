---------------------------- MODULE TaskExecution ----------------------------
(***************************************************************************)
(* What a task does at one party: the worker process that gets the inputs, *)
(* runs the component in a process of its own, stores the outputs and      *)
(* reports (hub/components_wraps/fate/_wraps.py), the rows and tables the  *)
(* flow server keeps of the outputs (apps/worker/worker_app.py,            *)
(* manager/outputs, engine/storage/_table.py), and how the processes are   *)
(* started and killed by their ids (manager/service/worker_manager.py,     *)
(* utils/process_utils.py).                                                *)
(*                                                                         *)
(* A data item is named by the execution, the start and the index that     *)
(* have written it.  Optional inputs, metrics, and the contents of data    *)
(* and models are left out.                                                *)
(***************************************************************************)
EXTENDS FlowStatus, SequencesExt

CONSTANTS
    Tasks,
    Inputs,     \* the tasks whose outputs a task takes, in the order of its channels
    Items,      \* how many data items a task puts out
    IsTable,    \* whether they are of the type "table", which a task destroys that has read it
    Models,     \* the tasks that put out a model too
    Pids,       \* process ids, which are used again
    MaxVersion, \* bound on the versions of a task
    MaxFaults,  \* bound on lost or refused calls, repeated starts and processes that vanish
    MaxStops    \* bound on the requests of users to stop the job

ASSUME ExecutionAssumption ==
    /\ Inputs \in [Tasks -> Seq(Tasks)] /\ Items \in [Tasks -> Nat \ {0}]
    /\ IsTable \in [Tasks -> BOOLEAN] /\ Models \subseteq Tasks
    /\ {MaxVersion, MaxFaults, MaxStops} \subseteq Nat

VARIABLES
    row,      \* Task.f_party_status, of every version
    workers,  \* WorkerInfo.f_run_pid, of every start of a version; the last is Task.f_run_pid
    proc,     \* the worker process that has an id
    children, \* the starts whose component is running
    tracking, \* TrackingOutputInfo: the data items with a row
    metas,    \* StorageTableMeta: those with a table
    data,     \* those whose data is in the storage
    model,    \* the model of a task: the version its row tells of, the start that wrote it
    stopped,  \* the job has been stopped
    killing,  \* how far the thread is that stops a version, and the status it brings
    faults, stops

rows == <<row, workers>>
outputs == <<tracking, metas, data, model>>
stopVars == <<stopped, killing, stops>>
vars == <<rows, proc, children, outputs, stopVars, faults>>

None == "none"
Free == [at |-> "free"]
NoModel == [row |-> "none"]
Versions == Tasks \X (0..MaxVersion)
Starts == Versions \X (1..2)
Uris == UNION {{e} \X (1..Items[e[1][1]]) : e \in Starts}

\* The latest version of a task.
Current(t) == CHOOSE x \in Versions :
    x[1] = t /\ row[x] # None /\ \A y \in Versions : y[1] = t /\ row[y] # None => y[2] <= x[2]
Now == {Current(t) : t \in Tasks}

Init ==
    /\ row = [x \in Versions |-> IF x[2] = 0 THEN WAITING ELSE None]
    /\ workers = [x \in Versions |-> <<>>]
    /\ proc = [p \in Pids |-> Free]
    /\ children = {} /\ tracking = {} /\ metas = {} /\ data = {}
    /\ model = [t \in Tasks |-> NoModel]
    /\ stopped = FALSE /\ killing = [x \in Versions |-> <<>>]
    /\ faults = 0 /\ stops = 0

Fault == faults < MaxFaults /\ faults' = faults + 1
NoFault == UNCHANGED faults
-----------------------------------------------------------------------------
(* The worker process *)

\* The start that the process with id p is.
Me(p) == <<proc[p].x, proc[p].k>>
Alive(p) == proc[p] # Free
At(p, place) == Alive(p) /\ proc[p].at = place
Task(p) == proc[p].x[1]

Become(p, r) == proc' = [proc EXCEPT ![p] = r]
Go(p, place) == Become(p, [proc[p] EXCEPT !.at = place, !.i = 1])
\* An exception in run: nothing is destroyed, and FAILED is reported.
Fail(p) == Become(p, [proc[p] EXCEPT !.at = "report", !.ok = FALSE])

\* The rows of the outputs of a task that query_data_tracking finds: those of its
\* latest version.
Found(d) == {u \in tracking : u[1][1] = Current(d)}

\* Mutant: a row is enough, its table is not looked up.
M_HasTables(d) == Found(d) # {}

\* get_data_info, of every row.
HasTables(d) == Found(d) # {} /\ Found(d) \subseteq metas

\* download_model
HasModel(d) == model[d] # NoModel

Readable(d) == HasTables(d) /\ (d \in Models => HasModel(d))

\* One channel of the inputs.  Of several data items the component is handed the last
\* as often as there are items: they share one description.
Input(p) ==
    LET d == Inputs[Task(p)][proc[p].i]
        r == proc[p]
    IN
    /\ At(p, "input")
    /\ IF r.i > Len(Inputs[Task(p)])
       THEN Go(p, "ready")
       ELSE IF ~Readable(d)
       THEN Fail(p)
       ELSE \E u \in Found(d) :
              /\ \A w \in Found(d) : w[2] <= u[2]
              /\ Become(p, [r EXCEPT !.i = @ + 1, !.ins = @ \cup {u},
                   !.temp = IF IsTable[d] /\ Found(d) = {u} THEN Append(@, u) ELSE @])
    /\ UNCHANGED <<rows, children, outputs, stopVars, faults>>

\* run_component: the component is a process below the worker, which waits for it.
Spawn(p) ==
    /\ At(p, "ready")
    /\ Go(p, "wait")
    /\ children' = children \cup {Me(p)}
    /\ UNCHANGED <<rows, outputs, stopVars, faults>>

\* The workers that wait for the component of a start, when it ends with a result.
Returned(E, ok) ==
    [p \in Pids |->
       IF Alive(p) /\ Me(p) \in E /\ proc[p].at = "wait"
       THEN [proc[p] EXCEPT !.at = IF ok THEN "push" ELSE "report", !.ok = ok, !.i = 1]
       ELSE proc[p]]

\* The component ends, also one that has lost its worker.
ComponentEnds(e) ==
    /\ e \in children
    /\ children' = children \ {e}
    /\ \E ok \in BOOLEAN :
         /\ data' = IF ok THEN data \cup {u \in Uris : u[1] = e} ELSE data
         /\ proc' = Returned({e}, ok)
    /\ UNCHANGED <<rows, tracking, metas, model, stopVars, faults>>

\* create_meta: a table in place of one of that name.
CreateMeta(u) == metas' = metas \cup {u}

\* save_data_tracking
Save(u) == tracking' = tracking \cup {u} /\ CreateMeta(u)

\* One data item.  The answer of the server is only logged; without an answer the task fails.
PushData(p) ==
    LET u == <<Me(p), proc[p].i>> IN
    /\ At(p, "push") /\ u \in Uris
    /\ \/ /\ Save(u)
          /\ Become(p, [proc[p] EXCEPT !.i = @ + 1])
          /\ NoFault
       \/ \* refused
          /\ Fault
          /\ tracking' \in {tracking, tracking \cup {u}} /\ UNCHANGED metas
          /\ Become(p, [proc[p] EXCEPT !.i = @ + 1])
       \/ \* no answer
          /\ Fault
          /\ Save(u) \/ UNCHANGED <<tracking, metas>>
          /\ Fail(p)
    /\ UNCHANGED <<rows, children, data, model, stopVars>>

\* log_meta: the row of an earlier version stays.
RowOf(m, x) == IF m = NoModel THEN x ELSE m.row

\* upload: the content is written over that of an earlier version.
Uploaded(e) == [model EXCEPT ![e[1][1]] = [row |-> RowOf(@, e[1]), from |-> e]]

PushModel(p) ==
    /\ At(p, "push") /\ <<Me(p), proc[p].i>> \notin Uris
    /\ Go(p, "destroy")
    /\ IF Task(p) \in Models
       THEN \/ model' = Uploaded(Me(p)) /\ NoFault
            \/ Fault /\ UNCHANGED model
       ELSE UNCHANGED <<model, faults>>
    /\ UNCHANGED <<rows, children, tracking, metas, data, stopVars>>

\* destroy, after a success: the input tables go, first their rows and then their data.
Destroy(p) ==
    LET r == proc[p] IN
    /\ At(p, "destroy")
    /\ IF r.i > Len(r.temp)
       THEN Go(p, "report") /\ UNCHANGED metas
       ELSE IF r.temp[r.i] \in metas
       THEN metas' = metas \ {r.temp[r.i]} /\ Become(p, [r EXCEPT !.at = "drop"])
       ELSE Become(p, [r EXCEPT !.i = @ + 1]) /\ UNCHANGED metas
    /\ UNCHANGED <<rows, children, tracking, data, model, stopVars, faults>>

Drop(p) ==
    LET r == proc[p] IN
    /\ At(p, "drop")
    /\ data' = data \ {r.temp[r.i]}
    /\ Become(p, [r EXCEPT !.at = "destroy", !.i = @ + 1])
    /\ UNCHANGED <<rows, children, tracking, metas, model, stopVars, faults>>

Moved(x, s) == [row EXCEPT ![x] = IF TaskMayBecome(@, s) THEN s ELSE @]

\* report_status, and the end of the process.
Report(p) ==
    /\ At(p, "report")
    /\ \/ row' = Moved(proc[p].x, IF proc[p].ok THEN SUCCESS ELSE FAILED) /\ NoFault
       \/ Fault /\ UNCHANGED row
    /\ Become(p, Free)
    /\ UNCHANGED <<workers, children, outputs, stopVars>>

\* The worker dies; its component goes on.
Vanish(p) ==
    /\ Alive(p)
    /\ Fault
    /\ Become(p, Free)
    /\ UNCHANGED <<rows, children, outputs, stopVars>>

Work(p) == Input(p) \/ Spawn(p) \/ PushData(p) \/ PushModel(p) \/ Destroy(p) \/ Drop(p) \/ Report(p)
-----------------------------------------------------------------------------
(* The flow server *)

Worker(x) == [x |-> x, k |-> Len(workers[x]) + 1, at |-> "input", i |-> 1, ins |-> {}, temp |-> <<>>, ok |-> TRUE]

Interrupted == {x \in Now : row[x] \in InterruptStatus}

\* start_task, of a task that the scheduler sees can start.
Start(x) ==
    /\ x \in Now /\ row[x] = WAITING
    /\ ~stopped /\ Interrupted = {}
    /\ \A d \in Range(Inputs[x[1]]) : row[Current(d)] = SUCCESS
    /\ row' = Moved(x, RUNNING)
    /\ \E p \in Pids :
         /\ ~Alive(p)
         /\ workers' = [workers EXCEPT ![x] = Append(@, p)]
         /\ Become(p, Worker(x))
    /\ UNCHANGED <<children, outputs, stopVars, faults>>

\* The call to start was taken for lost and is made again.
StartAgain(x) ==
    /\ row[x] = RUNNING /\ killing[x] = <<>> /\ Len(workers[x]) = 1
    /\ Fault
    /\ \E p \in Pids :
         /\ ~Alive(p)
         /\ workers' = [workers EXCEPT ![x] = Append(@, p)]
         /\ Become(p, Worker(x))
    /\ UNCHANGED <<row, children, outputs, stopVars>>

\* stop_jobs: a thread for every version that runs.
StopJob(s) ==
    /\ stopped' = TRUE
    /\ killing' = [x \in Versions |->
                     IF x \in Now /\ row[x] = RUNNING /\ killing[x] = <<>> THEN <<"begin", s>> ELSE killing[x]]

UserStops ==
    /\ stops < MaxStops /\ stops' = stops + 1
    /\ ~stopped
    /\ StopJob(CANCELED)
    /\ UNCHANGED <<rows, proc, children, outputs, faults>>

\* The scheduler ends a job one task of which has failed.
SchedulerStops ==
    /\ ~stopped /\ Interrupted # {}
    /\ StopJob(FAILED)
    /\ UNCHANGED <<rows, proc, children, outputs, stops, faults>>

\* is_alive: any process that has the id.
Gone(x) == ~Alive(Last(workers[x]))

\* detect_running_task
Detect(x) ==
    /\ row[x] = RUNNING /\ killing[x] = <<>> /\ Gone(x)
    /\ StopJob(FAILED)
    /\ UNCHANGED <<rows, proc, children, outputs, stops, faults>>

\* Mutant: only the process of the last start is killed.
M_Targets(x) == {p \in {Last(workers[x])} : Alive(p)}

\* kill_task: the process with the id in the row, and those of all worker rows.  The
\* command line that is compared is the same for all workers.
Targets(x) == {p \in Range(workers[x]) : Alive(p)}

\* First the processes below, as they are listed then,
KillChildren(x) ==
    LET E == {Me(p) : p \in Targets(x)} IN
    /\ killing[x] # <<>> /\ killing[x][1] = "begin"
    /\ killing' = [killing EXCEPT ![x][1] = "kill"]
    /\ children' = children \ E
    /\ proc' = Returned(E \cap children, FALSE)
    /\ UNCHANGED <<rows, outputs, stopped, stops, faults>>

\* Mutant: the row is left alone when there was no process to kill.
M_KillWorker(x) ==
    /\ killing[x] # <<>> /\ killing[x][1] = "kill"
    /\ killing' = [killing EXCEPT ![x] = <<>>]
    /\ proc' = [p \in Pids |-> IF p \in Targets(x) THEN Free ELSE proc[p]]
    /\ row' = IF Targets(x) = {} THEN row ELSE Moved(x, killing[x][2])
    /\ UNCHANGED <<workers, children, outputs, stopped, stops, faults>>

\* then the worker, and then the row.
KillWorker(x) ==
    /\ killing[x] # <<>> /\ killing[x][1] = "kill"
    /\ killing' = [killing EXCEPT ![x] = <<>>]
    /\ proc' = [p \in Pids |-> IF p \in Targets(x) THEN Free ELSE proc[p]]
    /\ row' = Moved(x, killing[x][2])
    /\ UNCHANGED <<workers, children, outputs, stopped, stops, faults>>

\* The user runs the job again, when all that ran has ended: a new version of every task
\* that was interrupted.
Rerun ==
    /\ stopped /\ \A x \in Versions : row[x] # RUNNING /\ killing[x] = <<>>
    /\ Interrupted # {} /\ \A x \in Interrupted : x[2] < MaxVersion
    /\ row' = [x \in Versions |-> IF <<x[1], x[2] - 1>> \in Interrupted THEN WAITING ELSE row[x]]
    /\ stopped' = FALSE
    /\ UNCHANGED <<workers, proc, children, outputs, killing, stops, faults>>
-----------------------------------------------------------------------------
Next ==
    \/ \E p \in Pids : Work(p) \/ Vanish(p)
    \/ \E e \in Starts : ComponentEnds(e)
    \/ \E x \in Versions : Start(x) \/ StartAgain(x) \/ Detect(x) \/ KillChildren(x) \/ KillWorker(x)
    \/ UserStops \/ SchedulerStops \/ Rerun

Spec == Init /\ [][Next]_vars

\* Processes run, a component ends some day (a timeout that stops the job stands behind
\* it), threads that kill go on, and the detector comes round.
Fairness ==
    /\ \A p \in Pids : WF_vars(Work(p))
    /\ \A e \in Starts : WF_vars(ComponentEnds(e))
    /\ \A x \in Versions : WF_vars(Detect(x)) /\ WF_vars(KillChildren(x) \/ KillWorker(x))

FairSpec == Spec /\ Fairness
-----------------------------------------------------------------------------
(* Properties *)

\* A table that several tasks take is destroyed by the first of them that has succeeded.
Shared(d) == IsTable[d] /\ \E s, t \in Tasks : s # t /\ d \in Range(Inputs[s]) \cap Range(Inputs[t])

\* While a component runs under its worker, the data it was handed is there: no other task,
\* no stop and no rerun takes it away, as long as no version of the task was started twice.
InputsStay ==
    \A p \in Pids :
        /\ Alive(p) /\ proc[p].at \in {"ready", "wait"}
        /\ \A x \in Versions : x[1] = Task(p) => Len(workers[x]) <= 1
        => \A u \in proc[p].ins : u \in data \/ Shared(u[1][1][1])

\* A table that is known has its data, whatever process is killed between two steps.
TablesHaveData == metas \subseteq data

\* Some version of the task has got as far as storing its outputs.
Stored(t) == \E u \in tracking : u[1][1][1] = t

\* Without faults, a task that was interrupted finds its inputs when it is run again, unless
\* it was stopped after its own success.
RetryFindsInputs ==
    faults = 0 =>
        \A x \in Now : row[x] \in InterruptStatus =>
            \A d \in Range(Inputs[x[1]]) : Readable(d) \/ Shared(d) \/ Stored(x[1])

\* The data of a task, and of the next try, outlives the processes that come and go.
DataStays == InputsStay /\ TablesHaveData /\ RetryFindsInputs

\* When the thread that stops a version is through, none of its workers is left, not even
\* that of a start that was repeated.
StopKillsAll == \A p \in Pids : Alive(p) => row[proc[p].x] # CANCELED

\* A task that runs ends, also when its process id is used again by another.
EveryTaskEnds == \A x \in Versions : row[x] = RUNNING ~> row[x] # RUNNING
=============================================================================
