--------------------------- MODULE ResourceManager ---------------------------
(***************************************************************************)
(* The cores of one party: manager/service/resource_manager.py over the    *)
(* tables EngineRegistry, Job and Task (db/db_models.py).                  *)
(*                                                                         *)
(* The scheduler applies cores for a job at every party, then cores for    *)
(* each task out of the cores of its job; parties return them when a job   *)
(* or a task reaches an end status.  All of it arrives over HTTP, retried  *)
(* and reordered, handled by threads of several servers that share one     *)
(* database, so every operation may happen at any time and any number of   *)
(* times.  Only the database keeps the books straight: the conditional     *)
(* UPDATEs of one transaction.                                             *)
(*                                                                         *)
(* Memory is left out: no code ever sets it to anything but 0.             *)
(***************************************************************************)
EXTENDS Integers

CONSTANTS
    Jobs,        \* job rows of this party
    Tasks,       \* task rows (one per version of a task) of this party
    Servers,     \* fate_flow servers that register the engine at start-up
    CoreConfigs, \* the values "cores" may have in the engine's configuration
    JobOf,       \* the job of a task
    Demand,      \* Job.f_cores, fixed when the job is created
    TaskDemand,  \* cores per task, fixed when the task is created
    Load,        \* sum of Demand over a set of jobs
    TaskLoad,    \* sum of TaskDemand over a set of tasks
    MaxDrift     \* bound on |drift|, so that TLC's state space is finite

\* Load and TaskLoad are the sums of Demand and TaskDemand: 0 on the empty set,
\* and one more element adds its own demand.
ASSUME DemandAssumption ==
    /\ JobOf \in [Tasks -> Jobs]
    /\ Demand \in [Jobs -> Nat]
    /\ TaskDemand \in [Tasks -> Nat]
    /\ CoreConfigs \subseteq Nat
    /\ CoreConfigs # {}
    /\ MaxDrift \in Nat

ASSUME LoadAssumption ==
    /\ Load \in [SUBSET Jobs -> Nat]
    /\ Load[{}] = 0
    /\ \A S \in SUBSET Jobs : \A j \in Jobs \ S : Load[S \cup {j}] = Load[S] + Demand[j]

ASSUME TaskLoadAssumption ==
    /\ TaskLoad \in [SUBSET Tasks -> Nat]
    /\ TaskLoad[{}] = 0
    /\ \A S \in SUBSET Tasks : \A t \in Tasks \ S :
           TaskLoad[S \cup {t}] = TaskLoad[S] + TaskDemand[t]

Operations == {"apply", "return"}

VARIABLES
    cores,        \* EngineRegistry.f_cores
    remaining,    \* EngineRegistry.f_remaining_cores
    rows,         \* the jobs whose rows exist
    jobInUse,     \* the jobs with Job.f_resource_in_use
    jobRemaining, \* Job.f_remaining_cores
    taskInUse,    \* the tasks with Task.f_resource_in_use
    admitted,     \* <<operation, job>>: calls past the limit check, before their transaction
    registering,  \* per server: the f_cores it has read and not yet written over, or -1
    drift,        \* history: what overlapping registrations added to remaining
    leaked        \* history: cores of jobs deleted while they were in use

bookVars == <<cores, remaining, rows, jobInUse, jobRemaining, taskInUse, admitted,
              registering, drift, leaked>>

engineVars == <<cores, registering, drift>>
taskVars == <<jobRemaining, taskInUse>>

NotRegistering == -1

TasksOf(j) == {t \in taskInUse : JobOf[t] = j}

\* The cores applied for the job fit into the engine as configured now.
WithinLimit(j) == Demand[j] <= cores

BooksInit ==
    /\ cores \in CoreConfigs
    /\ remaining = cores
    /\ rows = Jobs
    /\ jobInUse = {}
    /\ jobRemaining = Demand
    /\ taskInUse = {}
    /\ admitted = {}
    /\ registering = [s \in Servers |-> NotRegistering]
    /\ drift = 0
    /\ leaked = 0
----------------------------------------------------------------------------
(* Jobs *)

\* resource_for_job up to the limit check, for either operation: a job that asks
\* for more than the engine has raises RESOURCE_LIMIT_EXCEEDED, also on return.
Admit(op, j) ==
    /\ j \in rows
    /\ WithinLimit(j)
    /\ <<op, j>> \notin admitted
    /\ admitted' = admitted \cup {<<op, j>>}
    /\ UNCHANGED <<remaining, rows, jobInUse, leaked, taskVars, engineVars>>

\* Mutants: the first UPDATE does not ask whether the job already holds (or still
\* holds) cores; the second one does not ask whether there are enough.
M_ApplyJobNotInUse(j) == j \in rows /\ (Demand[j] # 0 => remaining >= Demand[j])
M_ReturnJobTwice(j) == j \in rows /\ (Demand[j] # 0 => remaining + Demand[j] <= cores)

\* The two UPDATEs of the transaction match a row each; a job without cores does
\* not touch the engine.
ApplyJobFits(j) ==
    /\ j \in rows \ jobInUse
    /\ Demand[j] # 0 => remaining >= Demand[j]

ReturnJobFits(j) ==
    /\ j \in rows \cap jobInUse
    /\ Demand[j] # 0 => remaining + Demand[j] <= cores

\* The transaction of APPLY, or its rollback.
ApplyJob(j) ==
    /\ <<"apply", j>> \in admitted
    /\ admitted' = admitted \ {<<"apply", j>>}
    /\ \/ /\ ApplyJobFits(j)
          /\ jobInUse' = jobInUse \cup {j}
          /\ remaining' = remaining - Demand[j]
       \/ /\ ~ApplyJobFits(j)
          /\ UNCHANGED <<jobInUse, remaining>>
    /\ UNCHANGED <<rows, leaked, taskVars, engineVars>>

\* The transaction of RETURN, or its rollback.
ReturnJob(j) ==
    /\ <<"return", j>> \in admitted
    /\ admitted' = admitted \ {<<"return", j>>}
    /\ \/ /\ ReturnJobFits(j)
          /\ jobInUse' = jobInUse \ {j}
          /\ remaining' = remaining + Demand[j]
       \/ /\ ~ReturnJobFits(j)
          /\ UNCHANGED <<jobInUse, remaining>>
    /\ UNCHANGED <<rows, leaked, taskVars, engineVars>>

\* clean_job deletes the rows of the job and of its tasks.  The stop it requests
\* first is any Admit and ReturnJob before this step; its answer is not looked at.
DeleteJob(j) ==
    /\ j \in rows
    /\ rows' = rows \ {j}
    /\ jobInUse' = jobInUse \ {j}
    /\ taskInUse' = taskInUse \ TasksOf(j)
    /\ leaked' = leaked + (IF j \in jobInUse THEN Demand[j] ELSE 0)
    /\ UNCHANGED <<remaining, jobRemaining, admitted, engineVars>>
----------------------------------------------------------------------------
(* Tasks: both UPDATEs are one transaction; that the job itself is in use is *)
(* not asked (the filter is commented out).                                  *)

\* Mutants: no look at what the job has left; the flag alone is reset.
M_ApplyTaskNoLimit(t) ==
    /\ JobOf[t] \in rows
    /\ t \notin taskInUse
    /\ taskInUse' = taskInUse \cup {t}
    /\ jobRemaining' = [jobRemaining EXCEPT ![JobOf[t]] = @ - TaskDemand[t]]
    /\ UNCHANGED <<remaining, rows, jobInUse, admitted, leaked, engineVars>>
ApplyTask(t) ==
    /\ TaskDemand[t] # 0
    /\ JobOf[t] \in rows
    /\ t \notin taskInUse
    /\ jobRemaining[JobOf[t]] >= TaskDemand[t]
    /\ taskInUse' = taskInUse \cup {t}
    /\ jobRemaining' = [jobRemaining EXCEPT ![JobOf[t]] = @ - TaskDemand[t]]
    /\ UNCHANGED <<remaining, rows, jobInUse, admitted, leaked, engineVars>>

ReturnTask(t) ==
    /\ TaskDemand[t] # 0
    /\ JobOf[t] \in rows
    /\ t \in taskInUse
    /\ jobRemaining[JobOf[t]] + TaskDemand[t] <= Demand[JobOf[t]]
    /\ taskInUse' = taskInUse \ {t}
    /\ jobRemaining' = [jobRemaining EXCEPT ![JobOf[t]] = @ + TaskDemand[t]]
    /\ UNCHANGED <<remaining, rows, jobInUse, admitted, leaked, engineVars>>
----------------------------------------------------------------------------
(* A server registers the engine when it starts: SELECT, then an UPDATE that *)
(* adds the difference to the f_cores it had read.                           *)

RegisterRead(s) ==
    /\ registering[s] = NotRegistering
    /\ registering' = [registering EXCEPT ![s] = cores]
    /\ UNCHANGED <<cores, remaining, rows, jobInUse, admitted, drift, leaked, taskVars>>

RegisterWrite(s, new) ==
    /\ registering[s] # NotRegistering
    /\ drift + cores - registering[s] \in -MaxDrift..MaxDrift
    /\ cores' = new
    /\ remaining' = remaining + (new - registering[s])
    /\ registering' = [registering EXCEPT ![s] = NotRegistering]
    /\ drift' = drift + (cores - registering[s])
    /\ UNCHANGED <<rows, jobInUse, admitted, leaked, taskVars>>

BooksNext ==
    \/ \E j \in Jobs :
          \/ \E op \in Operations : Admit(op, j)
          \/ ApplyJob(j)
          \/ ReturnJob(j)
          \/ DeleteJob(j)
    \/ \E t \in Tasks : ApplyTask(t) \/ ReturnTask(t)
    \/ \E s \in Servers : RegisterRead(s) \/ \E new \in CoreConfigs : RegisterWrite(s, new)

BooksSpec == BooksInit /\ [][BooksNext]_bookVars
----------------------------------------------------------------------------
BooksTypeOK ==
    /\ cores \in Nat
    /\ remaining \in Int
    /\ rows \in SUBSET Jobs
    /\ jobInUse \in SUBSET rows
    /\ jobRemaining \in [Jobs -> Int]
    /\ taskInUse \in SUBSET Tasks
    /\ admitted \in SUBSET (Operations \X Jobs)
    /\ registering \in [Servers -> Nat \cup {NotRegistering}]
    /\ drift \in Int
    /\ leaked \in Nat

\* No core is lost or made up, however the calls of jobs, of the servers that
\* restart with another configuration and of clean_job interleave: what is left is
\* the configured cores less the cores of the jobs in use; only jobs deleted while
\* in use, and registrations that overlap, take or add to that, and by exactly
\* their demand and by the change the second one did not see.
EngineConservation == remaining + Load[jobInUse] + leaked = cores + drift

\* The same for the cores of one job and the tasks that run in it.
JobConservation ==
    \A j \in rows : jobRemaining[j] + TaskLoad[TasksOf(j)] = Demand[j]

\* The tasks of a job never hold more than the job asked for (job_cores bounds the
\* tasks that run in parallel), not even when apply and return calls are repeated.
TasksWithinJob == \A j \in rows : TaskLoad[TasksOf(j)] <= Demand[j]

\* The filter "remaining + cores <= f_cores" of a return is there for corrupted
\* books and never refuses a job that is in use: if it did, the job would keep its
\* cores for ever (the detector would retry in vain).  Registrations that overlap
\* are the one way to get there.
ReturnNeverRefused ==
    drift <= 0 => \A j \in jobInUse : remaining + Demand[j] <= cores

\* Only a restart with another configuration may put the engine into debt: no
\* sequence of calls for jobs takes cores that are not there.
NoCallMakesDebt ==
    [][registering' = registering => remaining' >= remaining \/ remaining' >= 0]_bookVars

\* A single server that restarts as often as it likes keeps the books exact: its
\* next start cannot overtake its last one.
NoDriftAlone == (\A s1, s2 \in Servers : s1 = s2) => drift = 0
=============================================================================
