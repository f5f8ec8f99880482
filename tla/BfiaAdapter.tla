----------------------------- MODULE BfiaAdapter -----------------------------
(***************************************************************************)
(* The BFIA protocol adapter (adapter/bfia): its scheduler, the job and    *)
(* task controllers of a party, its detector and the containers the tasks  *)
(* run in.  It has statuses, rounds and calls of its own and takes no      *)
(* lock on the job.                                                        *)
(*                                                                         *)
(* The threads of the scheduler's party are the round, the request that    *)
(* creates the job, and a request to stop it.  Each makes one call of one  *)
(* party at a time (ofx/api/models/bfia/resource.py); a call whose answer  *)
(* does not come is tried again, executed or not.                          *)
(***************************************************************************)
EXTENDS Integers, Sequences, FiniteSets, FiniteSetsExt, SequencesExt

CONSTANTS
    Roles,      \* the roles of the job, each at one party
    PartyOf,    \* the party (node) of a role
    TaskSeq,    \* the tasks in the order of topological_sort
    Deps,       \* the tasks whose outputs a task takes
    RolesOf,    \* the roles that run a task
    TryTimes,   \* try_times of remote_on_http
    MaxFaults,  \* bound on lost answers and requests and on containers that do not start
    MaxStops    \* bound on the requests of users to stop the job

Tasks == Range(TaskSeq)
Parties == {PartyOf[r] : r \in Roles}

ASSUME BfiaAssumption ==
    /\ IsFiniteSet(Roles) /\ Roles # {} /\ TaskSeq \in Seq(Tasks)
    /\ Deps \in [Tasks -> SUBSET Tasks] /\ RolesOf \in [Tasks -> (SUBSET Roles) \ {{}}]
    /\ TryTimes \in Nat \ {0} /\ {MaxFaults, MaxStops} \subseteq Nat

VARIABLES
    sjob,      \* ScheduleJob.f_status
    sstat,     \* ScheduleTaskStatus.f_status of each task
    srow,      \* ScheduleTask.f_status of each task at each party
    pjob,      \* Job.f_status of each role
    row,       \* Task.f_party_status of each task at each role
    box,       \* the container of each task at each role
    outs,      \* the tasks and roles whose outputs are in the object store
    killing,   \* the tasks and roles with a thread of stop_task under way
    at,        \* where the round is
    left,      \* the tasks the loop of the round has still to visit
    mem,       \* the statuses the round has in memory
    code,      \* task_scheduling_status_code
    calls,     \* the calls each thread has still to make
    try,       \* the tries of its present call
    bad,       \* whether an answer of its calls was not SUCCESS
    stopping,  \* whether the request to stop the job is under way
    faults, stops

schedulerVars == <<sjob, sstat, srow>>
partyVars == <<pjob, row, box, outs, killing>>
roundVars == <<at, left, mem, code>>
callVars == <<calls, try, bad, stopping>>
vars == <<schedulerVars, partyVars, roundVars, callVars, faults, stops>>

Threads == {"round", "create", "stop"}
Runs == {x \in Tasks \X Roles : x[2] \in RolesOf[x[1]]}
PartiesOf(t) == {PartyOf[r] : r \in RolesOf[t]}
RolesAt(p) == {r \in Roles : PartyOf[r] = p}
None == "none"
All == "all"   \* a call that names no task

TaskStatus == {"PENDING", "READY", "RUNNING", "SUCCESS", "FAILED"}
JobStatus == {"READY", "RUNNING", "FINISHED"}
EndStatus == {"FAILED", "FINISHED", "SUCCESS"}

TaskRules ==
    ({"PENDING"} \X {"READY", "RUNNING", "SUCCESS", "FAILED"})
    \cup ({"READY"} \X {"RUNNING", "FAILED", "SUCCESS"})
    \cup ({"RUNNING"} \X {"SUCCESS", "FAILED"})
JobRules ==
    ({"PENDING"} \X {"READY", "REJECTED"})
    \cup ({"READY"} \X {"RUNNING", "FINISHED"}) \cup ({"RUNNING"} \X {"FINISHED"})

TaskMoved(old, new) == IF <<old, new>> \in TaskRules THEN new ELSE old
JobMoved(old, new) == IF <<old, new>> \in JobRules THEN new ELSE old

\* Mutant: the statuses are read in the order of their ranks, SUCCESS first.
M_TaskStatusOver(S) ==
    LET Prefer == <<"FAILED", "SUCCESS", "RUNNING", "READY", "PENDING">>
    IN  Prefer[Min({i \in DOMAIN Prefer : Prefer[i] \in S})]

\* calculate_multi_party_task_status
TaskStatusOver(S) ==
    LET Prefer == <<"FAILED", "RUNNING", "READY", "PENDING", "SUCCESS">>
    IN  Prefer[Min({i \in DOMAIN Prefer : Prefer[i] \in S})]

Init ==
    /\ sjob = None /\ sstat = [t \in Tasks |-> None]
    /\ srow = [x \in Tasks \X Parties |-> None]
    /\ pjob = [r \in Roles |-> None] /\ row = [x \in Runs |-> None]
    /\ box = [x \in Runs |-> None] /\ outs = {} /\ killing = {}
    /\ at = "idle" /\ left = <<>> /\ mem = [t \in Tasks |-> None] /\ code = "no next"
    /\ calls = [th \in Threads |-> <<>>] /\ try = [th \in Threads |-> 1]
    /\ bad = [th \in Threads |-> FALSE]
    /\ stopping = FALSE /\ faults = 0 /\ stops = 0
-----------------------------------------------------------------------------
(* What a party does when it is called *)

CreateJob(p) ==
    /\ pjob' = [r \in Roles |-> IF r \in RolesAt(p) /\ pjob[r] = None THEN "READY" ELSE pjob[r]]
    /\ UNCHANGED <<row, box, outs, killing>>

StartJob(p) ==
    /\ pjob' = [r \in Roles |-> IF r \in RolesAt(p) THEN JobMoved(pjob[r], "RUNNING") ELSE pjob[r]]
    /\ UNCHANGED <<row, box, outs, killing>>

\* Every role of the party gets its row, when it has none, and a container, unless one of
\* that name is there still or it cannot be started.  The row becomes RUNNING in either
\* case: update_task_status has put the status RUNNING into the record that is to report
\* the failure.  ok: whether the answer is SUCCESS; broken: those that do not start.
StartTask(p, t, ok, broken) ==
    LET here == {x \in Runs : x[1] = t /\ PartyOf[x[2]] = p}
        free == {x \in here : box[x] = None}
    IN  /\ broken \subseteq free
        /\ ok <=> (broken = {} /\ free = here)
        /\ row' = [x \in Runs |->
                     IF x \notin here THEN row[x]
                     ELSE TaskMoved(IF row[x] = None THEN "READY" ELSE row[x], "RUNNING")]
        /\ box' = [x \in Runs |-> IF x \in free \ broken THEN "work" ELSE box[x]]
        /\ UNCHANGED <<pjob, outs, killing>>

\* calculate_job_is_finished: the role has a row of each of its tasks.
IsFinished(r) == \A x \in Runs : x[2] = r => row[x] # None

ToStop(p, t) == {x \in Runs : PartyOf[x[2]] = p /\ row[x] # None /\ t \in {x[1], All}}

\* The tasks of every role, or one of them, are killed, each in a thread of its own; the
\* job is finished when one of them has failed already or all tasks of the role exist.
StopJob(p, t) ==
    LET here == ToStop(p, t)
        over == {r \in RolesAt(p) : IsFinished(r) \/ \E x \in here : x[2] = r /\ row[x] = "FAILED"}
    IN  /\ killing' = killing \cup here
        /\ pjob' = [r \in Roles |-> IF r \in over THEN JobMoved(pjob[r], "FINISHED") ELSE pjob[r]]
        /\ UNCHANGED <<row, box, outs>>

\* stop_task: the container is removed and the row becomes FAILED.
Kill(x) ==
    /\ x \in killing
    /\ killing' = killing \ {x}
    /\ box' = [box EXCEPT ![x] = None]
    /\ row' = [row EXCEPT ![x] = TaskMoved(@, "FAILED")]
    /\ UNCHANGED <<schedulerVars, pjob, outs, roundVars, callVars, faults, stops>>

Answer(p, t) == TaskStatusOver({row[x] : x \in {y \in Runs : y[1] = t /\ PartyOf[y[2]] = p}})
-----------------------------------------------------------------------------
(* The container of a task *)

Moves(x, to) == box' = [box EXCEPT ![x] = to]
Inputs(x) == {d \in Deps[x[1]] : x[2] \in RolesOf[d]}

\* The inputs are fetched and the component is run; without an input it fails.
RunComponent(x) ==
    /\ box[x] = "work"
    /\ \/ (\A d \in Inputs(x) : <<d, x[2]>> \in outs) /\ Moves(x, "push")
       \/ Moves(x, "failed")
    /\ UNCHANGED <<schedulerVars, pjob, row, outs, killing, roundVars, callVars, faults, stops>>

PushOutput(x) ==
    /\ box[x] = "push"
    /\ \/ Moves(x, "ok") /\ outs' = outs \cup {x}
       \/ Moves(x, "failed") /\ UNCHANGED outs
    /\ UNCHANGED <<schedulerVars, pjob, row, killing, roundVars, callVars, faults, stops>>

\* The status goes to the party, unless the report is lost, and the container ends.
ReportStatus(x) ==
    /\ box[x] \in {"ok", "failed"}
    /\ Moves(x, "dead")
    /\ \/ /\ row' = [row EXCEPT ![x] = TaskMoved(@, IF box[x] = "ok" THEN "SUCCESS" ELSE "FAILED")]
          /\ UNCHANGED faults
       \/ faults < MaxFaults /\ faults' = faults + 1 /\ UNCHANGED row
    /\ UNCHANGED <<schedulerVars, pjob, outs, killing, roundVars, callVars, stops>>
-----------------------------------------------------------------------------
(* Calls *)

To(op, nodes, t) == LET order == SetToSeq(nodes) IN [i \in DOMAIN order |-> [op |-> op, p |-> order[i], t |-> t]]
Ready(th) == calls[th] = <<>>

\* The handler of the party's interconnection API.
Handle(c, ok, broken) ==
    \/ c.op = "start task" /\ StartTask(c.p, c.t, ok, broken)
    \/ /\ ok /\ broken = {}
       /\ \/ c.op = "create" /\ CreateJob(c.p)
          \/ c.op = "start job" /\ StartJob(c.p)
          \/ c.op = "stop" /\ StopJob(c.p, c.t)
          \/ c.op = "poll" /\ UNCHANGED partyVars

\* A poll brings the status of the task at the party.
Collect(c, ok) ==
    srow' = IF c.op = "poll" /\ ok /\ c.p \in PartiesOf(c.t)
            THEN [srow EXCEPT ![<<c.t, c.p>>] = TaskMoved(@, Answer(c.p, c.t))] ELSE srow

Return(th, ok) ==
    /\ calls' = [calls EXCEPT ![th] = Tail(@)]
    /\ try' = [try EXCEPT ![th] = 1]
    /\ bad' = [bad EXCEPT ![th] = @ \/ ~ok]

Spend(n) == faults + n <= MaxFaults /\ faults' = faults + n

Answered(th) ==
    /\ ~Ready(th)
    /\ \E ok \in BOOLEAN, broken \in SUBSET Runs :
         /\ Handle(Head(calls[th]), ok, broken) /\ Spend(Cardinality(broken))
         /\ Collect(Head(calls[th]), ok) /\ Return(th, ok)
    /\ UNCHANGED <<sjob, sstat, roundVars, stopping, stops>>

\* No answer comes, whether the party has got the request or not.
Unanswered(th) ==
    /\ ~Ready(th)
    /\ \/ UNCHANGED partyVars /\ Spend(1)
       \/ \E ok \in BOOLEAN, broken \in SUBSET Runs :
            Handle(Head(calls[th]), ok, broken) /\ Spend(1 + Cardinality(broken))
    /\ IF try[th] < TryTimes THEN try' = [try EXCEPT ![th] = @ + 1] /\ UNCHANGED <<calls, bad>>
       ELSE Return(th, FALSE)
    /\ UNCHANGED <<schedulerVars, roundVars, stopping, stops>>

Send(th, cs) == calls' = [calls EXCEPT ![th] = cs] /\ bad' = [bad EXCEPT ![th] = FALSE] /\ UNCHANGED try

Stop(t) == To("stop", Parties, t)
-----------------------------------------------------------------------------
(* Creating a job *)

\* The job can be scheduled from here on, before the parties know it.
SubmitJob ==
    /\ sjob = None
    /\ sjob' = "READY"
    /\ Send("create", To("create", Parties, All))
    /\ UNCHANGED <<sstat, srow, partyVars, roundVars, stopping, faults, stops>>

\* When every party has the job, its tasks are created; otherwise it is left as it is.
CreateTasks ==
    /\ sjob # None /\ Ready("create") /\ ~bad["create"] /\ \A t \in Tasks : sstat[t] = None
    /\ sstat' = [t \in Tasks |-> "READY"]
    /\ srow' = [x \in Tasks \X Parties |-> IF x[2] \in PartiesOf(x[1]) THEN "READY" ELSE None]
    /\ UNCHANGED <<sjob, partyVars, roundVars, callVars, faults, stops>>
-----------------------------------------------------------------------------
(* Stopping a job *)

\* stop_all_job, when the parties have been told: the job is FINISHED, and every task
\* that runs anywhere FAILED.
Stopped ==
    LET running == {x \in Tasks \X Parties : srow[x] = "RUNNING"}
    IN  /\ sjob' = JobMoved(sjob, "FINISHED")
        /\ srow' = [x \in Tasks \X Parties |-> IF x \in running THEN "FAILED" ELSE srow[x]]
        /\ sstat' = [t \in Tasks |->
                       IF \E x \in running : x[1] = t THEN TaskMoved(sstat[t], "FAILED") ELSE sstat[t]]

AskToStop ==
    /\ calls' = [calls EXCEPT !["stop"] = Stop(All)] /\ stopping' = TRUE
    /\ UNCHANGED <<try, bad>>

\* A user of the party p: the party stops its tasks, then asks the scheduler to stop all.
RequestStop(p) ==
    /\ stops < MaxStops /\ stops' = stops + 1
    /\ ~stopping /\ \E r \in RolesAt(p) : pjob[r] # None
    /\ StopJob(p, All)
    /\ \/ AskToStop /\ UNCHANGED faults
       \/ UNCHANGED callVars /\ Spend(1)
    /\ UNCHANGED <<schedulerVars, roundVars>>

\* Mutant: is_running finds a container that has ended.
M_Gone(x) == box[x] = None
Gone(x) == box[x] \in {None, "dead"}

\* A task is RUNNING whose container is not: the party has the whole job stopped.
DetectRunning(x) ==
    /\ row[x] = "RUNNING" /\ Gone(x)
    /\ ~stopping /\ sjob # "FINISHED"
    /\ AskToStop
    /\ UNCHANGED <<schedulerVars, partyVars, roundVars, faults, stops>>

StopAll ==
    /\ stopping /\ Ready("stop")
    /\ Stopped
    /\ stopping' = FALSE /\ bad' = [bad EXCEPT !["stop"] = FALSE]
    /\ UNCHANGED <<partyVars, roundVars, calls, try, faults, stops>>
-----------------------------------------------------------------------------
(* Rounds *)

StartReadyJob ==
    /\ at = "idle" /\ sjob = "READY"
    /\ at' = "starting"
    /\ Send("round", To("start job", Parties, All))
    /\ UNCHANGED <<schedulerVars, partyVars, left, mem, code, stopping, faults, stops>>

\* The job is RUNNING whatever the parties answered.
JobStarted ==
    /\ at = "starting" /\ Ready("round")
    /\ at' = "idle" /\ sjob' = JobMoved(sjob, "RUNNING")
    /\ UNCHANGED <<sstat, srow, partyVars, left, mem, code, callVars, faults, stops>>

\* A round of a job without tasks ends in an exception and changes nothing.
BeginRound ==
    /\ at = "idle" /\ sjob = "RUNNING" /\ \A t \in Tasks : sstat[t] # None
    /\ at' = "tasks" /\ left' = TaskSeq /\ mem' = sstat /\ code' = "no next"
    /\ UNCHANGED <<schedulerVars, partyVars, callVars, faults, stops>>

\* Only a task that runs is polled.
VisitTask ==
    /\ at = "tasks" /\ Ready("round") /\ left # <<>>
    /\ at' = "sync"
    /\ Send("round", IF mem[Head(left)] = "RUNNING" THEN To("poll", Parties, Head(left)) ELSE <<>>)
    /\ UNCHANGED <<schedulerVars, partyVars, left, mem, code, stopping, faults, stops>>

FederatedTaskStatus(t) == TaskStatusOver({srow[<<t, p>>] : p \in PartiesOf(t)})

\* The status of the task over its parties; a task that has ended is stopped everywhere, one
\* that has failed in every round.
SyncTask ==
    LET t == Head(left)
        new == FederatedTaskStatus(t)
    IN  /\ at = "sync" /\ Ready("round")
        /\ mem' = [mem EXCEPT ![t] = new]
        /\ sstat' = [sstat EXCEPT ![t] = TaskMoved(@, new)]
        /\ Send("round", IF new = "FAILED" \/ (new # mem[t] /\ new \in EndStatus) THEN Stop(t) ELSE <<>>)
        /\ at' = "tasks" /\ left' = Tail(left)
        /\ UNCHANGED <<sjob, srow, partyVars, code, stopping, faults, stops>>

\* Unless a task has failed, all are considered.
TasksSynced ==
    /\ at = "tasks" /\ Ready("round") /\ left = <<>>
    /\ at' = "start"
    /\ left' = IF \E t \in Tasks : mem[t] = "FAILED" THEN <<>> ELSE TaskSeq
    /\ UNCHANGED <<schedulerVars, partyVars, mem, code, callVars, faults, stops>>

\* Mutant: a task is held back only by a dependency that has failed.
M_Startable(t) == \A d \in Deps[t] : mem[d] # "FAILED"

Startable(t) == \A d \in Deps[t] : mem[d] = "SUCCESS"

\* Of those only the ones that are READY: waiting_tasks.
StartNext ==
    /\ at = "start" /\ Ready("round") /\ left # <<>>
    /\ IF mem[Head(left)] = "READY" /\ Startable(Head(left))
       THEN /\ at' = "started" /\ code' = "have next" /\ UNCHANGED left
            /\ Send("round", To("start task", PartiesOf(Head(left)), Head(left)))
       ELSE left' = Tail(left) /\ UNCHANGED <<at, code, calls, try, bad>>
    /\ UNCHANGED <<schedulerVars, partyVars, mem, stopping, faults, stops>>

\* When all parties have started the task it is RUNNING.  Otherwise it is FAILED, but in
\* the memory of this round only, and stopped at all parties.
TaskStarted ==
    LET t == Head(left)
        Run(s) == IF bad["round"] THEN s ELSE TaskMoved(s, "RUNNING")
    IN  /\ at = "started" /\ Ready("round")
        /\ at' = "start" /\ left' = Tail(left)
        /\ sstat' = [sstat EXCEPT ![t] = Run(@)]
        /\ srow' = [x \in Tasks \X Parties |-> IF x[1] = t THEN Run(srow[x]) ELSE srow[x]]
        /\ IF bad["round"]
           THEN code' = "failed" /\ mem' = [mem EXCEPT ![t] = "FAILED"] /\ Send("round", Stop(t))
           ELSE UNCHANGED <<code, mem, calls, try, bad>>
        /\ UNCHANGED <<sjob, partyVars, stopping, faults, stops>>

\* calculate_job_status; the status of a task when all tasks have the same.
JobStatusOver(S) ==
    CASE Cardinality(S) = 1 -> CHOOSE s \in S : TRUE
      [] Cardinality(S) > 1 /\ ("RUNNING" \in S \/ ("READY" \in S /\ code = "have next")) -> "RUNNING"
      [] OTHER -> IF "FAILED" \in S THEN "FAILED" ELSE "exception"

\* SUCCESS and FAILED are no statuses of a job: they end the job, which is then FINISHED.
Conclude ==
    /\ at = "start" /\ Ready("round") /\ left = <<>>
    /\ IF JobStatusOver(Range(mem)) \in EndStatus
       THEN at' = "finish" /\ Send("round", Stop(All))
       ELSE at' = "idle" /\ UNCHANGED <<calls, try, bad>>
    /\ code' = "no next"
    /\ UNCHANGED <<schedulerVars, partyVars, left, mem, stopping, faults, stops>>

Finish ==
    /\ at = "finish" /\ Ready("round")
    /\ at' = "idle"
    /\ Stopped
    /\ UNCHANGED <<partyVars, left, mem, code, callVars, faults, stops>>

Round ==
    \/ StartReadyJob \/ JobStarted \/ BeginRound \/ VisitTask \/ SyncTask
    \/ TasksSynced \/ StartNext \/ TaskStarted \/ Conclude \/ Finish

Next ==
    \/ SubmitJob \/ CreateTasks \/ StopAll \/ Round
    \/ \E th \in Threads : Answered(th) \/ Unanswered(th)
    \/ \E p \in Parties : RequestStop(p)
    \/ \E x \in Runs : Kill(x) \/ RunComponent(x) \/ PushOutput(x) \/ ReportStatus(x) \/ DetectRunning(x)

Spec == Init /\ [][Next]_vars

\* The scheduler and the detectors are loops that never end; the threads of requests, of
\* stop_task and the containers get on by themselves, and so does a call (a request or an
\* answer is lost only finitely often).
FairSpec ==
    /\ Spec /\ WF_vars(Round) /\ WF_vars(CreateTasks) /\ WF_vars(StopAll)
    /\ \A th \in Threads : WF_vars(Answered(th) \/ Unanswered(th))
    /\ \A x \in Runs : /\ WF_vars(Kill(x)) /\ WF_vars(DetectRunning(x))
                      /\ WF_vars(RunComponent(x) \/ PushOutput(x) \/ ReportStatus(x))
-----------------------------------------------------------------------------
(* Properties *)

Call == [op : {"create", "start job", "start task", "poll", "stop"}, p : Parties, t : Tasks \cup {All}]

\* Types; a round visits tasks of the job only, and no thread tries a call too often.
TypeOK ==
    /\ sjob \in JobStatus \cup {None} /\ sstat \in [Tasks -> TaskStatus \cup {None}]
    /\ srow \in [Tasks \X Parties -> TaskStatus \cup {None}]
    /\ pjob \in [Roles -> JobStatus \cup {None}] /\ row \in [Runs -> TaskStatus \cup {None}]
    /\ box \in [Runs -> {None, "work", "push", "ok", "failed", "dead"}]
    /\ outs \subseteq Runs /\ killing \subseteq Runs
    /\ at \in {"idle", "starting", "tasks", "sync", "start", "started", "finish"}
    /\ left \in Seq(Tasks) /\ mem \in [Tasks -> TaskStatus \cup {None}]
    /\ code \in {"no next", "have next", "failed"}
    /\ calls \in [Threads -> Seq(Call)] /\ try \in [Threads -> 1..TryTimes]
    /\ bad \in [Threads -> BOOLEAN] /\ stopping \in BOOLEAN
    /\ faults \in 0..MaxFaults /\ stops \in 0..MaxStops

\* The scheduler counts a task as SUCCESS only when every role has run it to the end and
\* has stored its outputs, however its reports, polls and stops interleave.
SuccessIsReal ==
    \A t \in Tasks : sstat[t] = "SUCCESS" => \A r \in RolesOf[t] : row[<<t, r>>] = "SUCCESS" /\ <<t, r>> \in outs

\* A component starts only when all its inputs are in the store.
InputsBeforeRun ==
    \A x \in Runs : box[x] = "work" => \A d \in Inputs(x) : <<d, x[2]>> \in outs

\* When the job ends by itself and no call was lost, no container of it is left running that
\* is not being killed: a task that fails at one party is stopped at the others first.
EndLeavesNothingRunning ==
    sjob = "FINISHED" /\ faults = 0 /\ stops = 0 =>
        \A x \in Runs : box[x] \in {"work", "push", "ok", "failed"} => x \in killing

\* The end of a job is what it says: types, and the two above.
BfiaInv == TypeOK /\ SuccessIsReal /\ EndLeavesNothingRunning

\* When its tasks could be created, the job is FINISHED some day at the scheduler.
EveryJobEnds == (\E t \in Tasks : sstat[t] # None) ~> (sjob = "FINISHED")
=============================================================================
