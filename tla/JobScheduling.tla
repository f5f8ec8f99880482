---------------------------- MODULE JobScheduling ----------------------------
(***************************************************************************)
(* One job, from when it waits until it has ended: the rounds of the       *)
(* scheduler (scheduler/scheduler.py), the rows of the job and of its      *)
(* tasks at the scheduler and at every party (controller/job.py,           *)
(* controller/task.py), and the requests to stop it.                       *)
(*                                                                         *)
(* A federated command reaches all the parties in one step, and a party    *)
(* handles it in one step (module PartyTask has what happens in between).  *)
(* Each party may miss a command, or carry it out and its answer or its    *)
(* report gets lost.  A task has one version: it is not run again.         *)
(***************************************************************************)
EXTENDS FlowStatus, FiniteSets

CONSTANTS
    Parties, Tasks,
    Jobs,       \* the jobs: the tasks whose outputs each task takes (deps), the mode (sync),
                \* the most commands, answers and reports that get lost (lost), and the most
                \* crashes of the scheduler's server in a round (crashes)
    Cancelers   \* the parties whose users ask to stop the job

ASSUME JobAssumption ==
    /\ IsFiniteSet(Parties) /\ Parties # {} /\ IsFiniteSet(Tasks) /\ Tasks # {}
    /\ Jobs \subseteq [deps : [Tasks -> SUBSET Tasks], sync : {"callback", "poll"},
                       lost : Nat, crashes : Nat]
    /\ Cancelers \subseteq Parties

VARIABLES
    job,      \* the job; job.sync is Task.f_sync_type
    sjob,     \* ScheduleJob.f_status
    cancel,   \* ScheduleJob.f_cancel_signal
    agg,      \* ScheduleTaskStatus.f_status: of a task over all parties
    st,       \* ScheduleTask.f_status: of a task at a party, as the scheduler knows it
    pjob,     \* Job.f_status, at each party
    fs,       \* Task.f_status: of a task over all parties, as the party knows it
    ts,       \* Task.f_party_status
    alive,    \* the processes of tasks
    pc,       \* where the round of the scheduler is
    todo,     \* the tasks it has not looked at yet
    cur,      \* the task it is at
    canceled, \* the cancel signal it has read
    mem,      \* the statuses of the tasks in its memory
    code,     \* its SchedulingStatusCode
    asked,    \* the parties whose request has stopped the job at home, or is done
    lost,     \* number of losses
    crashes   \* number of crashes

schedVars == <<sjob, cancel, agg, st>>
partyVars == <<pjob, fs, ts, alive>>
fixed == <<crashes, job>>
roundVars == <<pc, todo, cur, canceled, mem, code>>
vars == <<schedVars, partyVars, roundVars, asked, lost, crashes, job>>

Copies == Parties \X Tasks
Of(t) == Parties \X {t}

TaskMoved(s, new) == IF TaskMayBecome(s, new) THEN new ELSE s
JobMoved(s, new) == IF JobMayBecome(s, new) THEN new ELSE s
Update(f, X, s) == [x \in DOMAIN f |-> IF x \in X THEN TaskMoved(f[x], s) ELSE f[x]]

Lose(n) == lost + n <= job.lost /\ lost' = lost + n
Losses == {P \in SUBSET Parties : lost + Cardinality(P) <= job.lost}
LostReports(X) ==
    IF job.sync = "callback"
    THEN {Y \in SUBSET X : lost + Cardinality(Y) <= job.lost}
    ELSE {{}}

\* The parties report what they were asked to set, taken or refused, for the copies X.
Report(f, X, s) == IF job.sync = "callback" THEN Update(f, X, s) ELSE f

Init ==
    /\ job \in Jobs
    /\ sjob = WAITING /\ cancel = FALSE
    /\ agg = [t \in Tasks |-> WAITING]
    /\ st = [x \in Copies |-> WAITING]
    /\ pjob = [p \in Parties |-> WAITING]
    /\ fs = [x \in Copies |-> WAITING]
    /\ ts = [x \in Copies |-> WAITING]
    /\ alive = {}
    /\ pc = "idle" /\ todo = {} /\ cur = "none" /\ canceled = FALSE
    /\ mem = [t \in Tasks |-> WAITING] /\ code = "none"
    /\ asked = [p \in Cancelers |-> "no"]
    /\ lost = 0 /\ crashes = 0
-----------------------------------------------------------------------------
(* Commands at the parties *)

\* stop_task, with the status s, for the copies X of tasks.
StopTasks(X, s, unreported) ==
    /\ ts' = Update(ts, X, s)
    /\ alive' = alive \ X
    /\ st' = Report(st, X \ unreported, s)

\* Mutant: the tasks that are RUNNING are left alone.
M_ToStop(P) ==
    {x \in Copies : x[1] \in P /\ fs[x] \notin {SUCCESS, WAITING, PASS, RUNNING}}

\* stop_job of controller/job.py leaves alone the tasks that, over all the parties,
\* wait or have succeeded.
ToStop(P) == {x \in Copies : x[1] \in P /\ fs[x] \notin {SUCCESS, WAITING, PASS}}

\* The parties P stop the job; those in stuck fail to kill a process and keep the
\* status of the job.
JobsStopped(P, stuck, s) ==
    pjob' = [p \in Parties |-> IF p \in P \ stuck THEN JobMoved(pjob[p], s) ELSE pjob[p]]

\* sync_job_status
JobsSynced(P, s) ==
    pjob' = [p \in Parties |-> IF p \in P THEN JobMoved(pjob[p], s) ELSE pjob[p]]

\* The scheduler's stop_job: the parties are told to stop the job, not with which
\* status, and take FAILED.  If one does not answer, the tasks are collected, and
\* given the status of the stop where that is not answered either.
StopJob(s) ==
    /\ cancel' = (cancel \/ s = CANCELED)
    /\ \E missed \in Losses, unanswered, stuck \in Losses :
         /\ missed \cap (unanswered \cup stuck) = {}
         /\ \E unreported \in LostReports(ToStop(Parties \ missed)),
               deaf \in SUBSET (missed \cup unanswered) :
              LET reached == Parties \ missed
                  failed == missed \cup unanswered \cup stuck
                  told == Report(st, ToStop(reached) \ unreported, FAILED)
              IN
              /\ JobsStopped(reached, stuck, FAILED)
              /\ ts' = Update(ts, ToStop(reached), FAILED)
              /\ alive' = alive \ ToStop(reached)
              /\ st' = [x \in Copies |->
                           IF failed = {} THEN told[x]
                           ELSE IF x[1] \in deaf THEN TaskMoved(told[x], s)
                           ELSE TaskMoved(told[x], ts'[x])]
              /\ Lose(Cardinality(missed) + Cardinality(unanswered) + Cardinality(stuck)
                      + Cardinality(unreported))
    /\ UNCHANGED fs
-----------------------------------------------------------------------------
(* Waiting jobs *)

\* run_do: the job is read, and then locked.
Pick ==
    /\ pc = "idle" /\ sjob \in {WAITING, RUNNING}
    /\ pc' = IF sjob = WAITING THEN "begin" ELSE "look"
    /\ canceled' = cancel
    /\ mem' = agg /\ todo' = Tasks /\ code' = "none"
    /\ UNCHANGED <<schedVars, partyVars, cur, asked, lost, fixed>>

\* schedule_waiting_jobs
CancelWaiting ==
    /\ pc = "begin" /\ canceled
    /\ \E missed \in Losses :
         /\ JobsSynced(Parties \ missed, CANCELED)
         /\ Lose(Cardinality(missed))
    /\ sjob' = CANCELED
    /\ pc' = "idle"
    /\ UNCHANGED <<cancel, agg, st, fs, ts, alive, todo, cur, canceled, mem, code, asked, fixed>>

\* The cores for the job are not granted.
NotGranted ==
    /\ pc = "begin" /\ ~canceled
    /\ pc' = "idle"
    /\ UNCHANGED <<schedVars, partyVars, todo, cur, canceled, mem, code, asked, lost, fixed>>

\* start_job: RUNNING, whatever the parties answer.
StartJob ==
    /\ pc = "begin" /\ ~canceled
    /\ \E missed \in Losses :
         /\ JobsSynced(Parties \ missed, RUNNING)
         /\ Lose(Cardinality(missed))
    /\ sjob' = JobMoved(sjob, RUNNING)
    /\ pc' = "idle"
    /\ UNCHANGED <<cancel, agg, st, fs, ts, alive, todo, cur, canceled, mem, code, asked, fixed>>
-----------------------------------------------------------------------------
(* Running jobs: TaskScheduler.schedule *)

\* collect_task_of_all_party, in poll mode.
Look(t) ==
    /\ pc = "look" /\ t \in todo
    /\ \E missed \in IF job.sync = "poll" THEN Losses ELSE {{}} :
         /\ st' = [x \in Copies |->
                      IF job.sync = "poll" /\ x[2] = t /\ x[1] \notin missed
                      THEN TaskMoved(st[x], ts[x])
                      ELSE st[x]]
         /\ Lose(Cardinality(missed))
    /\ pc' = "judge" /\ cur' = t /\ todo' = todo \ {t}
    /\ UNCHANGED <<sjob, cancel, agg, partyVars, canceled, mem, code, asked, fixed>>

Looked == pc' = IF todo = {} THEN "start" ELSE "look"

\* The status of the task over all parties is calculated and, if it is new, sent to
\* the parties; when it has ended, or is still an interrupt, the task is stopped.
Judge ==
    LET new == FederatedTaskStatus({st[x] : x \in Of(cur)})
        changed == new # mem[cur]
    IN
    /\ pc = "judge"
    /\ mem' = [mem EXCEPT ![cur] = new]
    /\ \E missed \in IF changed THEN Losses ELSE {{}} :
         /\ fs' = IF changed THEN Update(fs, (Parties \ missed) \X {cur}, new) ELSE fs
         /\ Lose(Cardinality(missed))
    /\ agg' = [agg EXCEPT ![cur] = IF changed THEN TaskMoved(@, new) ELSE @]
    /\ IF (changed /\ new \in EndStatus) \/ new \in InterruptStatus
       THEN pc' = "halt"
       ELSE Looked
    /\ UNCHANGED <<sjob, cancel, st, pjob, ts, alive, todo, cur, canceled, code, asked, fixed>>

Halt ==
    /\ pc = "halt"
    /\ \E missed \in Losses :
         LET X == (Parties \ missed) \X {cur} IN
         \E unreported \in LostReports(X) :
             /\ StopTasks(X, mem[cur], unreported)
             /\ Lose(Cardinality(missed) + Cardinality(unreported))
    /\ Looked
    /\ UNCHANGED <<sjob, cancel, agg, pjob, fs, todo, cur, canceled, mem, code, asked, fixed>>

Interrupted == \E t \in Tasks : mem[t] \in InterruptStatus

\* Mutant: the upstream tasks need only have begun.
M_Startable ==
    IF canceled \/ Interrupted THEN {}
    ELSE {t \in Tasks : mem[t] = WAITING /\ \A u \in job.deps[t] : mem[u] # WAITING}

Startable ==
    IF canceled \/ Interrupted THEN {}
    ELSE {t \in Tasks : mem[t] = WAITING /\ \A u \in job.deps[t] : mem[u] = SUCCESS}

NothingToStart ==
    /\ pc = "start" /\ Startable = {}
    /\ pc' = "conclude"
    /\ UNCHANGED <<schedVars, partyVars, todo, cur, canceled, mem, code, asked, lost, fixed>>

\* apply_task_resource: the cores for the task are not granted, this round is over.
NoResource ==
    /\ pc = "start" /\ Startable # {}
    /\ code' = "next" /\ pc' = "conclude"
    /\ UNCHANGED <<schedVars, partyVars, todo, cur, canceled, mem, asked, lost, fixed>>

\* start_task: the cores are granted, the task is RUNNING.
Grant(t) ==
    /\ pc = "start" /\ t \in Startable
    /\ mem' = [mem EXCEPT ![t] = RUNNING]
    /\ agg' = [agg EXCEPT ![t] = TaskMoved(@, RUNNING)]
    /\ \E missed \in Losses :
         /\ fs' = Update(fs, (Parties \ missed) \X {t}, RUNNING)
         /\ Lose(Cardinality(missed))
    /\ code' = "next" /\ cur' = t /\ pc' = "launch"
    /\ UNCHANGED <<sjob, cancel, st, pjob, ts, alive, todo, canceled, asked, fixed>>

\* The parties start the task; broken ones cannot spawn the process and set it to
\* FAILED.
Launch ==
    /\ pc = "launch"
    /\ \E missed, unanswered \in Losses, broken \in SUBSET Parties :
         LET X == (Parties \ missed) \X {cur}
             bad == broken \X {cur}
         IN
         /\ missed \cap (unanswered \cup broken) = {}
         /\ \E unreported \in LostReports(X) :
              /\ alive' = alive \cup (X \ bad)
              /\ ts' = Update(Update(ts, X, RUNNING), bad, FAILED)
              /\ st' = Report(Report(st, X \ unreported, RUNNING), bad \ unreported, FAILED)
              /\ Lose(Cardinality(missed) + Cardinality(unanswered) + Cardinality(unreported))
         /\ pc' = IF missed \cup unanswered \cup broken = {} THEN "start" ELSE "failed"
    /\ UNCHANGED <<sjob, cancel, agg, pjob, fs, todo, cur, canceled, mem, code, asked, fixed>>

\* Without success everywhere the task is FAILED for the rest of the round, and the
\* parties are told so.
StartFailed ==
    /\ pc = "failed"
    /\ mem' = [mem EXCEPT ![cur] = FAILED]
    /\ \E missed \in Losses :
         /\ fs' = Update(fs, (Parties \ missed) \X {cur}, FAILED)
         /\ Lose(Cardinality(missed))
    /\ code' = "failed" /\ pc' = "conclude"
    /\ UNCHANGED <<schedVars, pjob, ts, alive, todo, cur, canceled, asked, fixed>>
-----------------------------------------------------------------------------
(* Running jobs: schedule_running_job after the tasks *)

\* Mutant: a canceled job whose tasks all wait is left to wait.
M_NewJobStatus == FederatedJobStatus(code = "next", {mem[t] : t \in Tasks})

NewJobStatus ==
    LET new == FederatedJobStatus(code = "next", {mem[t] : t \in Tasks}) IN
    IF new = WAITING /\ canceled THEN CANCELED ELSE new

Conclude ==
    /\ pc = "conclude"
    /\ IF NewJobStatus # RUNNING
       THEN /\ \E missed \in Losses :
                 /\ JobsSynced(Parties \ missed, NewJobStatus)
                 /\ Lose(Cardinality(missed))
            /\ sjob' = JobMoved(sjob, NewJobStatus)
       ELSE UNCHANGED <<pjob, sjob, lost>>
    /\ pc' = IF NewJobStatus \in EndStatus THEN "finish" ELSE "idle"
    /\ UNCHANGED <<cancel, agg, st, fs, ts, alive, todo, cur, canceled, mem, code, asked, fixed>>

\* Mutant: a job that has ended is only said to have ended.
M_Finish ==
    /\ pc = "finish"
    /\ pc' = "idle"
    /\ UNCHANGED <<schedVars, partyVars, todo, cur, canceled, mem, code, asked, lost, fixed>>

Finish ==
    /\ pc = "finish"
    /\ StopJob(NewJobStatus)
    /\ pc' = "idle"
    /\ UNCHANGED <<sjob, agg, todo, cur, canceled, mem, code, asked, fixed>>
\* The scheduler's server dies in a round and is started again.  The lock of the job
\* runs out (module ScheduleLock) and the next round begins with what is in the rows.
Crash ==
    /\ crashes < job.crashes /\ pc # "idle"
    /\ crashes' = crashes + 1
    /\ pc' = "idle" /\ todo' = {} /\ cur' = "none" /\ canceled' = FALSE
    /\ mem' = [t \in Tasks |-> WAITING] /\ code' = "none"
    /\ UNCHANGED <<schedVars, partyVars, asked, lost, job>>
-----------------------------------------------------------------------------
(* Processes and requests *)

\* A process reports how it ended.
End(x, s) ==
    /\ x \in alive
    /\ alive' = alive \ {x}
    /\ ts' = Update(ts, {x}, s)
    /\ \E unreported \in LostReports({x}) :
         /\ st' = Report(st, {x} \ unreported, s)
         /\ Lose(Cardinality(unreported))
    /\ UNCHANGED <<sjob, cancel, agg, pjob, fs, roundVars, asked, fixed>>

\* Or it is killed by the system.
Vanish(x) ==
    /\ x \in alive
    /\ alive' = alive \ {x}
    /\ UNCHANGED <<schedVars, pjob, fs, ts, roundVars, asked, lost, fixed>>

Dead == {x \in Copies : ts[x] = RUNNING /\ x \notin alive}

\* The detector of a party finds that and asks the scheduler to stop the job.
Detect ==
    /\ Dead # {}
    /\ StopJob(FAILED)
    /\ UNCHANGED <<sjob, agg, roundVars, asked, fixed>>

\* request_stop_job: first the party stops the job at home ...
StopAtHome(p) ==
    /\ asked[p] = "no"
    /\ JobsStopped({p}, {}, CANCELED)
    /\ \E unreported \in LostReports(ToStop({p})) :
         /\ StopTasks(ToStop({p}), CANCELED, unreported)
         /\ Lose(Cardinality(unreported))
    /\ asked' = [asked EXCEPT ![p] = "home"]
    /\ UNCHANGED <<sjob, cancel, agg, fs, roundVars, fixed>>

\* ... and then the scheduler is asked to.
StopEverywhere(p) ==
    /\ asked[p] = "home"
    /\ StopJob(CANCELED)
    /\ asked' = [asked EXCEPT ![p] = "done"]
    /\ UNCHANGED <<sjob, agg, roundVars, fixed>>

RequestLost(p) ==
    /\ asked[p] = "home"
    /\ Lose(1)
    /\ asked' = [asked EXCEPT ![p] = "done"]
    /\ UNCHANGED <<schedVars, partyVars, roundVars, fixed>>
-----------------------------------------------------------------------------
Round ==
    \/ Pick \/ CancelWaiting \/ StartJob
    \/ \E t \in Tasks : Look(t) \/ Grant(t)
    \/ Judge \/ Halt \/ NothingToStart \/ Launch \/ StartFailed \/ Conclude \/ Finish

Next ==
    \/ Round \/ NotGranted \/ NoResource \/ Crash
    \/ \E x \in Copies : End(x, SUCCESS) \/ End(x, FAILED) \/ Vanish(x)
    \/ Detect
    \/ \E p \in Cancelers : StopAtHome(p) \/ StopEverywhere(p) \/ RequestLost(p)

Spec == Init /\ [][Next]_vars

\* The rounds go on; a process ends one way or another; the detector comes round; a
\* request that has begun goes on.  Cores are granted once in a while.
Fairness ==
    /\ WF_vars(Round)
    /\ SF_vars(StartJob \/ CancelWaiting)
    /\ \A t \in Tasks : SF_vars(Grant(t))
    /\ \A x \in Copies : WF_vars(End(x, SUCCESS) \/ End(x, FAILED) \/ Vanish(x))
    /\ WF_vars(Detect)
    /\ \A p \in Cancelers : WF_vars(StopEverywhere(p) \/ RequestLost(p))

FairSpec == Spec /\ Fairness
-----------------------------------------------------------------------------
TypeOK ==
    /\ job \in Jobs
    /\ sjob \in JobStatus /\ cancel \in BOOLEAN
    /\ agg \in [Tasks -> TaskStatus] /\ st \in [Copies -> TaskStatus]
    /\ pjob \in [Parties -> JobStatus]
    /\ fs \in [Copies -> TaskStatus] /\ ts \in [Copies -> TaskStatus]
    /\ alive \subseteq Copies
    /\ pc \in {"idle", "begin", "look", "judge", "halt", "start", "launch", "failed",
              "conclude", "finish"}
    /\ todo \subseteq Tasks /\ cur \in Tasks \cup {"none"}
    /\ canceled \in BOOLEAN /\ mem \in [Tasks -> TaskStatus]
    /\ code \in {"none", "next", "failed"}
    /\ asked \in [Cancelers -> {"no", "home", "done"}]
    /\ lost \in 0..job.lost /\ crashes \in 0..job.crashes

\* Some party's word of the start of a task has got through.  A task that has failed, and
\* was started without a word from anybody, is started again, and when the process reports
\* SUCCESS the party keeps its FAILED, and passes the SUCCESS on to the scheduler.
Heard == job.sync = "poll" \/ lost < Cardinality(Parties)

Succeeded(t) == \A x \in Of(t) : ts[x] = SUCCESS

\* A task is started only when the tasks it takes its inputs from have succeeded at
\* every party, whatever the scheduler has been told and however late.
DependenciesFirst ==
    [][Heard => \A x \in alive' \ alive : \A u \in job.deps[x[2]] : Succeeded(u)]_vars

\* A job is SUCCESS, at the scheduler or at any party, only when every task is SUCCESS
\* at every party.
SuccessIsReal ==
    Heard /\ (sjob = SUCCESS \/ \E p \in Parties : pjob[p] = SUCCESS) => \A t \in Tasks : Succeeded(t)

\* When a round has ended the job, every party has heard of it: both the status and the
\* stop say so, and one loss does not leave a party with a job, and its cores, for ever.
\* If nothing has got lost no process is left either.
EndReachesParties ==
    sjob \in EndStatus /\ pc = "idle" /\ lost + crashes <= 1
        => /\ \A p \in Parties : pjob[p] \in EndStatus
           /\ lost + crashes = 0 => alive = {}

\* The rows of the scheduler and of the parties agree where it matters.
JobInv == TypeOK /\ SuccessIsReal /\ EndReachesParties

\* Reports that all arrive.  Without them the scheduler may wait for the answer of a
\* task that has ended, or start one again that it never saw RUNNING.
Sound == job.sync = "callback" /\ job.lost = 0 /\ job.crashes = 0

\* A job comes to its end, whatever its tasks do, whoever cancels it, and whenever:
\* before it starts, between two tasks, or in a round that has not seen it.
EveryJobEnds == Sound ~> (sjob \in EndStatus)

\* A task whose process has died does not stay RUNNING: the detector's request comes
\* back to the party, and the job does not wait for the task for ever.
DeadTasksEnd == (Sound /\ Dead # {}) ~> (Dead = {})
=============================================================================
