------------------------------ MODULE JobRerun ------------------------------
(***************************************************************************)
(* Running a job again: the versions of its tasks, the automatic retries   *)
(* of the scheduler, the requests of users to run the job again, which     *)
(* take no lock, and the cores the job holds while it does                 *)
(* (scheduler/scheduler.py, controller/task.py).                           *)
(*                                                                         *)
(* A round of the scheduler is two steps here, its tasks and then its job; *)
(* module JobScheduling has its inside, and what gets lost of the reports: *)
(* this module lets the scheduler see the statuses at the parties.  What   *)
(* may get lost is a command that ends, creates or wakes something.        *)
(***************************************************************************)
EXTENDS FlowStatus, FiniteSets

CONSTANTS
    Parties, Tasks,
    Deps,        \* the tasks whose outputs a task takes
    Users,       \* those who ask once to run the job again
    AutoRetries, \* ScheduleTaskStatus.f_auto_retries of the first version
    MaxVersion,  \* bound on the versions of a task
    MaxTrouble   \* bound on the commands and answers that get lost and the requests
                 \* to cancel the job, together

ASSUME RerunAssumption ==
    /\ IsFiniteSet(Parties) /\ Parties # {} /\ IsFiniteSet(Tasks) /\ Tasks # {}
    /\ Deps \in [Tasks -> SUBSET Tasks]
    /\ "scheduler" \notin Users
    /\ {AutoRetries, MaxVersion, MaxTrouble} \subseteq Nat

VARIABLES
    sjob,    \* ScheduleJob.f_status
    rerun,   \* ScheduleJob.f_rerun_signal
    cancel,  \* ScheduleJob.f_cancel_signal
    sv,      \* ScheduleTaskStatus.f_status, of every version of every task
    left,    \* ScheduleTaskStatus.f_auto_retries
    ts,      \* Task.f_party_status, of every version at every party
    pjob,    \* Job.f_status, at each party
    held,    \* the parties where the job holds its cores (Job.f_resource_in_use)
    pc,      \* where the scheduler's thread and those of the users' requests are
    list,    \* the rows of the tasks a thread has read and has still to run again
    at,      \* the version a thread is creating
    round,   \* what the round of the scheduler has in memory
    lost, cancels

rows == <<sv, left>>
partyVars == <<ts, pjob, held>>
threadVars == <<pc, list, at>>
counts == <<lost, cancels>>
vars == <<sjob, rerun, cancel, rows, partyVars, threadVars, round, counts>>

Threads == Users \cup {"scheduler"}
Versions == 0..MaxVersion
Rows == Tasks \X Versions
Copies == Parties \X Rows
None == "none"

TaskMoved(s, new) == IF TaskMayBecome(s, new) THEN new ELSE s
JobMoved(s, new) == IF JobMayBecome(s, new) THEN new ELSE s
Losses == {P \in SUBSET Parties : lost + cancels + Cardinality(P) <= MaxTrouble}
Lose(P) == lost + cancels + Cardinality(P) <= MaxTrouble /\ lost' = lost + Cardinality(P)

\* _query_task: of the rows with one of the statuses, the latest of the task.
Latest(t, statuses) ==
    CHOOSE v \in Versions :
        sv[<<t, v>>] \in statuses /\ \A w \in v+1..MaxVersion : sv[<<t, w>>] \notin statuses
Current(t) == Latest(t, TaskStatus)

Init ==
    /\ sjob = WAITING /\ rerun = FALSE /\ cancel = FALSE
    /\ sv = [r \in Rows |-> IF r[2] = 0 THEN WAITING ELSE None]
    /\ left = [r \in Rows |-> IF r[2] = 0 THEN AutoRetries ELSE 0]
    /\ ts = [x \in Copies |-> IF x[2][2] = 0 THEN WAITING ELSE None]
    /\ pjob = [p \in Parties |-> WAITING] /\ held = {}
    /\ pc = [th \in Threads |-> IF th \in Users THEN "idle" ELSE "waiting"]
    /\ list = [th \in Threads |-> {}]
    /\ at = [th \in Threads |-> [t |-> None, v |-> 0, retries |-> 0, tries |-> 3]]
    /\ round = [saw |-> WAITING, canceled |-> FALSE, next |-> FALSE, then |-> "waiting",
                mem |-> [t \in Tasks |-> WAITING]]
    /\ lost = 0 /\ cancels = 0
\* The phases of run_do: waiting jobs, running jobs, jobs with a rerun signal.
Go(phase) == pc' = [pc EXCEPT !["scheduler"] = phase]
-----------------------------------------------------------------------------
(* The job at the parties *)

Told(P, s) == [p \in Parties |-> IF p \in P THEN JobMoved(pjob[p], s) ELSE pjob[p]]

\* Mutant: a job that ends keeps its cores until the detector comes.
M_Returned(after) == {}

\* The parties where the job ends return its cores.
Returned(after) == {p \in Parties : after[p] # pjob[p] /\ after[p] \in EndStatus}

\* update_job_status at the parties P
JobSynced(P, s) ==
    /\ pjob' = Told(P, s)
    /\ held' = held \ Returned(Told(P, s))

\* stop_job at the parties P, which are not told with which status: the latest version
\* each has of a task is stopped.
RunningLatest(P) ==
    {x \in Copies : /\ x[1] \in P /\ ts[x] = RUNNING
                    /\ \A v \in Versions : v > x[2][2] => ts[<<x[1], <<x[2][1], v>>>>] = None}

Stopped(X, s) == [x \in Copies |-> IF x \in X THEN TaskMoved(ts[x], s) ELSE ts[x]]

\* The job waits for its cores and then starts, whatever the parties answer.  Cores it
\* still holds somewhere are not granted again.
StartJob ==
    /\ pc["scheduler"] = "waiting" /\ sjob = WAITING /\ ~cancel /\ held = {}
    /\ Go("running")
    /\ \E missed \in Losses :
         /\ pjob' = Told(Parties \ missed, RUNNING)
         /\ Lose(missed)
    /\ held' = Parties
    /\ sjob' = RUNNING
    /\ UNCHANGED <<rerun, cancel, rows, ts, list, at, round, cancels>>

CancelWaiting ==
    /\ pc["scheduler"] = "waiting" /\ sjob = WAITING /\ cancel
    /\ Go("running")
    /\ \E missed \in Losses : JobSynced(Parties \ missed, CANCELED) /\ Lose(missed)
    /\ sjob' = CANCELED
    /\ UNCHANGED <<rerun, cancel, rows, ts, list, at, round, cancels>>

\* The other phases of run_do: no job to schedule, or the cores are not granted.
Skip ==
    /\ \/ pc["scheduler"] = "waiting" /\ ~(sjob = WAITING /\ cancel) /\ Go("running")
       \/ pc["scheduler"] = "running" /\ sjob # RUNNING /\ Go("rerun")
       \/ pc["scheduler"] = "rerun" /\ ~rerun /\ Go("waiting")
    /\ UNCHANGED <<sjob, rerun, cancel, rows, partyVars, list, at, round, counts>>

\* The detector returns what a job that has ended still holds.
ReturnUnused(p) ==
    /\ p \in held /\ pjob[p] \in EndStatus
    /\ held' = held \ {p}
    /\ UNCHANGED <<sjob, rerun, cancel, rows, ts, pjob, threadVars, round, counts>>
-----------------------------------------------------------------------------
(* Rounds *)

Status(t) == FederatedTaskStatus({ts[<<p, <<t, Current(t)>>>>] : p \in Parties})

Startable ==
    IF cancel \/ \E t \in Tasks : Status(t) \in InterruptStatus THEN {}
    ELSE {t \in Tasks : Status(t) = WAITING /\ \A u \in Deps[t] : Status(u) = SUCCESS}

\* The tasks that have failed and have retries left.
AutoRerun ==
    IF cancel THEN {}
    ELSE {t \in Tasks : Status(t) \in AutoRerunStatus /\ left[<<t, Current(t)>>] > 0}

\* TaskScheduler.schedule: every task is looked at, those that are interrupted are
\* stopped and those that can start do.
Schedule(then) ==
    LET cur == {<<u, Current(u)>> : u \in Tasks}
        toStart == {r \in cur : r[1] \in Startable}
        toStop == {r \in cur : Status(r[1]) \in InterruptStatus}
    IN
    /\ \E missed \in IF toStop = {} THEN {{}} ELSE Losses :
         /\ ts' = [x \in Copies |->
                     IF x[2] \in toStart THEN TaskMoved(ts[x], RUNNING)
                     ELSE IF x[2] \in toStop /\ x[1] \notin missed
                          THEN TaskMoved(ts[x], Status(x[2][1])) ELSE ts[x]]
         /\ Lose(missed)
    /\ sv' = [r \in Rows |->
                IF r \in toStart THEN RUNNING
                ELSE IF r \in cur THEN TaskMoved(sv[r], Status(r[1])) ELSE sv[r]]
    /\ round' = [saw |-> sjob, canceled |-> cancel, next |-> toStart # {}, then |-> then,
                 mem |-> [u \in Tasks |-> IF <<u, Current(u)>> \in toStart THEN RUNNING ELSE Status(u)]]
    /\ list' = [list EXCEPT !["scheduler"] =
                  {[t |-> u, v |-> Current(u), s |-> Status(u),
                    retries |-> left[<<u, Current(u)>>] - 1] : u \in AutoRerun}]
    /\ Go("conclude")
    /\ UNCHANGED <<sjob, cancel, left, pjob, held, at, cancels>>

ScheduleRunning ==
    /\ pc["scheduler"] = "running" /\ sjob = RUNNING
    /\ Schedule("rerun")
    /\ UNCHANGED rerun

\* schedule_rerun_job of a job that has not ended, whether it runs or still waits.
ScheduleRerun ==
    /\ pc["scheduler"] = "rerun" /\ rerun /\ sjob \notin EndStatus
    /\ Schedule("waiting")
    /\ rerun' = FALSE

NewJobStatus ==
    LET new == FederatedJobStatus(round.next, {round.mem[t] : t \in Tasks}) IN
    IF new = WAITING /\ round.canceled THEN CANCELED ELSE new

\* _update_status: a job that is to run again does not take FAILED or TIMEOUT.
RowMoved(new) == IF new \in {FAILED, TIMEOUT} /\ rerun THEN sjob ELSE JobMoved(sjob, new)

\* schedule_running_job after the tasks: the status, the end, the retries.
Conclude ==
    LET new == NewJobStatus
        changed == new # round.saw
    IN
    /\ pc["scheduler"] = "conclude"
    /\ sjob' = IF changed THEN RowMoved(new) ELSE sjob
    /\ cancel' = (cancel \/ new = CANCELED)
    /\ \E missed, deaf \in Losses :
         LET told == IF changed THEN Parties \ missed ELSE {}
             stop == IF new \in EndStatus THEN Parties \ deaf ELSE {}
             synced == Told(told, new)
             after == [p \in Parties |-> IF p \in stop THEN JobMoved(synced[p], FAILED) ELSE synced[p]]
         IN
         /\ pjob' = after
         /\ held' = held \ Returned(after)
         /\ ts' = Stopped(RunningLatest(stop), FAILED)
         /\ lost + cancels + Cardinality(missed) + Cardinality(deaf) <= MaxTrouble
         /\ lost' = lost + Cardinality(missed) + Cardinality(deaf)
    /\ Go(IF list["scheduler"] = {} THEN round.then ELSE "again")
    /\ UNCHANGED <<rerun, rows, list, at, round, cancels>>
-----------------------------------------------------------------------------
(* rerun_job, by the scheduler for the retries or by a user's request *)

Over(th) == [pc EXCEPT ![th] = IF th \in Users THEN "done" ELSE round.then]

RequestRerun(u) ==
    LET failed == {t \in Tasks : \E v \in Versions : sv[<<t, v>>] \in InterruptStatus} IN
    /\ pc[u] = "idle"
    /\ pc' = [pc EXCEPT ![u] = "again"]
    /\ list' = [list EXCEPT ![u] =
                  {[t |-> t, v |-> Latest(t, InterruptStatus),
                    s |-> sv[<<t, Latest(t, InterruptStatus)>>],
                    retries |-> left[<<t, Latest(t, InterruptStatus)>>]] : t \in failed}]
    /\ UNCHANGED <<sjob, rerun, cancel, rows, partyVars, at, round, counts>>

\* create_new_version_schedule_task first stops the task; the command goes to the
\* version that is current by then, with the status of the row that has been read.
StopOld(th, row) ==
    /\ pc[th] = "again" /\ row \in list[th]
    /\ \E missed \in Losses :
         /\ ts' = Stopped((Parties \ missed) \X {<<row.t, Current(row.t)>>}, row.s)
         /\ Lose(missed)
    /\ list' = [list EXCEPT ![th] = @ \ {row}]
    /\ at' = [at EXCEPT ![th] = [t |-> row.t, v |-> row.v, retries |-> row.retries, tries |-> 3]]
    /\ pc' = [pc EXCEPT ![th] = "create"]
    /\ UNCHANGED <<sjob, rerun, cancel, rows, pjob, held, round, cancels>>

\* Mutant: the number is that of the latest version by now.
M_NextVersion(th) == Current(at[th].t) + 1

NextVersion(th) == at[th].v + 1

\* The parties create the next version, one that exists is left as it is; when all of
\* them have answered so does the scheduler.  Otherwise the version after it is tried,
\* three times in all, and then the request is given up.
CreateVersion(th) ==
    LET t == at[th].t
        v == NextVersion(th)
    IN
    /\ pc[th] = "create" /\ v <= MaxVersion
    /\ \E missed, unanswered \in Losses :
         /\ missed \cap unanswered = {} /\ Lose(missed \cup unanswered)
         /\ ts' = [x \in Copies |->
                     IF x[1] \notin missed /\ x[2] = <<t, v>> /\ ts[x] = None THEN WAITING ELSE ts[x]]
         /\ IF missed \cup unanswered = {}
            THEN /\ sv' = IF sv[<<t, v>>] = None THEN [sv EXCEPT ![<<t, v>>] = WAITING] ELSE sv
                 /\ left' = IF sv[<<t, v>>] = None THEN [left EXCEPT ![<<t, v>>] = at[th].retries]
                            ELSE left
                 /\ pc' = [pc EXCEPT ![th] = "again"]
                 /\ UNCHANGED <<at, list>>
            ELSE /\ UNCHANGED rows
                 /\ at' = [at EXCEPT ![th].v = v, ![th].tries = @ - 1]
                 /\ pc' = IF at[th].tries = 1 THEN Over(th) ELSE pc
                 /\ list' = IF at[th].tries = 1 THEN [list EXCEPT ![th] = {}] ELSE list
    /\ UNCHANGED <<sjob, rerun, cancel, pjob, held, round, cancels>>

SignalRerun(th) ==
    /\ pc[th] = "again" /\ list[th] = {}
    /\ rerun' = TRUE /\ cancel' = FALSE
    /\ pc' = Over(th)
    /\ UNCHANGED <<sjob, rows, partyVars, list, at, round, counts>>

\* schedule_rerun_job: a job that has ended waits again.  When a party has not taken
\* that, the signal stays.
WakeJob ==
    /\ pc["scheduler"] = "rerun" /\ rerun /\ sjob \in EndStatus
    /\ \E missed \in Losses :
         /\ JobSynced(Parties \ missed, WAITING)
         /\ rerun' = (missed # {} \/ \E p \in Parties : ~JobMayBecome(pjob[p], WAITING))
         /\ Lose(missed)
    /\ sjob' = WAITING /\ Go("waiting")
    /\ UNCHANGED <<cancel, rows, ts, list, at, round, cancels>>
-----------------------------------------------------------------------------
EndTask(x, s) ==
    /\ ts[x] = RUNNING
    /\ ts' = [ts EXCEPT ![x] = s]
    /\ UNCHANGED <<sjob, rerun, cancel, rows, pjob, held, threadVars, round, counts>>

\* A user cancels the job; every party stops it.
Cancel ==
    /\ lost + cancels < MaxTrouble /\ cancels' = cancels + 1
    /\ cancel' = TRUE
    /\ JobSynced(Parties, FAILED)
    /\ ts' = Stopped(RunningLatest(Parties), FAILED)
    /\ UNCHANGED <<sjob, rerun, rows, threadVars, round, lost>>

Scheduler ==
    \/ StartJob \/ CancelWaiting \/ Skip \/ ScheduleRunning \/ ScheduleRerun \/ Conclude \/ WakeJob

Rerunning(th) ==
    \/ \E row \in list[th] : StopOld(th, row)
    \/ CreateVersion(th) \/ SignalRerun(th)

Next ==
    \/ Scheduler \/ Cancel
    \/ \E p \in Parties : ReturnUnused(p)
    \/ \E th \in Threads : Rerunning(th)
    \/ \E u \in Users : RequestRerun(u)
    \/ \E x \in Copies : EndTask(x, SUCCESS) \/ EndTask(x, FAILED)

Spec == Init /\ [][Next]_vars

\* The scheduler, the threads of the requests and the detector go on, a process ends,
\* and cores are granted once in a while.
Fairness ==
    /\ WF_vars(Scheduler) /\ SF_vars(StartJob)
    /\ WF_vars(\E p \in Parties : ReturnUnused(p))
    /\ WF_vars(\E th \in Threads : Rerunning(th))
    /\ WF_vars(\E x \in Copies : EndTask(x, SUCCESS) \/ EndTask(x, FAILED))

FairSpec == Spec /\ Fairness
-----------------------------------------------------------------------------
TypeOK ==
    /\ sjob \in JobStatus /\ rerun \in BOOLEAN /\ cancel \in BOOLEAN
    /\ sv \in [Rows -> TaskStatus \cup {None}] /\ left \in [Rows -> 0..AutoRetries]
    /\ ts \in [Copies -> TaskStatus \cup {None}]
    /\ pjob \in [Parties -> JobStatus] /\ held \subseteq Parties
    /\ pc \in [Threads -> {"idle", "waiting", "running", "rerun", "conclude", "again", "create",
                        "done"}]
    /\ \A th \in Threads : at[th].tries \in 0..3 /\ at[th].v \in Versions

Quiet == \A th \in Threads : pc[th] \notin {"conclude", "again", "create"}

\* While nothing has got lost a party never runs two versions of a task.
OneVersionRuns ==
    lost = 0 => \A p \in Parties, t \in Tasks :
        Cardinality({v \in Versions : ts[<<p, <<t, v>>>>] = RUNNING}) <= 1

\* A task gets, before anybody asks to run it again, as many new versions as it has retries.
RetriesAreCounted ==
    (\A u \in Users : pc[u] = "idle") => \A t \in Tasks :
        Cardinality({v \in Versions : sv[<<t, v>>] # None}) <= 1 + AutoRetries

\* A request is given up when a version could not be made: the exception leaves the
\* versions it has made already, and no signal that the job is to run again.
GaveUp(u) == pc[u] = "done" /\ at[u].tries = 0

\* A job that is SUCCESS, and is not about to run again, has succeeded in the latest
\* version of every task at every party, unless a request has been given up half way.
SuccessIsCurrent ==
    sjob = SUCCESS /\ ~rerun /\ Quiet /\ (\A u \in Users : ~GaveUp(u)) =>
        \A t \in Tasks, p \in Parties : ts[<<p, <<t, Current(t)>>>>] = SUCCESS

\* The rows are what they are taken for: types, retries and success.
RerunInv == TypeOK /\ RetriesAreCounted /\ SuccessIsCurrent

\* A job nobody cancels comes to rest, however often it is asked to run again and
\* whenever: the signal is neither forgotten nor served for ever.  (A party that misses
\* the WAITING of a rerun may keep the cores of the run before, and the job waits for
\* them.)
EveryRerunEnds == [](lost + cancels = 0) => <>[](sjob \in EndStatus /\ ~rerun)
=============================================================================
