----------------------------- MODULE JobAdmission -----------------------------
(***************************************************************************)
(* Several jobs on their way from submission to RUNNING, and the cores the *)
(* parties hold for them: create_all_job and schedule_waiting_jobs of      *)
(* scheduler/scheduler.py, and the detector that gives back what got stuck *)
(* (scheduler/detector.py).                                                *)
(*                                                                         *)
(* A scheduler works on one job at a time, and only on the first of those  *)
(* that wait.  It applies for cores party by party, and returns them when  *)
(* a party refuses.  Another scheduler may be doing the same for its jobs. *)
(* What happens in a running job is in module JobScheduling; the books of  *)
(* a party are in ResourceManager, here they say which jobs fit together.  *)
(***************************************************************************)
EXTENDS FlowStatus, FiniteSets

CONSTANTS
    Jobs, Parties,
    Rank,       \* the order of jobs: by priority, then by age
    Homes,      \* the schedulers of the jobs, in the configurations looked at
    Rooms,      \* which sets of jobs fit into the engine of a party, likewise
    Cancelers,  \* the jobs a user cancels
    MaxFaults   \* bound on the calls and answers lost and on the crashes of schedulers

ASSUME AdmissionAssumption ==
    /\ IsFiniteSet(Parties) /\ Parties # {}
    /\ Rank \in [Jobs -> Nat]
    /\ \A j, k \in Jobs : Rank[j] = Rank[k] => j = k
    /\ \A h \in Homes : DOMAIN h = Jobs
    /\ Rooms \subseteq [Parties -> SUBSET SUBSET Jobs]
    /\ Cancelers \subseteq Jobs
    /\ MaxFaults \in Nat

VARIABLES
    home,     \* ScheduleJob.f_scheduler_party_id
    room,     \* EngineRegistry.f_cores
    sjob,     \* ScheduleJob.f_status, or "none" before the job is submitted
    cancel,   \* ScheduleJob.f_cancel_signal
    pjob,     \* Job.f_status, at each party
    started,  \* the copies of jobs with Job.f_start_time set
    held,     \* the copies of jobs with Job.f_resource_in_use
    pc,       \* where the scheduler is with the job
    answers,  \* what the parties have answered to the call for cores
    asked,    \* the jobs a detector has asked to stop, that are not stopped yet
    canceler, \* the requests of users
    faults    \* the calls and answers lost, and the crashes

config == <<home, room>>
rows == <<sjob, cancel, pjob, started, held>>
requests == <<asked, canceler>>
vars == <<config, rows, pc, answers, requests, faults>>

Copies == Parties \X Jobs
At(P, j) == P \X {j}
Unanswered == [p \in Parties |-> "none"]

Moved(s, new) == IF JobMayBecome(s, new) THEN new ELSE s
Fault(n) == faults + n <= MaxFaults /\ faults' = faults + n
Losses == {P \in SUBSET Parties : faults + Cardinality(P) <= MaxFaults}
Goto(j, place) == pc' = [pc EXCEPT ![j] = place]

Init ==
    /\ home \in Homes /\ room \in Rooms
    /\ sjob = [j \in Jobs |-> "none"] /\ cancel = [j \in Jobs |-> FALSE]
    /\ pjob = [x \in Copies |-> "none"] /\ started = {} /\ held = {}
    /\ pc = [j \in Jobs |-> "idle"] /\ answers = [j \in Jobs |-> Unanswered]
    /\ asked = {} /\ canceler = [j \in Cancelers |-> "no"]
    /\ faults = 0
-----------------------------------------------------------------------------
(* Status updates at the parties *)

\* An end status returns the cores, also where it is refused but the job has been
\* started: then the end time is written, and the update counts as one.
Freed(X, s) ==
    {x \in X : s \in EndStatus /\ (JobMayBecome(pjob[x], s) \/ x \in started)}

\* The copies X of jobs are set to s (update_job_status of controller/job.py).
Synced(X, s) ==
    /\ pjob' = [x \in Copies |-> IF x \in X THEN Moved(pjob[x], s) ELSE pjob[x]]
    /\ held' = held \ Freed(X, s)

\* The scheduler's stop_job: the parties take FAILED; the job of the scheduler keeps
\* its status, with a signal if it is a cancel.
StopJob(j, s) ==
    /\ cancel' = [cancel EXCEPT ![j] = @ \/ s = CANCELED]
    /\ \E missed \in Losses :
         /\ Synced(At(Parties \ missed, j), FAILED)
         /\ Fault(Cardinality(missed))
-----------------------------------------------------------------------------
(* create_all_job *)

\* The row of the job, and then the parties' rows: all READY.
Submit(j) ==
    /\ sjob[j] = "none" /\ pc[j] = "idle"
    /\ sjob' = [sjob EXCEPT ![j] = READY]
    /\ \E missed, unanswered \in Losses :
         /\ missed \cap unanswered = {}
         /\ pjob' = [x \in Copies |-> IF x \in At(Parties \ missed, j) THEN READY ELSE pjob[x]]
         /\ Fault(Cardinality(missed) + Cardinality(unanswered))
         /\ Goto(j, IF missed \cup unanswered = {} THEN "created" ELSE "uncreated")
    /\ UNCHANGED <<config, cancel, started, held, answers, requests>>

\* The parties are told that it failed; the scheduler's own row stays READY.
GiveUp(j) ==
    /\ pc[j] = "uncreated"
    /\ \E missed \in Losses :
         /\ Synced({x \in At(Parties \ missed, j) : pjob[x] # "none"}, FAILED)
         /\ Fault(Cardinality(missed))
    /\ Goto(j, "idle")
    /\ UNCHANGED <<config, sjob, cancel, started, answers, requests>>

\* The job waits only when every party has said so.
Queue(j) ==
    /\ pc[j] = "created"
    /\ \E missed, unanswered \in Losses :
         /\ missed \cap unanswered = {}
         /\ Synced(At(Parties \ missed, j), WAITING)
         /\ sjob' = IF missed \cup unanswered = {} THEN [sjob EXCEPT ![j] = WAITING] ELSE sjob
         /\ Fault(Cardinality(missed) + Cardinality(unanswered))
    /\ Goto(j, "idle")
    /\ UNCHANGED <<config, cancel, started, answers, requests>>
-----------------------------------------------------------------------------
(* schedule_waiting_jobs *)

\* The scheduler of j is at no job.
Free(j) ==
    \A k \in Jobs : home[k] = home[j] => pc[k] \in {"idle", "created", "uncreated"}

First(j) ==
    /\ sjob[j] = WAITING
    /\ \A k \in Jobs : home[k] = home[j] /\ sjob[k] = WAITING => Rank[j] <= Rank[k]

PickCanceled(j) ==
    /\ First(j) /\ Free(j) /\ pc[j] = "idle"
    /\ cancel[j]
    /\ \E missed \in Losses :
         /\ Synced(At(Parties \ missed, j), CANCELED)
         /\ Fault(Cardinality(missed))
    /\ sjob' = [sjob EXCEPT ![j] = CANCELED]
    /\ UNCHANGED <<config, cancel, started, pc, answers, requests>>

Pick(j) ==
    /\ First(j) /\ Free(j) /\ pc[j] = "idle"
    /\ ~cancel[j]
    /\ Goto(j, "apply")
    /\ answers' = [answers EXCEPT ![j] = Unanswered]
    /\ UNCHANGED <<config, rows, requests, faults>>

Holding(p) == {j \in Jobs : <<p, j>> \in held}
Answer(j, p, a) == answers' = [answers EXCEPT ![j][p] = a]

\* The party has room for the job, which does not hold cores yet.
Grantable(j, p) == <<p, j>> \notin held /\ Holding(p) \cup {j} \in room[p]

\* resource_for_job at the party.  A call that is tried again because its answer got
\* lost is refused: the job already holds its cores.
Granted(j, p) ==
    /\ pc[j] = "apply" /\ answers[j][p] = "none"
    /\ Grantable(j, p)
    /\ held' = held \cup {<<p, j>>}
    /\ \/ Answer(j, p, "ok") /\ UNCHANGED faults
       \/ Answer(j, p, "no") /\ Fault(1)
    /\ UNCHANGED <<config, sjob, cancel, pjob, started, pc, requests>>

Refused(j, p) ==
    /\ pc[j] = "apply" /\ answers[j][p] = "none"
    /\ \/ {j} \notin room[p] /\ Answer(j, p, "limit") /\ UNCHANGED faults
       \/ {j} \in room[p] /\ ~Grantable(j, p) /\ Answer(j, p, "no") /\ UNCHANGED faults
       \/ Answer(j, p, "no") /\ Fault(1)
    /\ UNCHANGED <<config, rows, pc, requests>>

Said(j, a) == \E p \in Parties : answers[j][p] = a

\* All parties have granted their cores: start_job, RUNNING whatever they answer.  A
\* party where the inheritance of an earlier job is broken sets FAILED.
Start(j) ==
    /\ pc[j] = "apply"
    /\ \A p \in Parties : answers[j][p] = "ok"
    /\ \E missed \in Losses : \E broken \in SUBSET (Parties \ missed) :
         /\ pjob' = [x \in Copies |->
              IF x \notin At(Parties \ missed, j) THEN pjob[x]
              ELSE Moved(pjob[x], IF x[1] \in broken THEN FAILED ELSE RUNNING)]
         /\ held' = held \ Freed(At(broken, j), FAILED)
         /\ started' = started \cup At(Parties \ missed, j)
         /\ Fault(Cardinality(missed))
    /\ sjob' = [sjob EXCEPT ![j] = Moved(@, RUNNING)]
    /\ Goto(j, "idle")
    /\ answers' = [answers EXCEPT ![j] = Unanswered]
    /\ UNCHANGED <<config, cancel, requests>>

\* rollback_job_resource: those that have granted them get them back, or the call is
\* lost.
RollBack(j, p) ==
    /\ pc[j] = "apply" /\ ~Said(j, "none")
    /\ Said(j, "no") \/ Said(j, "limit")
    /\ answers[j][p] = "ok"
    /\ Answer(j, p, "no")
    /\ \/ held' = held \ {<<p, j>>} /\ UNCHANGED faults
       \/ Fault(1) /\ UNCHANGED held
    /\ UNCHANGED <<config, sjob, cancel, pjob, started, pc, requests>>

\* Mutant: the round ends although somebody has granted cores.
M_RolledBack(j) ==
    pc[j] = "apply" /\ ~Said(j, "none") /\ (Said(j, "no") \/ Said(j, "limit"))

RolledBack(j) ==
    pc[j] = "apply" /\ \A p \in Parties : answers[j][p] \in {"no", "limit"}

NextTime(j) ==
    /\ RolledBack(j) /\ ~Said(j, "limit")
    /\ Goto(j, "idle")
    /\ answers' = [answers EXCEPT ![j] = Unanswered]
    /\ UNCHANGED <<config, rows, requests, faults>>

\* Mutant: only the parties are told.
M_LimitExceeded(j) ==
    /\ RolledBack(j) /\ Said(j, "limit")
    /\ StopJob(j, FAILED)
    /\ Goto(j, "idle")
    /\ answers' = [answers EXCEPT ![j] = Unanswered]
    /\ UNCHANGED <<config, sjob, started, requests>>

\* A job that can never have its cores fails.
LimitExceeded(j) ==
    /\ RolledBack(j) /\ Said(j, "limit")
    /\ StopJob(j, FAILED)
    /\ sjob' = [sjob EXCEPT ![j] = Moved(@, FAILED)]
    /\ Goto(j, "idle")
    /\ answers' = [answers EXCEPT ![j] = Unanswered]
    /\ UNCHANGED <<config, started, requests>>
-----------------------------------------------------------------------------
(* Running jobs come to an end in some way; see module JobScheduling. *)

Conclude(j) ==
    /\ sjob[j] = RUNNING /\ Free(j)
    /\ \E s \in {SUCCESS, FAILED, CANCELED} :
         /\ sjob' = [sjob EXCEPT ![j] = s]
         /\ \E missed \in Losses :
              /\ Synced(At(Parties \ missed, j), s)
              /\ Fault(Cardinality(missed))
    /\ Goto(j, "finish")
    /\ UNCHANGED <<config, cancel, started, answers, requests>>

Finish(j) ==
    /\ pc[j] = "finish"
    /\ StopJob(j, sjob[j])
    /\ Goto(j, "idle")
    /\ UNCHANGED <<config, sjob, started, answers, requests>>

Crash(j) ==
    /\ pc[j] # "idle" /\ Fault(1)
    /\ Goto(j, "idle")
    /\ answers' = [answers EXCEPT ![j] = Unanswered]
    /\ UNCHANGED <<config, rows, requests>>
-----------------------------------------------------------------------------
(* The detector (detect_resource_record), and users *)

\* Cores were applied for ten minutes ago; a round is taken to be shorter than that.
Stuck(p, j) == <<p, j>> \in held /\ answers[j][p] # "ok"

\* Mutant: jobs that wait are not looked at.
M_DetectWaiting(p, j) ==
    /\ Stuck(p, j) /\ pjob[<<p, j>>] = READY
    /\ j \notin asked
    /\ asked' = asked \cup {j}
    /\ UNCHANGED <<config, rows, pc, answers, canceler, faults>>

\* A party finds cores held by a job that waits: it asks the scheduler to stop it.
DetectWaiting(p, j) ==
    /\ Stuck(p, j) /\ pjob[<<p, j>>] = WAITING
    /\ j \notin asked
    /\ asked' = asked \cup {j}
    /\ UNCHANGED <<config, rows, pc, answers, canceler, faults>>

StopAsked(j) ==
    /\ j \in asked
    /\ asked' = asked \ {j}
    /\ \/ StopJob(j, TIMEOUT)
       \/ Fault(1) /\ UNCHANGED <<cancel, pjob, held>>
    /\ UNCHANGED <<config, sjob, started, pc, answers, canceler>>

\* Or by a job that has ended: they are returned.
DetectEnded(p, j) ==
    /\ Stuck(p, j) /\ pjob[<<p, j>>] \in EndStatus
    /\ held' = held \ {<<p, j>>}
    /\ UNCHANGED <<config, sjob, cancel, pjob, started, pc, answers, requests, faults>>

\* request_stop_job: at the party of the user, and then at the scheduler.
CancelAtHome(p, j) ==
    /\ canceler[j] = "no" /\ pjob[<<p, j>>] # "none"
    /\ canceler' = [canceler EXCEPT ![j] = "home"]
    /\ Synced({<<p, j>>}, CANCELED)
    /\ UNCHANGED <<config, sjob, cancel, started, pc, answers, asked, faults>>

CancelEverywhere(j) ==
    /\ canceler[j] = "home"
    /\ canceler' = [canceler EXCEPT ![j] = "done"]
    /\ \/ StopJob(j, CANCELED)
       \/ Fault(1) /\ UNCHANGED <<cancel, pjob, held>>
    /\ UNCHANGED <<config, sjob, started, pc, answers, asked>>
-----------------------------------------------------------------------------
Create(j) == Submit(j) \/ GiveUp(j) \/ Queue(j)

Applying(j) ==
    \/ \E p \in Parties : Granted(j, p) \/ Refused(j, p) \/ RollBack(j, p)
    \/ Start(j) \/ NextTime(j) \/ LimitExceeded(j)

Round(j) == PickCanceled(j) \/ Pick(j) \/ Applying(j) \/ Conclude(j) \/ Finish(j)

Detect(p, j) == DetectWaiting(p, j) \/ DetectEnded(p, j)

Next ==
    \/ \E j \in Jobs : Create(j) \/ Round(j) \/ StopAsked(j) \/ Crash(j)
    \/ \E p \in Parties, j \in Jobs : Detect(p, j)
    \/ \E j \in Cancelers : CancelEverywhere(j) \/ \E p \in Parties : CancelAtHome(p, j)

Spec == Init /\ [][Next]_vars

\* The schedulers and the detectors go round for ever, and a job that runs ends.  A
\* scheduler comes back to each of its jobs however often it is at another in between
\* (run_do looks at all that run and at the first that waits), hence SF.
Fairness ==
    /\ \A j \in Jobs :
         /\ WF_vars(GiveUp(j) \/ Queue(j))
         /\ SF_vars(Round(j))
         /\ WF_vars(StopAsked(j))
    /\ \A p \in Parties, j \in Jobs : WF_vars(Detect(p, j))
    /\ \A j \in Cancelers : WF_vars(CancelEverywhere(j))

FairSpec == Spec /\ Fairness
-----------------------------------------------------------------------------
TypeOK ==
    /\ home \in Homes /\ room \in Rooms
    /\ sjob \in [Jobs -> JobStatus \cup {"none"}] /\ cancel \in [Jobs -> BOOLEAN]
    /\ pjob \in [Copies -> JobStatus \cup {"none"}]
    /\ started \subseteq Copies /\ held \subseteq Copies
    /\ pc \in [Jobs -> {"idle", "created", "uncreated", "apply", "finish"}]
    /\ answers \in [Jobs -> [Parties -> {"none", "ok", "no", "limit"}]]
    /\ asked \subseteq Jobs /\ canceler \in [Cancelers -> {"no", "home", "done"}]
    /\ faults \in 0..MaxFaults

\* A job has its cores at every party or at none: between rounds a job that does not
\* run holds no cores anywhere, and so does not keep others from theirs.
AllOrNothing ==
    faults = 0 => \A x \in held : sjob[x[2]] = RUNNING \/ pc[x[2]] # "idle"

\* A job that runs has its cores at every party that has not ended it.
RunningHoldsCores ==
    \A x \in Copies :
        sjob[x[2]] = RUNNING => x \in held \/ pjob[x] \in EndStatus

\* The cores of a job and its status belong together.
AdmissionInv == TypeOK /\ AllOrNothing /\ RunningHoldsCores

\* Whatever is lost and whoever crashes, cores come back from a job that does not run.
HeldCoresComeBack ==
    \A x \in Copies : (x \in held) ~> (x \notin held \/ sjob[x[2]] = RUNNING)

\* Among the jobs of one scheduler each comes in or ends: the first one that waits
\* does not keep the others waiting for ever.
EveryJobComesIn ==
    \A j \in Jobs :
        (\A k \in Jobs : home[k] = home[j]) /\ sjob[j] = WAITING ~> sjob[j] # WAITING
=============================================================================
