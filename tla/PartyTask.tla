------------------------------ MODULE PartyTask ------------------------------
(***************************************************************************)
(* One version of a task at one party, and the scheduler's record of it:   *)
(* controller/task.py over the status updates of base_saver.py.            *)
(*                                                                         *)
(* Calls to start and to stop the task, the reports of its processes, and  *)
(* the detector act on the same row from different threads, and a call     *)
(* whose answer got lost is made again.  A status update is a SELECT, a    *)
(* look at the transition rules and a conditional UPDATE; only that keeps  *)
(* the writers apart.  In callback mode every update, taken or refused, is *)
(* then reported to the scheduler, which does the same with its own row;   *)
(* in poll mode the scheduler asks for the party's status.                 *)
(***************************************************************************)
EXTENDS FlowStatus

CONSTANTS
    Starts,      \* calls of /task/start
    Stops,       \* calls of /task/stop and of /job/stop that reach the task
    StopStatus,  \* the status a stop asks for
    Detector,    \* the stop the detector of the party asks for; not in Stops
    MaxCrashes,  \* bound on the crashes of the party's server
    MaxTimeouts  \* bound on the reports the party does not wait for any longer

ASSUME CallsAssumption ==
    /\ StopStatus \in [Stops -> InterruptStatus]
    /\ Detector \notin Stops
    /\ MaxCrashes \in Nat /\ MaxTimeouts \in Nat

VARIABLES
    sync,     \* Task.f_sync_type: "callback" or "poll"
    status,   \* Task.f_party_status
    started,  \* Task.f_start_time is set
    inUse,    \* Task.f_resource_in_use
    proc,     \* the process of each start call
    pc,       \* where each thread is
    want,     \* the status it is about to set
    seen,     \* what it has SELECTed: the status and whether f_start_time is set
    took,     \* whether its last update had effect
    sched,    \* ScheduleTask.f_status
    inbox,    \* reports on their way to, or being handled by, the scheduler
    crashes, timeouts

rowVars == <<status, started, inUse>>
threadVars == <<pc, want, seen, took>>
faultVars == <<crashes, timeouts, sync>>
schedVars == <<sched, inbox>>
vars == <<rowVars, proc, threadVars, schedVars, faultVars>>

Starter(c) == <<"start", c>>
Worker(c) == <<"worker", c>>   \* the server's thread that handles the process's report
Stopper(c) == <<"stop", c>>
Threads ==
    ({"start", "worker"} \X Starts) \cup ({"stop"} \X (Stops \cup {Detector}))

\* off and done are outside of the handler; a crash leaves a thread dead.
Places == {"off", "stamp", "read", "write", "return", "report", "wait", "done", "dead"}
Quiet == \A th \in Threads : pc[th] \in {"off", "done", "dead"}

Unread == [status |-> WAITING, started |-> FALSE]
Reading(th, s) == /\ pc' = [pc EXCEPT ![th] = "read"]
                  /\ want' = [want EXCEPT ![th] = s]
Goto(th, place) == pc' = [pc EXCEPT ![th] = place]

\* The scheduler has applied the task's cores before it starts the task.
Init ==
    /\ sync \in {"callback", "poll"}
    /\ status = WAITING /\ started = FALSE /\ inUse = TRUE
    /\ proc = [c \in Starts |-> "none"]
    /\ pc = [th \in Threads |-> "off"]
    /\ want = [th \in Threads |-> WAITING]
    /\ seen = [th \in Threads |-> Unread]
    /\ took = [th \in Threads |-> FALSE]
    /\ sched = WAITING /\ inbox = {}
    /\ crashes = 0 /\ timeouts = 0
----------------------------------------------------------------------------
(* start_task *)

\* backend_engine.run spawns the process; if that fails, the task is set to RUNNING
\* and then to FAILED.
Spawn(c) ==
    /\ pc[Starter(c)] = "off"
    /\ \/ /\ proc' = [proc EXCEPT ![c] = "alive"]
          /\ Goto(Starter(c), "stamp")
          /\ UNCHANGED want
       \/ /\ Reading(Starter(c), RUNNING)
          /\ UNCHANGED proc
    /\ UNCHANGED <<rowVars, seen, took, schedVars, faultVars>>

\* update_task records the start time and the pid.
Stamp(c) ==
    /\ pc[Starter(c)] = "stamp"
    /\ started' = TRUE
    /\ Reading(Starter(c), RUNNING)
    /\ UNCHANGED <<status, inUse, proc, seen, took, schedVars, faultVars>>

(* The process: it reports how it ended, or is killed by the system before. *)

ReportEnd(c, end) ==
    /\ proc[c] = "alive"
    /\ pc[Worker(c)] = "off"
    /\ Reading(Worker(c), end)
    /\ UNCHANGED <<rowVars, proc, seen, took, schedVars, faultVars>>

Exit(c) ==
    /\ proc[c] = "alive"
    /\ proc' = [proc EXCEPT ![c] = "gone"]
    /\ UNCHANGED <<rowVars, threadVars, schedVars, faultVars>>

(* stop_task *)

\* kill_task kills every process it finds recorded.
KillAll == proc' = [c \in Starts |-> IF proc[c] = "alive" THEN "gone" ELSE proc[c]]

Stop(c) ==
    /\ pc[Stopper(c)] = "off"
    /\ KillAll
    /\ Reading(Stopper(c), StopStatus[c])
    /\ UNCHANGED <<rowVars, seen, took, schedVars, faultVars>>

\* Mutant: a job is stopped for a dead process only once.
M_Detect ==
    /\ pc[Stopper(Detector)] = "off"
    /\ status = RUNNING
    /\ \A c \in Starts : proc[c] # "alive"
    /\ Reading(Stopper(Detector), FAILED)
    /\ UNCHANGED <<rowVars, proc, seen, took, schedVars, faultVars>>

\* detect_running_task: the task is RUNNING and has no process, twice; the job is
\* then stopped with FAILED, which comes back to this party as a stop of the task.
\* It comes back again as long as that is so.
Detect ==
    /\ pc[Stopper(Detector)] \in {"off", "done", "dead"}
    /\ status = RUNNING
    /\ \A c \in Starts : proc[c] # "alive"
    /\ Reading(Stopper(Detector), FAILED)
    /\ UNCHANGED <<rowVars, proc, seen, took, schedVars, faultVars>>
----------------------------------------------------------------------------
(* update_task_status, in any thread *)

Read(th) ==
    /\ pc[th] = "read"
    /\ seen' = [seen EXCEPT ![th] = [status |-> status, started |-> started]]
    /\ Goto(th, "write")
    /\ UNCHANGED <<rowVars, proc, want, took, schedVars, faultVars>>

\* Mutant: the UPDATE does not ask that the status still be the one SELECTed.
M_Write(th) ==
    /\ pc[th] = "write"
    /\ \/ /\ TaskMayBecome(seen[th].status, want[th])
          /\ status' = want[th]
          /\ took' = [took EXCEPT ![th] = TRUE]
       \/ /\ ~TaskMayBecome(seen[th].status, want[th])
          /\ took' = [took EXCEPT ![th] = seen[th].started /\ want[th] \in EndStatus]
          /\ UNCHANGED status
    /\ Goto(th, "return")
    /\ UNCHANGED <<started, inUse, proc, want, seen, schedVars, faultVars>>

\* The UPDATE.  If the rules refuse the status there is still the end time to set,
\* once the task has been started, and the update counts as taken.
Write(th) ==
    /\ pc[th] = "write"
    /\ \/ /\ TaskMayBecome(seen[th].status, want[th])
          /\ status' = IF status = seen[th].status THEN want[th] ELSE status
          /\ took' = [took EXCEPT ![th] = status = seen[th].status]
       \/ /\ ~TaskMayBecome(seen[th].status, want[th])
          /\ took' = [took EXCEPT ![th] = seen[th].started /\ want[th] \in EndStatus]
          /\ UNCHANGED status
    /\ Goto(th, "return")
    /\ UNCHANGED <<started, inUse, proc, want, seen, schedVars, faultVars>>

\* What comes next: in callback mode the report.  Then a start that failed goes on
\* to set FAILED, and any other thread has done and forgets what it has read.
Continue(th) ==
    /\ IF th[1] = "start" /\ want[th] = RUNNING /\ proc[th[2]] = "none"
       THEN Reading(th, FAILED)
       ELSE Goto(th, "done") /\ want' = [want EXCEPT ![th] = WAITING]
    /\ seen' = [seen EXCEPT ![th] = Unread]
    /\ took' = [took EXCEPT ![th] = FALSE]

Returned(th) ==
    \/ sync = "callback" /\ Goto(th, "report") /\ UNCHANGED <<want, seen, took>>
    \/ sync = "poll" /\ Continue(th)

\* Mutant: the cores go back only when the task has succeeded.
M_Return(th) ==
    /\ pc[th] = "return"
    /\ inUse' = (inUse /\ ~(took[th] /\ want[th] = SUCCESS))
    /\ Returned(th)
    /\ UNCHANGED <<status, started, proc, schedVars, faultVars>>

\* return_task_resource, which has no effect when the cores are back already.
Return(th) ==
    /\ pc[th] = "return"
    /\ inUse' = (inUse /\ ~(took[th] /\ want[th] \in EndStatus))
    /\ Returned(th)
    /\ UNCHANGED <<status, started, proc, schedVars, faultVars>>

\* report_task_to_scheduler sends the status asked for, also when it was refused.
Report(th) ==
    /\ pc[th] = "report"
    /\ inbox' = inbox \cup {[from |-> th, status |-> want[th], seen |-> "unread"]}
    /\ Goto(th, "wait")
    /\ UNCHANGED <<rowVars, proc, want, seen, took, sched, faultVars>>

\* The answer has come.
Answered(th) ==
    /\ pc[th] = "wait"
    /\ \A m \in inbox : m.from # th
    /\ Continue(th)
    /\ UNCHANGED <<rowVars, proc, schedVars, faultVars>>

\* Or it has not, in all of the tries: the report is lost, or late.
TimedOut(th) ==
    /\ pc[th] = "wait"
    /\ timeouts < MaxTimeouts
    /\ timeouts' = timeouts + 1
    /\ inbox' \in {inbox, {m \in inbox : m.from # th}}
    /\ Continue(th)
    /\ UNCHANGED <<rowVars, proc, sched, crashes, sync>>
----------------------------------------------------------------------------
(* The scheduler: report_task of scheduler_app.py, and the collection of the  *)
(* status in poll mode, both by update_task_status of job_saver.py.           *)

HandleRead(m) ==
    /\ m \in inbox /\ m.seen = "unread"
    /\ inbox' = (inbox \ {m}) \cup {[m EXCEPT !.seen = sched]}
    /\ UNCHANGED <<rowVars, proc, threadVars, sched, faultVars>>

HandleWrite(m) ==
    /\ m \in inbox /\ m.seen # "unread"
    /\ inbox' = inbox \ {m}
    /\ sched' = IF TaskMayBecome(m.seen, m.status) /\ sched = m.seen THEN m.status ELSE sched
    /\ UNCHANGED <<rowVars, proc, threadVars, faultVars>>

\* One thread collects at a time (the lock of the job), so that nothing changes the
\* scheduler's row between its SELECT and its UPDATE.
Poll ==
    /\ sync = "poll"
    /\ sched' = IF TaskMayBecome(sched, status) THEN status ELSE sched
    /\ UNCHANGED <<rowVars, proc, threadVars, inbox, faultVars>>

\* The server of the party dies and is started again: the threads are gone, the
\* rows, the processes and the reports on their way are not.
Crash ==
    /\ crashes < MaxCrashes
    /\ ~Quiet
    /\ crashes' = crashes + 1
    /\ pc' = [th \in Threads |-> IF pc[th] \in {"off", "done"} THEN pc[th] ELSE "dead"]
    /\ want' = [th \in Threads |-> WAITING]
    /\ seen' = [th \in Threads |-> Unread]
    /\ took' = [th \in Threads |-> FALSE]
    /\ UNCHANGED <<rowVars, proc, schedVars, timeouts, sync>>
----------------------------------------------------------------------------
Update(th) == Read(th) \/ Write(th) \/ Return(th) \/ Report(th) \/ Answered(th)
Process(c) == ReportEnd(c, SUCCESS) \/ ReportEnd(c, FAILED) \/ Exit(c)
Handle == \E m \in inbox : HandleRead(m) \/ HandleWrite(m)

Next ==
    \/ \E c \in Starts : Spawn(c) \/ Stamp(c) \/ Process(c)
    \/ \E c \in Stops : Stop(c)
    \/ Detect
    \/ \E th \in Threads : Update(th) \/ TimedOut(th)
    \/ Handle
    \/ Poll
    \/ Crash

Spec == Init /\ [][Next]_vars

\* Threads and handlers run, processes end one way or another, and the detector
\* and the poll come round for ever.
Fairness ==
    /\ \A c \in Starts : WF_vars(Spawn(c) \/ Stamp(c)) /\ WF_vars(Exit(c))
    /\ \A th \in Threads : WF_vars(Update(th))
    /\ WF_vars(Detect)
    /\ WF_vars(Handle)
    /\ WF_vars(Poll)

FairSpec == Spec /\ Fairness
----------------------------------------------------------------------------
RowTypes == status \in TaskStatus /\ started \in BOOLEAN /\ inUse \in BOOLEAN

ProcTypes == proc \in [Starts -> {"none", "alive", "gone"}]

ThreadTypes ==
    /\ pc \in [Threads -> Places]
    /\ want \in [Threads -> TaskStatus]
    /\ seen \in [Threads -> [status : TaskStatus, started : BOOLEAN]]
    /\ took \in [Threads -> BOOLEAN]

SchedTypes ==
    /\ sched \in TaskStatus
    /\ inbox \subseteq
         [from : Threads, status : TaskStatus, seen : TaskStatus \cup {"unread"}]

FaultTypes ==
    /\ crashes \in 0..MaxCrashes /\ timeouts \in 0..MaxTimeouts
    /\ sync \in {"callback", "poll"}

TypeOK == RowTypes /\ ProcTypes /\ ThreadTypes /\ SchedTypes /\ FaultTypes

\* Once a task has ended at a party its status does not change any more, whoever is
\* still starting, stopping or reporting it; a TIMEOUT may yet turn out otherwise.
EndIsFinal ==
    [][\/ status \notin EndStatus
       \/ status' = status
       \/ status = TIMEOUT /\ status' \in {FAILED, SUCCESS}]_vars

\* When the dust has settled on a task that ended, its cores are back, however the
\* calls raced, unless the server died on the way.
CoresComeBack == Quiet /\ crashes = 0 /\ status \in EndStatus => ~inUse

\* A stop that found the task RUNNING leaves it ended, also when it lost the race
\* against another writer: the task cannot slip back or stay RUNNING.
StopEndsTheTask ==
    \A c \in Stops :
        pc[Stopper(c)] \in {"return", "report", "wait"} /\ seen[Stopper(c)].status = RUNNING
            => status \in EndStatus

\* In poll mode the scheduler never holds a verdict that is not the party's, so no
\* downstream task starts on one (TIMEOUT is provisional on both sides).
PolledVerdict ==
    sync = "poll" /\ sched \in EndStatus \ {TIMEOUT} => status = sched

\* A task that runs ends: its process reports, or the detector finds it dead.
RunningTaskEnds == (status = RUNNING) ~> (status \in EndStatus)
=============================================================================
