---------------------------- MODULE ScheduleLock ----------------------------
(***************************************************************************)
(* The lock of one job among the schedulers that share a database:         *)
(* wraps_utils.schedule_lock over schedule_utils.schedule_signal.  The lock *)
(* is a flag and a time in the job's row; it does not say who holds it.    *)
(* A scheduler that fails to take it looks whether it has timed out, and   *)
(* then releases it for a later round; the holder releases it in a         *)
(* "finally", whoever holds it by then.                                    *)
(***************************************************************************)
EXTENDS Integers

CONSTANTS
    Schedulers,   \* the DAGScheduler threads of the servers
    TTL,          \* ready_timeout_ttl, in ticks
    MaxCrashes    \* bound on the crashes of servers

ASSUME LockAssumption == TTL \in Nat /\ MaxCrashes \in Nat

VARIABLES
    signal,  \* ScheduleJob.f_schedule_signal
    age,     \* time since ScheduleJob.f_schedule_time, up to TTL + 1; 0 when released
    pc,      \* where each scheduler is
    crashes, \* crashes so far
    expired  \* history: some scheduler has released a lock it found timed out

vars == <<signal, age, pc, crashes, expired>>

\* idle: between rounds; probe: failed to take the lock; expire: has seen a lock
\* that timed out; work: in the decorated function; release: in its "finally".
Places == {"idle", "probe", "expire", "work", "release", "dead"}

Goto(s, place) == pc' = [pc EXCEPT ![s] = place]

Init ==
    /\ signal = FALSE
    /\ age = 0
    /\ pc = [s \in Schedulers |-> "idle"]
    /\ crashes = 0
    /\ expired = FALSE

\* Mutant: the UPDATE of the flag does not ask for f_schedule_signal == False.
M_TryLock(s) ==
    /\ pc[s] = "idle"
    /\ signal' = TRUE /\ age' = 0 /\ Goto(s, "work")
    /\ UNCHANGED <<crashes, expired>>

\* schedule_signal(True): one conditional UPDATE.
TryLock(s) ==
    /\ pc[s] = "idle"
    /\ \/ ~signal /\ signal' = TRUE /\ age' = 0 /\ Goto(s, "work")
       \/ signal /\ Goto(s, "probe") /\ UNCHANGED <<signal, age>>
    /\ UNCHANGED <<crashes, expired>>

\* Mutant: a lock never counts as timed out.
M_Probe(s) ==
    /\ pc[s] = "probe"
    /\ Goto(s, "idle")
    /\ UNCHANGED <<signal, age, crashes, expired>>

\* schedule_timeout_signal: the SELECT, and the test of the time it returned.
Probe(s) ==
    /\ pc[s] = "probe"
    /\ Goto(s, IF signal /\ age > TTL THEN "expire" ELSE "idle")
    /\ UNCHANGED <<signal, age, crashes, expired>>

\* ... and the UPDATE, which asks only that the flag be set.
Expire(s) ==
    /\ pc[s] = "expire"
    /\ signal' = FALSE
    /\ age' = 0
    /\ expired' = (expired \/ signal)
    /\ Goto(s, "idle")
    /\ UNCHANGED crashes

\* The scheduling function returns or raises.
Finish(s) ==
    /\ pc[s] = "work"
    /\ Goto(s, "release")
    /\ UNCHANGED <<signal, age, crashes, expired>>

Release(s) ==
    /\ pc[s] = "release"
    /\ signal' = FALSE
    /\ age' = 0
    /\ Goto(s, "idle")
    /\ UNCHANGED <<crashes, expired>>

Crash(s) ==
    /\ pc[s] # "dead"
    /\ crashes < MaxCrashes
    /\ crashes' = crashes + 1
    /\ Goto(s, "dead")
    /\ UNCHANGED <<signal, age, expired>>

Restart(s) ==
    /\ pc[s] = "dead"
    /\ Goto(s, "idle")
    /\ UNCHANGED <<signal, age, crashes, expired>>

\* Time passes; it matters only while the lock is set, and until it has timed out.
Tick ==
    /\ signal /\ age <= TTL
    /\ age' = age + 1
    /\ UNCHANGED <<signal, pc, crashes, expired>>

Step(s) ==
    TryLock(s) \/ Probe(s) \/ Expire(s) \/ Finish(s) \/ Release(s) \/ Restart(s)

Next == Tick \/ \E s \in Schedulers : Step(s) \/ Crash(s)

Spec == Init /\ [][Next]_vars

\* Time passes, a server that is down is started again, and the threads of a server
\* that is up run: the cron calls run_do every two seconds for ever.  Nothing is
\* assumed of a holder that stalls: it may keep working until it is timed out.
Fairness ==
    /\ WF_vars(Tick)
    /\ \A s \in Schedulers :
          WF_vars(TryLock(s) \/ Probe(s) \/ Expire(s) \/ Release(s) \/ Restart(s))

FairSpec == Spec /\ Fairness
-----------------------------------------------------------------------------
Busy(s) == pc[s] \in {"work", "release"}

TypeOK ==
    /\ signal \in BOOLEAN
    /\ age \in 0..TTL + 1
    /\ pc \in [Schedulers -> Places]
    /\ crashes \in 0..MaxCrashes
    /\ expired \in BOOLEAN

\* Two schedulers never work on the same job at a time, whatever crashes, as long
\* as no lock has been timed out.
MutualExclusion ==
    ~expired => \A s, r \in Schedulers : Busy(s) /\ Busy(r) => s = r

\* And the one that works has the flag set, so that no other can join it.
WorkerHoldsLock == ~expired => \A s \in Schedulers : Busy(s) => signal

\* A lock whose holder died (or stalls) does not keep the job unscheduled: somebody
\* works on it later.
DeadLockRecovered ==
    (signal /\ \A s \in Schedulers : ~Busy(s)) ~> \E s \in Schedulers : pc[s] = "work"
=============================================================================
