----------------------------- MODULE PartyProofs -----------------------------
(***************************************************************************)
(* What holds at one party: of a task (PartyTask), for any number of       *)
(* calls, crashes and lost answers, that its row stays well formed, an end *)
(* status is final, a stop that found the task running leaves it ended,    *)
(* and in poll mode the scheduler's verdict is the party's; and of the     *)
(* cores (ResourceManager) that the books balance for every set of jobs,   *)
(* tasks and servers and for all demands.                                  *)
(***************************************************************************)
EXTENDS PartyTask, ResourceManager, TLAPS


\* The threads by name.
LEMMA ThreadNames ==
    /\ \A c \in Starts : Starter(c) \in Threads /\ Worker(c) \in Threads
    /\ \A c \in Stops \cup {Detector} : Stopper(c) \in Threads
  BY DEF Threads, Starter, Worker, Stopper

LEMMA StatusNames ==
    /\ InterruptStatus \subseteq EndStatus /\ EndStatus \subseteq TaskStatus
    /\ {WAITING, RUNNING} \subseteq TaskStatus
    /\ WAITING \notin EndStatus /\ RUNNING \notin EndStatus
  BY DEF InterruptStatus, EndStatus, TaskStatus, WAITING, RUNNING, CANCELED, TIMEOUT,
         FAILED, PASS, SUCCESS

-----------------------------------------------------------------------------
(* Type correctness *)

LEMMA UnreadType == Unread \in [status : TaskStatus, started : BOOLEAN]
  BY StatusNames DEF Unread

LEMMA TypeInit == Init => TypeOK
<1> SUFFICES ASSUME Init PROVE TypeOK
    OBVIOUS
<1>1. RowTypes
    BY StatusNames, ZenonT(20) DEF Init, RowTypes
<1>2. ProcTypes
    BY DEF Init, ProcTypes
<1>3. ThreadTypes
  <2>1. pc \in [Threads -> Places] /\ want \in [Threads -> TaskStatus]
      BY StatusNames DEF Init, Places
  <2>2. seen \in [Threads -> [status : TaskStatus, started : BOOLEAN]]
      BY UnreadType DEF Init
  <2>3. took \in [Threads -> BOOLEAN]
      BY ZenonT(20) DEF Init
  <2> QED
      BY <2>1, <2>2, <2>3 DEF ThreadTypes
<1>4. SchedTypes
    BY StatusNames DEF Init, SchedTypes
<1>5. FaultTypes
    BY CallsAssumption DEF Init, FaultTypes
<1> QED
    BY <1>1, <1>2, <1>3, <1>4, <1>5 DEF TypeOK

LEMMA ContinueTypes ==
    ASSUME ThreadTypes, NEW th \in Threads, Continue(th)
    PROVE  ThreadTypes'
<1>1. pc' \in [Threads -> Places] /\ want' \in [Threads -> TaskStatus]
  <2>1. Reading(th, FAILED) \/ (Goto(th, "done") /\ want' = [want EXCEPT ![th] = WAITING])
      BY Zenon DEF Continue
  <2>2. FAILED \in TaskStatus /\ WAITING \in TaskStatus
      BY DEF TaskStatus
  <2> QED
      BY <2>1, <2>2 DEF Reading, Goto, ThreadTypes, Places
<1>2. seen' \in [Threads -> [status : TaskStatus, started : BOOLEAN]]
    BY UnreadType DEF Continue, ThreadTypes
<1>3. took' \in [Threads -> BOOLEAN]
    BY ZenonT(20) DEF Continue, ThreadTypes
<1> QED
    BY <1>1, <1>2, <1>3 DEF ThreadTypes

LEMMA ReadingTypes ==
    ASSUME ThreadTypes, NEW th \in Threads, NEW s \in TaskStatus, Reading(th, s),
           UNCHANGED <<seen, took>>
    PROVE  ThreadTypes'
  BY DEF Reading, ThreadTypes, Places

LEMMA GotoTypes ==
    ASSUME ThreadTypes, NEW th \in Threads, NEW p \in Places, Goto(th, p),
           UNCHANGED <<want, seen, took>>
    PROVE  ThreadTypes'
  BY DEF Goto, ThreadTypes

LEMMA TypeStep == TypeOK /\ [Next]_vars => TypeOK'
<1> SUFFICES ASSUME TypeOK, [Next]_vars PROVE TypeOK'
    OBVIOUS
<1>0. RowTypes /\ ProcTypes /\ ThreadTypes /\ SchedTypes /\ FaultTypes
    BY DEF TypeOK
<1>1. ASSUME NEW c \in Starts, Spawn(c) PROVE TypeOK'
  <2>1. RowTypes' /\ SchedTypes' /\ FaultTypes'
      BY <1>0, <1>1 DEF Spawn, rowVars, schedVars, faultVars, RowTypes, SchedTypes, FaultTypes
  <2>2. ProcTypes'
      BY <1>0, <1>1 DEF Spawn, ProcTypes
  <2>3. ThreadTypes'
      BY <1>0, <1>1, ThreadNames, StatusNames, ReadingTypes, GotoTypes DEF Spawn, Places
  <2> QED
      BY <2>1, <2>2, <2>3 DEF TypeOK
<1>2. ASSUME NEW c \in Starts, Stamp(c) PROVE TypeOK'
  <2>1. SchedTypes' /\ FaultTypes' /\ ProcTypes'
      BY <1>0, <1>2 DEF Stamp, schedVars, faultVars, SchedTypes, FaultTypes, ProcTypes
  <2>2. RowTypes'
      BY <1>0, <1>2, ZenonT(20) DEF Stamp, RowTypes
  <2>3. ThreadTypes'
      BY <1>0, <1>2, ThreadNames, StatusNames, ReadingTypes DEF Stamp
  <2> QED
      BY <2>1, <2>2, <2>3 DEF TypeOK
<1>3. ASSUME NEW c \in Starts, Process(c) PROVE TypeOK'
  <2>1. RowTypes' /\ SchedTypes' /\ FaultTypes'
      BY <1>0, <1>3 DEF Process, ReportEnd, Exit, rowVars, schedVars, faultVars, RowTypes,
         SchedTypes, FaultTypes
  <2>2. ProcTypes'
      BY <1>0, <1>3 DEF Process, ReportEnd, Exit, ProcTypes
  <2>3. ThreadTypes'
    <3>1. CASE Exit(c)
        BY <1>0, <3>1 DEF Exit, threadVars, ThreadTypes
    <3>2. ASSUME NEW end \in {SUCCESS, FAILED}, ReportEnd(c, end) PROVE ThreadTypes'
        BY <1>0, <3>2, ThreadNames, ReadingTypes DEF ReportEnd, TaskStatus
    <3> QED
        BY <1>3, <3>1, <3>2 DEF Process
  <2> QED
      BY <2>1, <2>2, <2>3 DEF TypeOK
<1>4. ASSUME NEW c \in Stops, Stop(c) PROVE TypeOK'
  <2>1. RowTypes' /\ SchedTypes' /\ FaultTypes'
      BY <1>0, <1>4 DEF Stop, rowVars, schedVars, faultVars, RowTypes, SchedTypes, FaultTypes
  <2>2. ProcTypes'
      BY <1>0, <1>4 DEF Stop, KillAll, ProcTypes
  <2>3. StopStatus[c] \in TaskStatus
      BY CallsAssumption, StatusNames
  <2>4. ThreadTypes'
      BY <1>0, <1>4, <2>3, ThreadNames, ReadingTypes DEF Stop
  <2> QED
      BY <2>1, <2>2, <2>4 DEF TypeOK
<1>5. CASE Detect
  <2>1. RowTypes' /\ SchedTypes' /\ FaultTypes' /\ ProcTypes'
      BY <1>0, <1>5 DEF Detect, rowVars, schedVars, faultVars, RowTypes, SchedTypes,
         FaultTypes, ProcTypes
  <2>2. ThreadTypes'
      BY <1>0, <1>5, ThreadNames, ReadingTypes DEF Detect, TaskStatus
  <2> QED
      BY <2>1, <2>2 DEF TypeOK
<1>6. ASSUME NEW th \in Threads, Read(th) PROVE TypeOK'
  <2>1. RowTypes' /\ SchedTypes' /\ FaultTypes' /\ ProcTypes'
      BY <1>0, <1>6 DEF Read, rowVars, schedVars, faultVars, RowTypes, SchedTypes,
         FaultTypes, ProcTypes
  <2>2. [status |-> status, started |-> started] \in [status : TaskStatus, started : BOOLEAN]
      BY <1>0 DEF RowTypes
  <2>3. ThreadTypes'
      BY <1>0, <1>6, <2>2 DEF Read, Goto, ThreadTypes, Places
  <2> QED
      BY <2>1, <2>3 DEF TypeOK
<1>7. ASSUME NEW th \in Threads, Write(th) PROVE TypeOK'
  <2>1. SchedTypes' /\ FaultTypes' /\ ProcTypes'
      BY <1>0, <1>7 DEF Write, schedVars, faultVars, SchedTypes, FaultTypes, ProcTypes
  <2>2. status' \in TaskStatus
      BY <1>0, <1>7 DEF Write, RowTypes, ThreadTypes
  <2>3. RowTypes'
      BY <1>0, <1>7, <2>2, ZenonT(20) DEF Write, RowTypes
  <2>4. pc' \in [Threads -> Places] /\ want' \in [Threads -> TaskStatus]
      BY <1>0, <1>7 DEF Write, Goto, ThreadTypes, Places
  <2>5. seen' \in [Threads -> [status : TaskStatus, started : BOOLEAN]]
      BY <1>0, <1>7 DEF Write, ThreadTypes
  <2>6. seen[th].started \in BOOLEAN
      BY <1>0 DEF ThreadTypes
  <2>7. PICK b \in BOOLEAN : took' = [took EXCEPT ![th] = b]
      BY <1>7, <2>6, ZenonT(30) DEF Write
  <2>8. took' \in [Threads -> BOOLEAN]
      BY <1>0, <2>7, ZenonT(20) DEF ThreadTypes
  <2>9. ThreadTypes'
      BY <2>4, <2>5, <2>8 DEF ThreadTypes
  <2> QED
      BY <2>1, <2>3, <2>9 DEF TypeOK
<1>8. ASSUME NEW th \in Threads, Return(th) PROVE TypeOK'
  <2>1. SchedTypes' /\ FaultTypes' /\ ProcTypes'
      BY <1>0, <1>8 DEF Return, schedVars, faultVars, SchedTypes, FaultTypes, ProcTypes
  <2>2. inUse' \in BOOLEAN
      BY <1>8, ZenonT(20) DEF Return
  <2>3. RowTypes'
      BY <1>0, <1>8, <2>2, ZenonT(20) DEF Return, RowTypes
  <2>4. ThreadTypes'
      BY <1>0, <1>8, ContinueTypes, GotoTypes DEF Return, Returned, Places
  <2> QED
      BY <2>1, <2>3, <2>4 DEF TypeOK
<1>9. ASSUME NEW th \in Threads, Report(th) PROVE TypeOK'
  <2>1. RowTypes' /\ FaultTypes' /\ ProcTypes'
      BY <1>0, <1>9 DEF Report, rowVars, faultVars, RowTypes, FaultTypes, ProcTypes
  <2>2. SchedTypes'
      BY <1>0, <1>9 DEF Report, SchedTypes, ThreadTypes
  <2>3. ThreadTypes'
      BY <1>0, <1>9, GotoTypes DEF Report, Places
  <2> QED
      BY <2>1, <2>2, <2>3 DEF TypeOK
<1>10. ASSUME NEW th \in Threads, Answered(th) PROVE TypeOK'
  <2>1. RowTypes' /\ FaultTypes' /\ ProcTypes' /\ SchedTypes'
      BY <1>0, <1>10 DEF Answered, rowVars, faultVars, schedVars, RowTypes, FaultTypes,
         ProcTypes, SchedTypes
  <2>2. ThreadTypes'
      BY <1>0, <1>10, ContinueTypes DEF Answered
  <2> QED
      BY <2>1, <2>2 DEF TypeOK
<1>11. ASSUME NEW th \in Threads, TimedOut(th) PROVE TypeOK'
  <2>1. RowTypes' /\ ProcTypes'
      BY <1>0, <1>11 DEF TimedOut, rowVars, RowTypes, ProcTypes
  <2>2. FaultTypes'
      BY <1>0, <1>11, CallsAssumption DEF TimedOut, FaultTypes
  <2>3. SchedTypes'
      BY <1>0, <1>11 DEF TimedOut, SchedTypes
  <2>4. ThreadTypes'
      BY <1>0, <1>11, ContinueTypes DEF TimedOut
  <2> QED
      BY <2>1, <2>2, <2>3, <2>4 DEF TypeOK
<1>12. CASE Handle
  <2>1. RowTypes' /\ FaultTypes' /\ ProcTypes' /\ ThreadTypes'
      BY <1>0, <1>12 DEF Handle, HandleRead, HandleWrite, rowVars, faultVars, threadVars,
         RowTypes, FaultTypes, ProcTypes, ThreadTypes
  <2>2. SchedTypes'
      BY <1>0, <1>12 DEF Handle, HandleRead, HandleWrite, SchedTypes
  <2> QED
      BY <2>1, <2>2 DEF TypeOK
<1>13. CASE Poll
  <2>1. RowTypes' /\ FaultTypes' /\ ProcTypes' /\ ThreadTypes'
      BY <1>0, <1>13 DEF Poll, rowVars, faultVars, threadVars, RowTypes, FaultTypes,
         ProcTypes, ThreadTypes
  <2>2. SchedTypes'
      BY <1>0, <1>13 DEF Poll, SchedTypes, RowTypes
  <2> QED
      BY <2>1, <2>2 DEF TypeOK
<1>14. CASE Crash
  <2>1. RowTypes' /\ ProcTypes' /\ SchedTypes'
      BY <1>0, <1>14 DEF Crash, rowVars, schedVars, RowTypes, ProcTypes, SchedTypes
  <2>2. FaultTypes'
      BY <1>0, <1>14, CallsAssumption DEF Crash, FaultTypes
  <2>3. pc' \in [Threads -> Places] /\ want' \in [Threads -> TaskStatus]
      BY <1>0, <1>14, StatusNames DEF Crash, ThreadTypes, Places
  <2>4. seen' \in [Threads -> [status : TaskStatus, started : BOOLEAN]]
      BY <1>14, UnreadType DEF Crash
  <2>5. took' \in [Threads -> BOOLEAN]
      BY <1>14, ZenonT(20) DEF Crash
  <2> QED
      BY <2>1, <2>2, <2>3, <2>4, <2>5 DEF TypeOK, ThreadTypes
<1>15. CASE UNCHANGED vars
    BY <1>0, <1>15 DEF vars, rowVars, threadVars, schedVars, faultVars, TypeOK, RowTypes,
       ProcTypes, ThreadTypes, SchedTypes, FaultTypes
<1> QED
    BY <1>1, <1>2, <1>3, <1>4, <1>5, <1>6, <1>7, <1>8, <1>9, <1>10, <1>11, <1>12, <1>13,
       <1>14, <1>15 DEF Next, Update

\* The rows of the task, the threads and the reports stay well formed (task.py:159-356).
THEOREM TaskTypeCorrect == Spec => []TypeOK
  BY TypeInit, TypeStep, PTL DEF Spec
-----------------------------------------------------------------------------
(* The safety properties *)

\* A thread never asks for WAITING, and a stop asks for an interrupt.
WantsToSet == \A th \in Threads : pc[th] \in {"read", "write"} => want[th] # WAITING

StopsInterrupt ==
    \A c \in Stops : pc[Stopper(c)] \in {"read", "write"} => want[Stopper(c)] \in InterruptStatus

\* Nobody reports in poll mode.
NoReports ==
    sync = "poll" => inbox = {} /\ \A th \in Threads : pc[th] \notin {"report", "wait"}

\* What a stop has read may be out of date, but a task that was RUNNING has not gone back.
StopSaw ==
    \A c \in Stops : pc[Stopper(c)] = "write" /\ seen[Stopper(c)].status = RUNNING
                         => status \in {RUNNING} \cup EndStatus

TaskInv ==
    TypeOK /\ WantsToSet /\ StopsInterrupt /\ NoReports /\ StopSaw /\ StopEndsTheTask
    /\ PolledVerdict

\* The changes of the status that any step can make.
Moves(a, b) == a = b \/ (TaskMayBecome(a, b) /\ b # WAITING)

LEMMA MovesOfEnd ==
    ASSUME NEW a \in TaskStatus, NEW b \in TaskStatus, Moves(a, b)
    PROVE  /\ a \in EndStatus => a = b \/ (a = TIMEOUT /\ b \in {FAILED, SUCCESS})
           /\ a \in {RUNNING} \cup EndStatus => b \in {RUNNING} \cup EndStatus
           /\ a \in EndStatus => b \in EndStatus
  BY DEF Moves, TaskMayBecome, TaskRules, TaskStatus, EndStatus, WAITING, RUNNING, CANCELED,
         TIMEOUT, FAILED, PASS, SUCCESS

LEMMA InterruptOfRunning ==
    \A s \in InterruptStatus : TaskMayBecome(RUNNING, s) /\ s \in EndStatus /\ s # WAITING
  BY DEF TaskMayBecome, TaskRules, InterruptStatus, EndStatus, WAITING, RUNNING, CANCELED,
         TIMEOUT, FAILED, PASS, SUCCESS

\* Only the UPDATE of a thread changes the status, and only along the rules.
LEMMA StatusMoves ==
    ASSUME TypeOK, WantsToSet, [Next]_vars
    PROVE  Moves(status, status')
<1>1. ASSUME NEW th \in Threads, Write(th) PROVE Moves(status, status')
    BY <1>1 DEF Write, Moves, WantsToSet
<1>2. CASE \A th \in Threads : ~Write(th)
    BY <1>2 DEF Next, Spawn, Stamp, Process, ReportEnd, Exit, Stop, Detect, Update, Read, Return,
       Report, Answered, TimedOut, Handle, HandleRead, HandleWrite, Poll, Crash, vars, rowVars,
       Moves
<1> QED
    BY <1>1, <1>2

\* How one step changes the place of one thread and what it wants.
LEMMA ContinueMoves ==
    ASSUME NEW th \in Threads, Continue(th), ThreadTypes
    PROVE  /\ \A t \in Threads \ {th} :
                 pc'[t] = pc[t] /\ want'[t] = want[t] /\ seen'[t] = seen[t]
           /\ \/ pc'[th] = "done"
              \/ pc'[th] = "read" /\ want'[th] = FAILED /\ th[1] = "start"
<1>1. \/ Reading(th, FAILED) /\ th[1] = "start"
      \/ Goto(th, "done") /\ want' = [want EXCEPT ![th] = WAITING]
    BY Zenon DEF Continue
<1>2. \A t \in Threads \ {th} : seen'[t] = seen[t]
    BY DEF Continue, ThreadTypes
<1> QED
    BY <1>1, <1>2 DEF Reading, Goto, ThreadTypes

\* Nothing changes the mode of a task.
LEMMA SyncStays == ASSUME [Next]_vars PROVE sync' = sync
  BY DEF Next, Spawn, Stamp, Process, ReportEnd, Exit, Stop, Detect, Update, Read, Write, Return,
     Report, Answered, TimedOut, Handle, HandleRead, HandleWrite, Poll, Crash, vars, faultVars

LEMMA ThreadStep ==
    ASSUME TaskInv, [Next]_vars
    PROVE  WantsToSet' /\ StopsInterrupt' /\ NoReports'
<1> USE DEF WantsToSet, StopsInterrupt, NoReports
<1>0. /\ ThreadTypes
      /\ WantsToSet /\ StopsInterrupt /\ NoReports
      /\ sync' = sync
      /\ \A s \in {RUNNING, SUCCESS, FAILED} \cup InterruptStatus : s # WAITING
      /\ \A c \in Starts, d \in Stops \cup {Detector} :
             Starter(c) # Stopper(d) /\ Worker(c) # Stopper(d)
      /\ \A c \in Stops \cup {Detector} : Stopper(c)[1] # "start"
      /\ \A c, d \in Stops \cup {Detector} : c # d => Stopper(c) # Stopper(d)
    BY SyncStays DEF TaskInv, TypeOK, InterruptStatus, WAITING, RUNNING, CANCELED, TIMEOUT, FAILED,
       SUCCESS, Starter, Worker, Stopper
<1>1. ASSUME NEW c \in Starts, Spawn(c) PROVE WantsToSet' /\ StopsInterrupt' /\ NoReports'
    BY <1>0, <1>1, ThreadNames DEF Spawn, Reading, Goto, ThreadTypes, schedVars
<1>2. ASSUME NEW c \in Starts, Stamp(c) PROVE WantsToSet' /\ StopsInterrupt' /\ NoReports'
    BY <1>0, <1>2, ThreadNames DEF Stamp, Reading, ThreadTypes, schedVars
<1>3. ASSUME NEW c \in Starts, Process(c) PROVE WantsToSet' /\ StopsInterrupt' /\ NoReports'
    BY <1>0, <1>3, ThreadNames DEF Process, ReportEnd, Exit, Reading, ThreadTypes, schedVars,
       threadVars
<1>4. ASSUME NEW c \in Stops, Stop(c) PROVE WantsToSet' /\ StopsInterrupt' /\ NoReports'
  <2>1. StopStatus[c] \in InterruptStatus
      BY CallsAssumption
  <2> QED
      BY <1>0, <1>4, <2>1, ThreadNames DEF Stop, Reading, ThreadTypes, schedVars
<1>5. CASE Detect
    BY <1>0, <1>5, ThreadNames, CallsAssumption DEF Detect, Reading, ThreadTypes, schedVars
<1>6. ASSUME NEW th \in Threads, Read(th) \/ Write(th)
      PROVE  WantsToSet' /\ StopsInterrupt' /\ NoReports'
    BY <1>0, <1>6, ThreadNames DEF Read, Write, Goto, ThreadTypes, schedVars
<1>7. ASSUME NEW th \in Threads, Continue(th), inbox' \subseteq inbox
      PROVE  WantsToSet' /\ StopsInterrupt' /\ NoReports'
    BY <1>0, <1>7, ThreadNames, ContinueMoves
<1>8. ASSUME NEW th \in Threads, Return(th) PROVE WantsToSet' /\ StopsInterrupt' /\ NoReports'
    BY <1>0, <1>7, <1>8, ThreadNames DEF Return, Returned, Goto, ThreadTypes, schedVars
<1>9. ASSUME NEW th \in Threads, Report(th) PROVE WantsToSet' /\ StopsInterrupt' /\ NoReports'
    BY <1>0, <1>9, ThreadNames DEF Report, Goto, ThreadTypes
<1>10. ASSUME NEW th \in Threads, Answered(th) \/ TimedOut(th)
       PROVE  WantsToSet' /\ StopsInterrupt' /\ NoReports'
    BY <1>7, <1>10 DEF Answered, TimedOut, schedVars
<1>11. CASE Handle
    BY <1>0, <1>11 DEF Handle, HandleRead, HandleWrite, threadVars
<1>12. CASE Poll
    BY <1>0, <1>12 DEF Poll, threadVars
<1>13. CASE Crash
    BY <1>0, <1>13, ThreadNames DEF Crash, schedVars, ThreadTypes
<1>14. CASE UNCHANGED vars
    BY <1>0, <1>14 DEF vars, threadVars, schedVars
<1> QED
    BY <1>1, <1>2, <1>3, <1>4, <1>5, <1>6, <1>8, <1>9, <1>10, <1>11, <1>12, <1>13, <1>14
    DEF Next, Update

Updated == {"return", "report", "wait"}

\* What a thread in its update has SELECTed: it has just done so, or has had it before.
SeenBy(th) ==
    /\ pc'[th] = "write"
           => \/ pc[th] = "write" /\ seen'[th] = seen[th]
              \/ seen'[th].status = status /\ status' = status
    /\ pc'[th] \in Updated
           => \/ pc[th] \in Updated /\ seen'[th] = seen[th]
              \/ Write(th) /\ seen'[th] = seen[th]

LEMMA SeenStep ==
    ASSUME TypeOK, [Next]_vars, NEW th \in Threads
    PROVE  SeenBy(th)
<1> USE DEF SeenBy, Updated
<1>0. ThreadTypes
    BY DEF TypeOK
<1>1. ASSUME NEW c \in Starts, Spawn(c) \/ Stamp(c) PROVE SeenBy(th)
    BY <1>0, <1>1, ThreadNames DEF Spawn, Stamp, Reading, Goto, ThreadTypes
<1>2. ASSUME NEW c \in Starts, Process(c) PROVE SeenBy(th)
    BY <1>0, <1>2, ThreadNames DEF Process, ReportEnd, Exit, Reading, ThreadTypes, threadVars
<1>3. ASSUME NEW c \in Stops, Stop(c) PROVE SeenBy(th)
    BY <1>0, <1>3, ThreadNames DEF Stop, Reading, ThreadTypes
<1>4. CASE Detect
    BY <1>0, <1>4, ThreadNames DEF Detect, Reading, ThreadTypes
<1>5. ASSUME NEW t \in Threads, Read(t) PROVE SeenBy(th)
    BY <1>0, <1>5 DEF Read, Goto, ThreadTypes, rowVars
<1>6. ASSUME NEW t \in Threads, Write(t) PROVE SeenBy(th)
    BY <1>0, <1>6 DEF Write, Goto, ThreadTypes
<1>7. ASSUME NEW t \in Threads, Continue(t) PROVE SeenBy(th)
    BY <1>0, <1>7, ContinueMoves
<1>8. ASSUME NEW t \in Threads, Return(t) PROVE SeenBy(th)
    BY <1>0, <1>7, <1>8 DEF Return, Returned, Goto, ThreadTypes
<1>9. ASSUME NEW t \in Threads, Report(t) PROVE SeenBy(th)
    BY <1>0, <1>9 DEF Report, Goto, ThreadTypes
<1>10. ASSUME NEW t \in Threads, Answered(t) \/ TimedOut(t) PROVE SeenBy(th)
    BY <1>7, <1>10 DEF Answered, TimedOut
<1>11. CASE Handle \/ Poll \/ UNCHANGED vars
    BY <1>11 DEF Handle, HandleRead, HandleWrite, Poll, vars, threadVars
<1>12. CASE Crash
    BY <1>0, <1>12 DEF Crash, ThreadTypes
<1> QED
    BY <1>1, <1>2, <1>3, <1>4, <1>5, <1>6, <1>8, <1>9, <1>10, <1>11, <1>12 DEF Next, Update

\* The UPDATE of a stop that has seen RUNNING: it takes effect, or another writer was
\* faster, and then the task has ended already.
LEMMA StopWrites ==
    ASSUME TaskInv, NEW c \in Stops, Write(Stopper(c)), seen[Stopper(c)].status = RUNNING
    PROVE  status' \in EndStatus
<1> DEFINE th == Stopper(c)
<1>1. want[th] \in InterruptStatus
    BY DEF TaskInv, StopsInterrupt, Write
<1>2. TaskMayBecome(RUNNING, want[th]) /\ want[th] \in EndStatus
    BY <1>1, InterruptOfRunning
<1>3. status' = IF status = RUNNING THEN want[th] ELSE status
    BY <1>2 DEF Write
<1>4. status \in {RUNNING} \cup EndStatus
    BY ThreadNames DEF TaskInv, StopSaw, Write
<1> QED
    BY <1>2, <1>3, <1>4

LEMMA StopStep ==
    ASSUME TaskInv, [Next]_vars, Moves(status, status'), status' \in TaskStatus
    PROVE  StopSaw' /\ StopEndsTheTask'
<1>0. TypeOK /\ StopSaw /\ StopEndsTheTask /\ status \in TaskStatus
    BY DEF TaskInv, TypeOK, RowTypes
<1>1. SUFFICES ASSUME NEW c \in Stops
               PROVE  /\ pc'[Stopper(c)] = "write" /\ seen'[Stopper(c)].status = RUNNING
                             => status' \in {RUNNING} \cup EndStatus
                      /\ pc'[Stopper(c)] \in Updated /\ seen'[Stopper(c)].status = RUNNING
                             => status' \in EndStatus
    BY DEF StopSaw, StopEndsTheTask, Updated
<1>2. SeenBy(Stopper(c))
    BY <1>0, SeenStep, ThreadNames
<1>3. ASSUME pc'[Stopper(c)] = "write", seen'[Stopper(c)].status = RUNNING
      PROVE  status' \in {RUNNING} \cup EndStatus
    BY <1>0, <1>2, <1>3, MovesOfEnd DEF SeenBy, StopSaw
<1>4. ASSUME pc'[Stopper(c)] \in Updated, seen'[Stopper(c)].status = RUNNING
      PROVE  status' \in EndStatus
  <2>1. CASE pc[Stopper(c)] \in Updated /\ seen'[Stopper(c)] = seen[Stopper(c)]
      BY <1>0, <1>4, <2>1, MovesOfEnd DEF StopEndsTheTask, Updated
  <2>2. CASE Write(Stopper(c)) /\ seen'[Stopper(c)] = seen[Stopper(c)]
      BY <1>4, <2>2, StopWrites
  <2> QED
      BY <1>2, <1>4, <2>1, <2>2 DEF SeenBy
<1> QED
    BY <1>3, <1>4

\* In poll mode only the poll changes the scheduler's row, to what the party's row is.
LEMMA PollStep ==
    ASSUME TaskInv, [Next]_vars, Moves(status, status'), status' \in TaskStatus
    PROVE  PolledVerdict'
<1>0. NoReports /\ PolledVerdict /\ status \in TaskStatus /\ sync' = sync
    BY SyncStays DEF TaskInv, TypeOK, RowTypes
<1>1. SUFFICES ASSUME sync = "poll", sched' \in EndStatus \ {TIMEOUT}
               PROVE  status' = sched'
    BY <1>0 DEF PolledVerdict
<1>2. CASE Poll
    BY <1>0, <1>1, <1>2 DEF Poll, rowVars, PolledVerdict
<1>3. CASE ~Poll
  <2>1. sched' = sched
      BY <1>0, <1>1, <1>3 DEF NoReports, Next, Spawn, Stamp, Process, ReportEnd, Exit, Stop,
         Detect, Update, Read, Write, Return, Report, Answered, TimedOut, Handle, HandleRead,
         Crash, vars, schedVars
  <2> QED
      BY <1>0, <1>1, <2>1, MovesOfEnd DEF PolledVerdict
<1> QED
    BY <1>2, <1>3

LEMMA TaskInvInit == Init => TaskInv
<1> SUFFICES ASSUME Init PROVE TaskInv
    OBVIOUS
<1>1. TypeOK
    BY TypeInit
<1>2. \A th \in Threads : pc[th] = "off"
    BY DEF Init
<1>3. WantsToSet /\ StopsInterrupt /\ StopSaw /\ StopEndsTheTask
    BY <1>2, ThreadNames DEF WantsToSet, StopsInterrupt, StopSaw, StopEndsTheTask
<1>4. NoReports
    BY <1>2 DEF NoReports, Init
<1>5. PolledVerdict
    BY DEF PolledVerdict, Init, EndStatus, WAITING, CANCELED, TIMEOUT, FAILED, PASS, SUCCESS
<1> QED
    BY <1>1, <1>3, <1>4, <1>5 DEF TaskInv

LEMMA TaskInvStep == TaskInv /\ [Next]_vars => TaskInv' /\ Moves(status, status')
<1> SUFFICES ASSUME TaskInv, [Next]_vars PROVE TaskInv' /\ Moves(status, status')
    OBVIOUS
<1>1. TypeOK /\ WantsToSet
    BY DEF TaskInv
<1>2. TypeOK' /\ status' \in TaskStatus
    BY <1>1, TypeStep DEF TypeOK, RowTypes
<1>3. Moves(status, status')
    BY <1>1, StatusMoves
<1> QED
    BY <1>2, <1>3, ThreadStep, StopStep, PollStep DEF TaskInv

LEMMA TaskInvAlways == Spec => []TaskInv
  BY TaskInvInit, TaskInvStep, PTL DEF Spec

\* A stop that found the task RUNNING leaves it ended, whatever other calls, reports,
\* crashes and repeated calls come between its SELECT and its UPDATE (task.py:341-356).
THEOREM StopsEnd == Spec => []StopEndsTheTask
<1>1. TaskInv => StopEndsTheTask
    BY DEF TaskInv
<1> QED
    BY <1>1, TaskInvAlways, PTL

\* In poll mode the scheduler has a verdict only if the party has it (scheduler.py:546).
THEOREM PollIsTrue == Spec => []PolledVerdict
<1>1. TaskInv => PolledVerdict
    BY DEF TaskInv
<1> QED
    BY <1>1, TaskInvAlways, PTL

\* The end status of a task at a party is final, except that TIMEOUT can still be found
\* to be FAILED or SUCCESS (base_saver.py:127-162 with _status.py:86-95).
THEOREM EndsAreFinal == Spec => EndIsFinal
<1>1. TaskInv /\ [Next]_vars
          => [\/ status \notin EndStatus
              \/ status' = status
              \/ status = TIMEOUT /\ status' \in {FAILED, SUCCESS}]_vars
  <2> SUFFICES ASSUME TaskInv, [Next]_vars, status \in EndStatus
               PROVE  status' = status \/ (status = TIMEOUT /\ status' \in {FAILED, SUCCESS})
      OBVIOUS
  <2>1. status \in TaskStatus /\ status' \in TaskStatus /\ Moves(status, status')
      BY TaskInvStep DEF TaskInv, TypeOK, RowTypes
  <2> QED
      BY <2>1, MovesOfEnd
<1> QED
    BY <1>1, TaskInvAlways, PTL DEF Spec, EndIsFinal
-----------------------------------------------------------------------------
(* The cores of the task *)

\* The thread whose update took effect and ended the task is on its way to return
\* the cores.
Returning(th) == pc[th] = "return" /\ took[th] /\ want[th] \in EndStatus

CoresOwed ==
    crashes = 0 /\ status \in EndStatus /\ inUse => \E th \in Threads : Returning(th)

\* Only the RETURN itself and a crash keep such a thread from it.
LEMMA ReturningStays ==
    ASSUME TypeOK, [Next]_vars, NEW th \in Threads, Returning(th)
    PROVE  Returning(th)' \/ Return(th) \/ Crash
<1> USE DEF Returning
<1>0. ThreadTypes
    BY DEF TypeOK
<1>1. ASSUME NEW c \in Starts, Spawn(c) \/ Stamp(c) PROVE Returning(th)'
    BY <1>0, <1>1, ThreadNames DEF Spawn, Stamp, Reading, Goto, ThreadTypes
<1>2. ASSUME NEW c \in Starts, Process(c) PROVE Returning(th)'
    BY <1>0, <1>2, ThreadNames DEF Process, ReportEnd, Exit, Reading, ThreadTypes, threadVars
<1>3. ASSUME NEW c \in Stops, Stop(c) PROVE Returning(th)'
    BY <1>0, <1>3, ThreadNames DEF Stop, Reading, ThreadTypes
<1>4. CASE Detect
    BY <1>0, <1>4, ThreadNames DEF Detect, Reading, ThreadTypes
<1>5. ASSUME NEW t \in Threads, Read(t) \/ Write(t) \/ Report(t) PROVE Returning(th)'
    BY <1>0, <1>5 DEF Read, Write, Report, Goto, ThreadTypes
<1>6. ASSUME NEW t \in Threads \ {th}, Continue(t) PROVE Returning(th)'
  <2>1. pc'[th] = pc[th] /\ want'[th] = want[th]
      BY <1>0, <1>6, ContinueMoves
  <2>2. took' = [took EXCEPT ![t] = FALSE]
      BY <1>6, Zenon DEF Continue
  <2>3. took'[th] = took[th]
      BY <1>0, <2>2 DEF ThreadTypes
  <2> QED
      BY <2>1, <2>3
<1>7. ASSUME NEW t \in Threads \ {th}, Return(t) PROVE Returning(th)'
    BY <1>0, <1>6, <1>7 DEF Return, Returned, Goto, ThreadTypes
<1>8. ASSUME NEW t \in Threads, Answered(t) \/ TimedOut(t) PROVE Returning(th)'
    BY <1>0, <1>6, <1>8 DEF Answered, TimedOut
<1>9. CASE Handle \/ Poll \/ UNCHANGED vars
    BY <1>9 DEF Handle, HandleRead, HandleWrite, Poll, vars, threadVars
<1> QED
    BY <1>1, <1>2, <1>3, <1>4, <1>5, <1>7, <1>8, <1>9 DEF Next, Update

\* A status that is changed to an end owes the cores to the thread that changed it.
LEMMA OwedByWriter ==
    ASSUME TypeOK, NEW th \in Threads, Write(th), status' # status, status' \in EndStatus
    PROVE  Returning(th)'
<1>1. ThreadTypes
    BY DEF TypeOK
<1>2. /\ status' = IF status = seen[th].status THEN want[th] ELSE status
      /\ took' = [took EXCEPT ![th] = status = seen[th].status]
      /\ pc' = [pc EXCEPT ![th] = "return"] /\ want' = want
    BY Zenon DEF Write, Goto
<1>3. status = seen[th].status /\ status' = want[th]
    BY <1>2
<1>4. took'[th]
    BY <1>1, <1>2, <1>3 DEF ThreadTypes
<1> QED
    BY <1>1, <1>2, <1>3, <1>4 DEF Returning, ThreadTypes

LEMMA CoresStep == TaskInv /\ CoresOwed /\ [Next]_vars => CoresOwed'
<1> SUFFICES ASSUME TaskInv, CoresOwed, [Next]_vars, crashes' = 0, status' \in EndStatus, inUse'
             PROVE  \E th \in Threads : Returning(th)'
    BY DEF CoresOwed
<1>1. TypeOK /\ crashes \in Nat
    BY CallsAssumption DEF TaskInv, TypeOK, FaultTypes
<1>2. ~Crash /\ crashes = 0
  <2>1. ~Crash
      BY <1>1 DEF Crash
  <2>2. crashes' = crashes
      BY <2>1 DEF Next, Spawn, Stamp, Process, ReportEnd, Exit, Stop, Detect, Update, Read, Write,
         Return, Report, Answered, TimedOut, Handle, HandleRead, HandleWrite, Poll, vars,
         faultVars
  <2> QED
      BY <2>1, <2>2
<1>3. inUse /\ \A th \in Threads : Return(th) => ~Returning(th)
    BY DEF Next, Spawn, Stamp, Process, ReportEnd, Exit, Stop, Detect, Update, Read, Write,
       Return, Report, Answered, TimedOut, Handle, HandleRead, HandleWrite, Poll, Crash, vars,
       rowVars, Returning
<1>4. CASE status' = status
    BY <1>1, <1>2, <1>3, <1>4, ReturningStays DEF CoresOwed
<1>5. CASE status' # status
  <2>1. PICK th \in Threads : Write(th)
      BY <1>5 DEF Next, Spawn, Stamp, Process, ReportEnd, Exit, Stop, Detect, Update, Read,
         Return, Report, Answered, TimedOut, Handle, HandleRead, HandleWrite, Poll, Crash, vars,
         rowVars
  <2> QED
      BY <1>1, <1>5, <2>1, OwedByWriter
<1> QED
    BY <1>4, <1>5

\* However many calls start, stop and report a task, when they are through the cores of
\* one that has ended are back, if the server has not died on the way (task.py:310-326).
THEOREM CoresReturn == Spec => []CoresComeBack
<1>1. Init => CoresOwed
    BY StatusNames DEF Init, CoresOwed
<1>2. CoresOwed => CoresComeBack
    BY DEF CoresOwed, CoresComeBack, Quiet, Returning
<1> QED
    BY <1>1, <1>2, TaskInvAlways, CoresStep, PTL DEF Spec

-----------------------------------------------------------------------------
(* The books of the cores *)

USE DEF NotRegistering, Operations

\* Taking one element out of a set of jobs takes its demand off the load.
LEMMA LoadRemove ==
    ASSUME NEW S \in SUBSET Jobs, NEW j \in S
    PROVE  /\ Load[S \ {j}] = Load[S] - Demand[j]
           /\ Demand[j] <= Load[S]
<1>1. S \ {j} \in SUBSET Jobs /\ j \in Jobs \ (S \ {j}) /\ (S \ {j}) \cup {j} = S
  OBVIOUS
<1>2. Load[S] = Load[S \ {j}] + Demand[j]
  BY <1>1, LoadAssumption
<1>3. Load[S \ {j}] \in Nat /\ Load[S] \in Nat /\ Demand[j] \in Nat
  BY <1>1, LoadAssumption, DemandAssumption
<1> QED
  BY <1>2, <1>3

\* The same for a set of tasks.
LEMMA TaskLoadRemove ==
    ASSUME NEW S \in SUBSET Tasks, NEW t \in S
    PROVE  /\ TaskLoad[S \ {t}] = TaskLoad[S] - TaskDemand[t]
           /\ TaskDemand[t] <= TaskLoad[S]
<1>1. S \ {t} \in SUBSET Tasks /\ t \in Tasks \ (S \ {t}) /\ (S \ {t}) \cup {t} = S
  OBVIOUS
<1>2. TaskLoad[S] = TaskLoad[S \ {t}] + TaskDemand[t]
  BY <1>1, TaskLoadAssumption
<1>3. TaskLoad[S \ {t}] \in Nat /\ TaskLoad[S] \in Nat /\ TaskDemand[t] \in Nat
  BY <1>1, TaskLoadAssumption, DemandAssumption
<1> QED
  BY <1>2, <1>3

\* Every variable of resource_manager.py's tables keeps its type.
THEOREM BooksTypeCorrect == BooksSpec => []BooksTypeOK
<1>1. BooksInit => BooksTypeOK
  BY DemandAssumption DEF BooksInit, BooksTypeOK
<1>2. BooksTypeOK /\ [BooksNext]_bookVars => BooksTypeOK'
  <2> SUFFICES ASSUME BooksTypeOK, [BooksNext]_bookVars
               PROVE  BooksTypeOK'
    OBVIOUS
  <2> USE DemandAssumption DEF BooksTypeOK, engineVars, taskVars
  <2>1. ASSUME NEW j \in Jobs, NEW op \in Operations, Admit(op, j)
        PROVE  BooksTypeOK'
    BY <2>1 DEF Admit
  <2>2. ASSUME NEW j \in Jobs, ApplyJob(j)
        PROVE  BooksTypeOK'
    BY <2>2 DEF ApplyJob, ApplyJobFits
  <2>3. ASSUME NEW j \in Jobs, ReturnJob(j)
        PROVE  BooksTypeOK'
    BY <2>3 DEF ReturnJob, ReturnJobFits
  <2>4. ASSUME NEW j \in Jobs, DeleteJob(j)
        PROVE  BooksTypeOK'
    BY <2>4 DEF DeleteJob
  <2>5. ASSUME NEW t \in Tasks, ApplyTask(t)
        PROVE  BooksTypeOK'
    BY <2>5 DEF ApplyTask
  <2>6. ASSUME NEW t \in Tasks, ReturnTask(t)
        PROVE  BooksTypeOK'
    BY <2>6 DEF ReturnTask
  <2>7. ASSUME NEW s \in Servers, RegisterRead(s)
        PROVE  BooksTypeOK'
    BY <2>7 DEF RegisterRead
  <2>8. ASSUME NEW s \in Servers, NEW new \in CoreConfigs, RegisterWrite(s, new)
        PROVE  BooksTypeOK'
    BY <2>8 DEF RegisterWrite
  <2>9. CASE UNCHANGED bookVars
    BY <2>9 DEF bookVars
  <2> QED
    BY <2>1, <2>2, <2>3, <2>4, <2>5, <2>6, <2>7, <2>8, <2>9 DEF BooksNext
<1> QED
  BY <1>1, <1>2, PTL DEF BooksSpec

\* EngineConservation is inductive on top of the types.
THEOREM EngineBooks == BooksSpec => []EngineConservation
<1>1. BooksInit => EngineConservation
  BY DemandAssumption, LoadAssumption DEF BooksInit, EngineConservation
<1>2. BooksTypeOK /\ EngineConservation /\ [BooksNext]_bookVars => EngineConservation'
  <2> SUFFICES ASSUME BooksTypeOK, EngineConservation, [BooksNext]_bookVars
               PROVE  EngineConservation'
    OBVIOUS
  <2> USE DEF engineVars, taskVars
  <2>0. /\ remaining \in Int /\ cores \in Nat /\ drift \in Int /\ leaked \in Nat
        /\ jobInUse \in SUBSET Jobs /\ Load[jobInUse] \in Nat
        /\ remaining + Load[jobInUse] + leaked = cores + drift
    BY LoadAssumption DEF BooksTypeOK, EngineConservation
  <2>1. ASSUME NEW j \in Jobs, ApplyJob(j)
        PROVE  EngineConservation'
    <3>1. CASE ApplyJobFits(j)
      <4>1. jobInUse' = jobInUse \cup {j} /\ remaining' = remaining - Demand[j]
            /\ UNCHANGED <<cores, drift, leaked>> /\ j \in Jobs \ jobInUse
        BY <2>1, <3>1 DEF ApplyJob, ApplyJobFits
      <4>2. Load[jobInUse'] = Load[jobInUse] + Demand[j] /\ Demand[j] \in Nat
        BY <2>0, <4>1, LoadAssumption, DemandAssumption
      <4> QED
        BY <2>0, <4>1, <4>2 DEF EngineConservation
    <3>2. CASE ~ApplyJobFits(j)
      BY <2>0, <2>1, <3>2 DEF ApplyJob, EngineConservation
    <3> QED
      BY <3>1, <3>2
  <2>2. ASSUME NEW j \in Jobs, ReturnJob(j)
        PROVE  EngineConservation'
    <3>1. CASE ReturnJobFits(j)
      <4>1. jobInUse' = jobInUse \ {j} /\ remaining' = remaining + Demand[j]
            /\ UNCHANGED <<cores, drift, leaked>> /\ j \in jobInUse
        BY <2>2, <3>1 DEF ReturnJob, ReturnJobFits
      <4>2. Load[jobInUse'] = Load[jobInUse] - Demand[j] /\ Demand[j] \in Nat
        BY <2>0, <4>1, LoadRemove, DemandAssumption
      <4> QED
        BY <2>0, <4>1, <4>2 DEF EngineConservation
    <3>2. CASE ~ReturnJobFits(j)
      BY <2>0, <2>2, <3>2 DEF ReturnJob, EngineConservation
    <3> QED
      BY <3>1, <3>2
  <2>3. ASSUME NEW j \in Jobs, DeleteJob(j)
        PROVE  EngineConservation'
    <3>1. UNCHANGED <<cores, drift, remaining>> /\ jobInUse' = jobInUse \ {j}
      BY <2>3 DEF DeleteJob
    <3>2. CASE j \in jobInUse
      <4>1. Load[jobInUse'] = Load[jobInUse] - Demand[j] /\ leaked' = leaked + Demand[j]
            /\ Demand[j] \in Nat
        BY <2>0, <2>3, <3>1, <3>2, LoadRemove, DemandAssumption DEF DeleteJob
      <4> QED
        BY <2>0, <3>1, <4>1 DEF EngineConservation
    <3>3. CASE j \notin jobInUse
      <4>1. jobInUse' = jobInUse /\ leaked' = leaked
        BY <2>0, <2>3, <3>1, <3>3 DEF DeleteJob
      <4> QED
        BY <2>0, <3>1, <4>1 DEF EngineConservation
    <3> QED
      BY <3>2, <3>3
  <2>4. ASSUME NEW s \in Servers, NEW new \in CoreConfigs, RegisterWrite(s, new)
        PROVE  EngineConservation'
    <3>1. registering[s] \in Int /\ new \in Nat
      BY DemandAssumption DEF BooksTypeOK
    <3>2. /\ cores' = new /\ remaining' = remaining + (new - registering[s])
          /\ drift' = drift + (cores - registering[s])
          /\ jobInUse' = jobInUse /\ leaked' = leaked
      BY <2>4 DEF RegisterWrite
    <3>3. PICK held \in Nat : held = Load[jobInUse] /\ held = Load[jobInUse']
      BY <2>0, <3>2
    <3>4. PICK old \in Int : old = registering[s]
      BY <3>1
    <3>5. remaining + held + leaked = cores + drift
      BY <3>3 DEF EngineConservation
    <3>6. /\ remaining \in Int /\ leaked \in Int /\ cores \in Int /\ drift \in Int
          /\ cores' = new /\ remaining' = remaining + (new - old) /\ drift' = drift + (cores - old)
          /\ leaked' = leaked
      BY <2>0, <3>2, <3>4
    <3>7. remaining' + held + leaked' = cores' + drift'
      BY <3>1, <3>5, <3>6
    <3> QED
      BY <3>3, <3>7 DEF EngineConservation
  <2>5. CASE UNCHANGED <<cores, remaining, jobInUse, drift, leaked>>
    BY <2>5 DEF EngineConservation
  <2> QED
    BY <2>1, <2>2, <2>3, <2>4, <2>5
    DEF BooksNext, bookVars, Admit, ApplyTask, ReturnTask, RegisterRead
<1> QED
  BY <1>1, <1>2, BooksTypeCorrect, PTL DEF BooksSpec

\* A job in use can always give its cores back to the engine's registry, unless
\* registrations overlapped.
THEOREM ReturnsFit == BooksSpec => []ReturnNeverRefused
<1>1. BooksTypeOK /\ EngineConservation => ReturnNeverRefused
  <2> SUFFICES ASSUME BooksTypeOK, EngineConservation, drift <= 0, NEW j \in jobInUse
               PROVE  remaining + Demand[j] <= cores
    BY DEF ReturnNeverRefused
  <2>1. jobInUse \in SUBSET Jobs
    BY DEF BooksTypeOK
  <2>2. Demand[j] <= Load[jobInUse] /\ Load[jobInUse] \in Nat /\ Demand[j] \in Nat
    BY <2>1, LoadRemove, LoadAssumption, DemandAssumption
  <2> QED
    BY <2>2 DEF BooksTypeOK, EngineConservation
<1> QED
  BY <1>1, BooksTypeCorrect, EngineBooks, PTL

\* What the books of the jobs need to be inductive: tasks in use belong to jobs
\* whose rows exist, and no job is in debt.
TasksHaveJobs == \A t \in taskInUse : JobOf[t] \in rows
NoJobDebt == \A j \in Jobs : jobRemaining[j] >= 0
JobBooksInv == JobConservation /\ TasksHaveJobs /\ NoJobDebt

\* The cores of every job and of its tasks balance.
THEOREM JobBooks == BooksSpec => []JobBooksInv
<1> USE DEF JobBooksInv
<1>1. BooksInit => JobBooksInv
  <2> SUFFICES ASSUME BooksInit PROVE JobBooksInv
    OBVIOUS
  <2>1. rows = Jobs /\ taskInUse = {} /\ jobRemaining = Demand
    BY DEF BooksInit
  <2>2. \A j \in rows : TasksOf(j) = {}
    BY <2>1 DEF TasksOf
  <2>3. \A j \in Jobs : Demand[j] \in Nat
    BY DemandAssumption
  <2>4. \A j \in Jobs : jobRemaining[j] \in Nat
    BY <2>1, <2>3, Zenon
  <2>5. ASSUME NEW j \in rows
        PROVE  jobRemaining[j] + TaskLoad[TasksOf(j)] = Demand[j]
    <3>1. TaskLoad[TasksOf(j)] = 0
      BY <2>2, TaskLoadAssumption
    <3>2. jobRemaining[j] = Demand[j]
      BY <2>1, Zenon
    <3>3. Demand[j] \in Nat
      BY <2>1, <2>3, Zenon
    <3> QED
      BY <3>1, <3>2, <3>3
  <2> QED
    BY <2>1, <2>4, <2>5 DEF JobConservation, TasksHaveJobs, NoJobDebt
<1>2. BooksTypeOK /\ JobBooksInv /\ [BooksNext]_bookVars => JobBooksInv'
  <2> SUFFICES ASSUME BooksTypeOK, JobBooksInv, [BooksNext]_bookVars
               PROVE  JobBooksInv'
    OBVIOUS
  <2> USE DEF engineVars, taskVars
  <2>0. /\ taskInUse \in SUBSET Tasks /\ rows \in SUBSET Jobs
        /\ jobRemaining \in [Jobs -> Int]
        /\ \A j \in Jobs : TasksOf(j) \in SUBSET Tasks /\ TaskLoad[TasksOf(j)] \in Nat
    BY TaskLoadAssumption DEF BooksTypeOK, TasksOf
  <2>1. ASSUME NEW t \in Tasks, ApplyTask(t)
        PROVE  JobBooksInv'
    <3>1. JobOf[t] \in Jobs /\ TaskDemand[t] \in Nat /\ t \notin taskInUse
          /\ jobRemaining[JobOf[t]] >= TaskDemand[t]
          /\ taskInUse' = taskInUse \cup {t} /\ rows' = rows /\ JobOf[t] \in rows
          /\ jobRemaining' = [jobRemaining EXCEPT ![JobOf[t]] = @ - TaskDemand[t]]
      BY <2>1, DemandAssumption DEF ApplyTask
    <3>2. ASSUME NEW j \in rows
          PROVE  /\ jobRemaining'[j] + TaskLoad[TasksOf(j)'] = Demand[j]
                 /\ jobRemaining'[j] >= 0
      <4>0. j \in Jobs /\ jobRemaining[j] + TaskLoad[TasksOf(j)] = Demand[j]
            /\ TasksOf(j) \in SUBSET Tasks /\ TaskLoad[TasksOf(j)] \in Nat
            /\ jobRemaining[j] \in Int /\ jobRemaining[j] >= 0 /\ Demand[j] \in Nat
        BY <2>0, DemandAssumption DEF JobConservation, NoJobDebt
      <4>1. CASE j = JobOf[t]
        <5>1. TasksOf(j)' = TasksOf(j) \cup {t} /\ t \in Tasks \ TasksOf(j)
          BY <3>1, <4>1 DEF TasksOf
        <5>2. TaskLoad[TasksOf(j)'] = TaskLoad[TasksOf(j)] + TaskDemand[t]
          BY <4>0, <5>1, TaskLoadAssumption
        <5>3. jobRemaining'[j] = jobRemaining[j] - TaskDemand[t]
          BY <2>0, <3>1, <4>0, <4>1
        <5> QED
          BY <3>1, <4>0, <4>1, <5>2, <5>3
      <4>2. CASE j # JobOf[t]
        <5>1. TasksOf(j)' = TasksOf(j)
          BY <3>1, <4>2 DEF TasksOf
        <5>2. jobRemaining'[j] = jobRemaining[j]
          BY <2>0, <3>1, <4>0, <4>2
        <5> QED
          BY <4>0, <5>1, <5>2
      <4> QED
        BY <4>1, <4>2
    <3>3. JobConservation'
      BY <3>1, <3>2 DEF JobConservation
    <3>4. TasksHaveJobs'
      BY <3>1 DEF TasksHaveJobs
    <3>5. NoJobDebt'
      BY <2>0, <3>1 DEF NoJobDebt
    <3> QED
      BY <3>3, <3>4, <3>5
  <2>2. ASSUME NEW t \in Tasks, ReturnTask(t)
        PROVE  JobBooksInv'
    <3>1. JobOf[t] \in Jobs /\ TaskDemand[t] \in Nat /\ t \in taskInUse
          /\ taskInUse' = taskInUse \ {t} /\ rows' = rows
          /\ jobRemaining' = [jobRemaining EXCEPT ![JobOf[t]] = @ + TaskDemand[t]]
      BY <2>2, DemandAssumption DEF ReturnTask
    <3>2. ASSUME NEW j \in rows
          PROVE  jobRemaining'[j] + TaskLoad[TasksOf(j)'] = Demand[j]
      <4>0. j \in Jobs /\ jobRemaining[j] + TaskLoad[TasksOf(j)] = Demand[j]
            /\ TasksOf(j) \in SUBSET Tasks /\ TaskLoad[TasksOf(j)] \in Nat
            /\ jobRemaining[j] \in Int /\ Demand[j] \in Nat
        BY <2>0, DemandAssumption DEF JobConservation
      <4>1. CASE j = JobOf[t]
        <5>1. TasksOf(j)' = TasksOf(j) \ {t} /\ t \in TasksOf(j)
          BY <3>1, <4>1 DEF TasksOf
        <5>2. TaskLoad[TasksOf(j)'] = TaskLoad[TasksOf(j)] - TaskDemand[t]
          BY <4>0, <5>1, TaskLoadRemove
        <5>3. jobRemaining'[j] = jobRemaining[j] + TaskDemand[t]
          BY <2>0, <3>1, <4>0, <4>1
        <5> QED
          BY <3>1, <4>0, <5>2, <5>3
      <4>2. CASE j # JobOf[t]
        <5>1. TasksOf(j)' = TasksOf(j)
          BY <3>1, <4>2 DEF TasksOf
        <5>2. jobRemaining'[j] = jobRemaining[j]
          BY <2>0, <3>1, <4>0, <4>2
        <5> QED
          BY <4>0, <5>1, <5>2
      <4> QED
        BY <4>1, <4>2
    <3>3. JobConservation'
      BY <3>1, <3>2 DEF JobConservation
    <3>4. TasksHaveJobs'
      BY <3>1 DEF TasksHaveJobs
    <3>5. NoJobDebt'
      BY <2>0, <3>1 DEF NoJobDebt
    <3> QED
      BY <3>3, <3>4, <3>5
  <2>3. ASSUME NEW j \in Jobs, DeleteJob(j)
        PROVE  JobBooksInv'
    <3>1. rows' = rows \ {j} /\ taskInUse' = taskInUse \ TasksOf(j) /\ jobRemaining' = jobRemaining
      BY <2>3 DEF DeleteJob
    <3>2. \A k \in rows' : TasksOf(k)' = TasksOf(k)
      BY <3>1 DEF TasksOf
    <3>3. JobConservation'
      BY <3>1, <3>2 DEF JobConservation
    <3>4. TasksHaveJobs'
      BY <3>1 DEF TasksHaveJobs, TasksOf
    <3> QED
      BY <3>1, <3>3, <3>4 DEF NoJobDebt
  <2>4. CASE UNCHANGED <<rows, jobRemaining, taskInUse>>
    BY <2>4 DEF JobConservation, TasksHaveJobs, NoJobDebt, TasksOf
  <2> QED
    BY <2>1, <2>2, <2>3, <2>4
    DEF BooksNext, bookVars, Admit, ApplyJob, ReturnJob, RegisterRead, RegisterWrite
<1> QED
  BY <1>1, <1>2, BooksTypeCorrect, PTL DEF BooksSpec

\* The tasks of a job stay inside the cores of the job, and the job's books balance.
THEOREM TasksStayInside == BooksSpec => [](JobConservation /\ TasksWithinJob)
<1>1. BooksTypeOK /\ JobBooksInv => JobConservation /\ TasksWithinJob
  <2> SUFFICES ASSUME BooksTypeOK, JobBooksInv, NEW j \in rows
               PROVE  TaskLoad[TasksOf(j)] <= Demand[j]
    BY DEF TasksWithinJob, JobBooksInv
  <2>1. j \in Jobs /\ TasksOf(j) \in SUBSET Tasks
    BY DEF BooksTypeOK, TasksOf
  <2>2. TaskLoad[TasksOf(j)] \in Nat /\ Demand[j] \in Nat /\ jobRemaining[j] \in Int
        /\ jobRemaining[j] >= 0 /\ jobRemaining[j] + TaskLoad[TasksOf(j)] = Demand[j]
    BY <2>1, TaskLoadAssumption, DemandAssumption
    DEF JobBooksInv, NoJobDebt, JobConservation, BooksTypeOK
  <2> QED
    BY <2>2
<1> QED
  BY <1>1, BooksTypeCorrect, JobBooks, PTL

\* With one server the last registration is never overtaken: what it has read is
\* what it writes over.
ReadsAreFresh ==
    (\A s1, s2 \in Servers : s1 = s2)
        => drift = 0 /\ \A s \in Servers : registering[s] \in {cores, NotRegistering}

\* A single server may restart with any configuration, at any time, without a
\* core getting lost.
THEOREM SingleServer == BooksSpec => []NoDriftAlone
<1>1. BooksInit => ReadsAreFresh
  BY DEF BooksInit, ReadsAreFresh
<1>2. BooksTypeOK /\ ReadsAreFresh /\ [BooksNext]_bookVars => ReadsAreFresh'
  <2> SUFFICES ASSUME BooksTypeOK, ReadsAreFresh, [BooksNext]_bookVars,
                      \A s1, s2 \in Servers : s1 = s2
               PROVE  /\ drift' = 0
                      /\ \A s \in Servers : registering'[s] \in {cores', NotRegistering}
    BY DEF ReadsAreFresh
  <2>0. /\ drift = 0 /\ cores \in Nat
        /\ \A s \in Servers : registering[s] \in {cores, NotRegistering}
        /\ registering \in [Servers -> Nat \cup {NotRegistering}]
    BY DEF ReadsAreFresh, BooksTypeOK
  <2>1. ASSUME NEW s \in Servers, RegisterRead(s)
        PROVE  drift' = 0 /\ \A r \in Servers : registering'[r] \in {cores', NotRegistering}
    BY <2>0, <2>1 DEF RegisterRead
  <2>2. ASSUME NEW s \in Servers, NEW new \in CoreConfigs, RegisterWrite(s, new)
        PROVE  drift' = 0 /\ \A r \in Servers : registering'[r] \in {cores', NotRegistering}
    BY <2>0, <2>2 DEF RegisterWrite
  <2>3. CASE UNCHANGED <<cores, registering, drift>>
    BY <2>0, <2>3
  <2> QED
    BY <2>1, <2>2, <2>3
    DEF BooksNext, bookVars, engineVars, Admit, ApplyJob, ReturnJob, DeleteJob, ApplyTask, ReturnTask
<1>3. ReadsAreFresh => NoDriftAlone
  BY DEF ReadsAreFresh, NoDriftAlone
<1> QED
  BY <1>1, <1>2, <1>3, BooksTypeCorrect, PTL DEF BooksSpec

\* No call for a job or a task puts the engine into debt.
THEOREM CallsMakeNoDebt == BooksSpec => NoCallMakesDebt
<1>1. BooksTypeOK /\ [BooksNext]_bookVars
        => [registering' = registering => remaining' >= remaining \/ remaining' >= 0]_bookVars
  <2> SUFFICES ASSUME BooksTypeOK, [BooksNext]_bookVars, registering' = registering
               PROVE  remaining' >= remaining \/ remaining' >= 0
    OBVIOUS
  <2>0. remaining \in Int /\ \A j \in Jobs : Demand[j] \in Nat
    BY DemandAssumption DEF BooksTypeOK
  <2>1. ASSUME NEW j \in Jobs, ApplyJob(j)
        PROVE  remaining' >= remaining \/ remaining' >= 0
    BY <2>0, <2>1 DEF ApplyJob, ApplyJobFits
  <2>2. ASSUME NEW j \in Jobs, ReturnJob(j)
        PROVE  remaining' >= remaining
    BY <2>0, <2>2 DEF ReturnJob
  <2>3. ASSUME NEW s \in Servers, NEW new \in CoreConfigs, RegisterWrite(s, new)
        PROVE  FALSE
    BY <2>3 DEF RegisterWrite, BooksTypeOK
  <2>4. CASE remaining' = remaining
    BY <2>0, <2>4
  <2> QED
    BY <2>1, <2>2, <2>3, <2>4
    DEF BooksNext, bookVars, Admit, DeleteJob, ApplyTask, ReturnTask, RegisterRead
<1> QED
  BY <1>1, BooksTypeCorrect, PTL DEF BooksSpec, NoCallMakesDebt
==============================================================================
