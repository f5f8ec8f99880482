------------------------- MODULE JobSchedulingProofs -------------------------
(***************************************************************************)
(* What holds of a job for any number of parties, tasks, losses, crashes   *)
(* and cancels: a task is started only after those it depends on have      *)
(* succeeded everywhere; a job that is SUCCESS has succeeded, unless in    *)
(* callback mode as much got lost as there are parties; and a job that a   *)
(* round has ended has ended at every party, unless more than one fault    *)
(* came between.                                                           *)
(***************************************************************************)
EXTENDS JobScheduling, FiniteSetTheorems, TLAPS

Statuses == TaskStatus \ {PASS}
Callback == job.sync = "callback"
NotBegun(t) == \A x \in Of(t) : ts[x] = WAITING

\* The parties from which the scheduler has not heard that the task runs.
Silent(t) == {p \in Parties : st[<<p, t>>] = WAITING}

JobTypes ==
    /\ job \in Jobs /\ lost \in Nat
    /\ st \in [Copies -> Statuses] /\ ts \in [Copies -> Statuses]
    /\ mem \in [Tasks -> Statuses] /\ agg \in [Tasks -> Statuses]
    /\ alive \subseteq Copies /\ todo \subseteq Tasks
    /\ pjob \in [Parties -> JobStatus]

\* Where a round is, and what it has made sure of by then.
RoundInv ==
    /\ pc \in {"judge", "halt", "launch", "failed"} => cur \in Tasks
    /\ pc \in {"start", "launch"} => todo = {}
    /\ pc = "halt" => mem[cur] \in EndStatus
    /\ pc = "finish" => NewJobStatus \in EndStatus
    /\ pc = "launch" => mem[cur] # WAITING /\ (Heard => \A u \in job.deps[cur] : Succeeded(u))

\* No SUCCESS in the scheduler's rows, nor in the memory of a round, is made up.
TrueReports == \A x \in Copies : st[x] = SUCCESS => ts[x] = SUCCESS
TrueMemory == \A t \in Tasks : mem[t] = SUCCESS \/ agg[t] = SUCCESS => Succeeded(t)

\* In callback mode: a task is started once.
AliveRuns == \A x \in alive : ts[x] = RUNNING
HeardOfHasBegun == \A x \in Copies : ts[x] = WAITING => st[x] = WAITING
SilenceIsLoss == \A t \in Tasks : NotBegun(t) \/ Cardinality(Silent(t)) <= lost
WaitingIsNotBegun ==
    /\ pc \in {"look", "judge", "halt", "start", "launch"} =>
         \A t \in Tasks \ todo : mem[t] = WAITING /\ (pc = "judge" => t # cur) => NotBegun(t)
    /\ pc = "launch" => NotBegun(cur)

OnceInv == AliveRuns /\ HeardOfHasBegun /\ SilenceIsLoss /\ WaitingIsNotBegun

JobIInv ==
    /\ JobTypes /\ RoundInv /\ SuccessIsReal
    /\ Heard => TrueReports /\ TrueMemory /\ (Callback => OnceInv)

-----------------------------------------------------------------------------
(* Statuses *)

LEMMA StatusNames ==
    /\ {WAITING, RUNNING, CANCELED, TIMEOUT, FAILED, SUCCESS} = Statuses
    /\ InterruptStatus \subseteq EndStatus
    /\ WAITING \notin EndStatus /\ RUNNING \notin EndStatus
    /\ WAITING \notin InterruptStatus /\ SUCCESS \notin InterruptStatus
  BY DEF Statuses, TaskStatus, InterruptStatus, EndStatus, WAITING, RUNNING, CANCELED, TIMEOUT,
         FAILED, PASS, SUCCESS

\* SUCCESS is final; a task that waits runs or succeeds next, and none comes to wait again
\* but by being set to.
LEMMA MovedStatus ==
    ASSUME NEW s \in Statuses, NEW new \in Statuses
    PROVE  /\ TaskMoved(s, new) \in {s, new}
           /\ s = SUCCESS => TaskMoved(s, new) = SUCCESS
           /\ s = WAITING /\ new \notin {RUNNING, SUCCESS} => TaskMoved(s, new) = WAITING
           /\ s = WAITING /\ new \in {RUNNING, SUCCESS} => TaskMoved(s, new) = new
           /\ s = RUNNING /\ new \in EndStatus => TaskMoved(s, new) = new
           /\ s # WAITING /\ new # WAITING => TaskMoved(s, new) # WAITING
  BY DEF TaskMoved, TaskMayBecome, TaskRules, Statuses, TaskStatus, EndStatus, WAITING, RUNNING,
         CANCELED, TIMEOUT, FAILED, PASS, SUCCESS

LEMMA UpdateFacts ==
    ASSUME NEW f \in [Copies -> Statuses], NEW X, NEW new \in Statuses
    PROVE  /\ Update(f, X, new) \in [Copies -> Statuses]
           /\ \A x \in Copies :
                Update(f, X, new)[x] = IF x \in X THEN TaskMoved(f[x], new) ELSE f[x]
<1>1. \A x \in Copies : TaskMoved(f[x], new) \in Statuses
    BY MovedStatus
<1> QED
    BY <1>1 DEF Update

LEMMA ReportFacts ==
    ASSUME NEW f \in [Copies -> Statuses], NEW X, NEW new \in Statuses
    PROVE  /\ Report(f, X, new) \in [Copies -> Statuses]
           /\ ~Callback => Report(f, X, new) = f
           /\ Callback => Report(f, X, new) = Update(f, X, new)
  BY UpdateFacts DEF Report, Callback

\* The status of a task over its parties.
LEMMA FederatedStatus ==
    ASSUME NEW S \in SUBSET Statuses, S # {}
    PROVE  /\ FederatedTaskStatus(S) \in Statuses
           /\ FederatedTaskStatus(S) = SUCCESS => S = {SUCCESS}
           /\ FederatedTaskStatus(S) = WAITING => S = {WAITING}
<1>1. Merged(S) = S
    BY DEF Merged, Statuses
<1>2. CASE \E s \in S : S = {s}
  <2>1. PICK s \in S : S = {s}
      BY <1>2
  <2>2. FederatedTaskStatus(S) = s
      BY <1>1, <2>1 DEF FederatedTaskStatus
  <2> QED
      BY <2>1, <2>2
<1>3. CASE ~ \E s \in S : S = {s}
  <2>1. FederatedTaskStatus(S) = IF S \cap InterruptStatus # {} THEN LowestInterrupt(S) ELSE RUNNING
      BY <1>1, <1>3 DEF FederatedTaskStatus
  <2>2. LowestInterrupt(S) \in {CANCELED, TIMEOUT, FAILED}
      BY DEF LowestInterrupt
  <2> QED
      BY <2>1, <2>2 DEF Statuses, TaskStatus, WAITING, RUNNING, CANCELED, TIMEOUT, FAILED, PASS, SUCCESS
<1> QED
    BY <1>2, <1>3

LEMMA JobStatusFacts ==
    ASSUME NEW S \in SUBSET Statuses, S # {}, NEW next \in BOOLEAN
    PROVE  /\ FederatedJobStatus(next, S) \in Statuses
           /\ FederatedJobStatus(next, S) = SUCCESS => S = {SUCCESS}
<1>1. Merged(S) = S
    BY DEF Merged, Statuses
<1>2. CASE \E s \in S : S = {s}
  <2>1. PICK s \in S : S = {s}
      BY <1>2
  <2>2. FederatedJobStatus(next, S) = s
      BY <1>1, <2>1 DEF FederatedJobStatus
  <2> QED
      BY <2>1, <2>2
<1>3. CASE ~ \E s \in S : S = {s}
  <2>1. FederatedJobStatus(next, S) \in {RUNNING, HighestInterrupt(S), CANCELED}
      BY <1>1, <1>3 DEF FederatedJobStatus
  <2>2. HighestInterrupt(S) \in {CANCELED, TIMEOUT, FAILED}
      BY DEF HighestInterrupt
  <2> QED
      BY <2>1, <2>2 DEF Statuses, TaskStatus, WAITING, RUNNING, CANCELED, TIMEOUT, FAILED, PASS, SUCCESS
<1> QED
    BY <1>2, <1>3

LEMMA NewJobStatusFacts ==
    ASSUME JobTypes
    PROVE  /\ NewJobStatus \in Statuses
           /\ NewJobStatus = SUCCESS => \A t \in Tasks : mem[t] = SUCCESS
<1>1. {mem[t] : t \in Tasks} \in SUBSET Statuses /\ {mem[t] : t \in Tasks} # {}
    BY JobAssumption DEF JobTypes
<1>2. (code = "next") \in BOOLEAN
    OBVIOUS
<1>3. /\ FederatedJobStatus(code = "next", {mem[t] : t \in Tasks}) \in Statuses
      /\ FederatedJobStatus(code = "next", {mem[t] : t \in Tasks}) = SUCCESS
           => {mem[t] : t \in Tasks} = {SUCCESS}
    BY <1>1, <1>2, JobStatusFacts
<1>4. NewJobStatus \in {FederatedJobStatus(code = "next", {mem[t] : t \in Tasks}), CANCELED}
    BY DEF NewJobStatus
<1> QED
    BY <1>3, <1>4 DEF Statuses, TaskStatus, CANCELED, SUCCESS, PASS
-----------------------------------------------------------------------------
(* Losses *)

LEMMA LossNumber ==
    ASSUME NEW P \in SUBSET Parties
    PROVE  IsFiniteSet(P) /\ Cardinality(P) \in Nat
  BY JobAssumption, FS_Subset, FS_CardinalityType

LEMMA ReportNumber ==
    ASSUME NEW X \in SUBSET Copies
    PROVE  IsFiniteSet(X) /\ Cardinality(X) \in Nat
  BY JobAssumption, FS_Product, FS_Subset, FS_CardinalityType DEF Copies

LEMMA LossTypes ==
    /\ Losses \subseteq SUBSET Parties
    /\ \A X \in SUBSET Copies : LostReports(X) \subseteq SUBSET X
    /\ \A X : ~Callback => LostReports(X) = {{}}
  BY DEF Losses, LostReports, Callback

LEMMA ToStopType == \A P : ToStop(P) \subseteq Copies
  BY DEF ToStop

LEMMA LosesMore ==
    ASSUME lost \in Nat, NEW n \in Nat, Lose(n)
    PROVE  lost' \in Nat /\ lost' >= lost
  BY DEF Lose

\* A copy that waits goes on waiting, and none comes to wait again.
WaitsOn(x) ==
    /\ ts'[x] = WAITING <=> ts[x] = WAITING
    /\ ts[x] = WAITING => st'[x] = WAITING
    /\ st'[x] = WAITING => st[x] = WAITING

\* The row of a task at the scheduler and at the party, in any step but the start of it.
RowsMove ==
    /\ lost' \in Nat /\ lost' >= lost
    /\ st' \in [Copies -> Statuses] /\ ts' \in [Copies -> Statuses] /\ alive' \subseteq alive
    /\ \A x \in Copies : ts[x] = SUCCESS => ts'[x] = SUCCESS
    /\ Heard => TrueReports'
    /\ Heard /\ Callback =>
         /\ \A x \in alive' : ts'[x] = RUNNING
         /\ \A x \in Copies : WaitsOn(x)

LEMMA RowsStay ==
    ASSUME JobIInv, lost' \in Nat, lost' >= lost, UNCHANGED <<st, ts>>, alive' \subseteq alive
    PROVE  RowsMove
<1>1. /\ st' = st /\ ts' = ts
      /\ lost' \in Nat /\ lost' >= lost
      /\ st \in [Copies -> Statuses] /\ ts \in [Copies -> Statuses]
      /\ Heard => TrueReports
      /\ Heard /\ Callback => AliveRuns /\ HeardOfHasBegun
    BY DEF JobIInv, JobTypes, OnceInv
<1>2. Heard => TrueReports'
    BY <1>1 DEF TrueReports
<1>3. Heard /\ Callback =>
         /\ \A x \in alive' : ts'[x] = RUNNING
         /\ \A x \in Copies : WaitsOn(x)
    BY <1>1 DEF AliveRuns, HeardOfHasBegun, WaitsOn
<1> QED
    BY <1>1, <1>2, <1>3 DEF RowsMove

\* Tasks are set to s, and their processes are gone, for a status that is an interrupt or
\* is theirs already.
LEMMA StopTasksMoves ==
    ASSUME JobIInv, NEW X \in SUBSET Copies, NEW s \in Statuses \ {WAITING, RUNNING},
           Heard /\ s = SUCCESS => \A x \in X : ts[x] = SUCCESS,
           NEW unreported \in SUBSET X, StopTasks(X, s, unreported),
           lost' \in Nat, lost' >= lost
    PROVE  RowsMove
<1>0. /\ st \in [Copies -> Statuses] /\ ts \in [Copies -> Statuses] /\ alive \subseteq Copies
      /\ Heard => TrueReports
      /\ Heard /\ Callback => AliveRuns /\ HeardOfHasBegun
    BY DEF JobIInv, JobTypes, OnceInv
<1>1. /\ ts' = Update(ts, X, s) /\ alive' = alive \ X
      /\ st' = Report(st, X \ unreported, s)
    BY DEF StopTasks
<1>2. /\ ts' \in [Copies -> Statuses] /\ st' \in [Copies -> Statuses]
      /\ \A x \in Copies : ts'[x] = IF x \in X THEN TaskMoved(ts[x], s) ELSE ts[x]
      /\ \A x \in Copies : st'[x] = st[x] \/ (x \in X /\ st'[x] = TaskMoved(st[x], s))
      /\ ~Callback => st' = st
    BY <1>0, <1>1, UpdateFacts, ReportFacts
<1>3. \A x \in Copies : ts[x] = SUCCESS => ts'[x] = SUCCESS
    BY <1>0, <1>2, MovedStatus
<1>4. Heard => TrueReports'
  <2> SUFFICES ASSUME Heard, NEW x \in Copies, st'[x] = SUCCESS PROVE ts'[x] = SUCCESS
      BY DEF TrueReports
  <2>1. st[x] \in Statuses
      BY <1>0
  <2>2. st[x] = SUCCESS \/ (x \in X /\ s = SUCCESS)
      BY <1>2, <2>1, MovedStatus
  <2> QED
      BY <1>0, <1>3, <2>2 DEF TrueReports
<1>5. ASSUME Heard, Callback
      PROVE  /\ \A x \in alive' : ts'[x] = RUNNING
             /\ \A x \in Copies : WaitsOn(x)
  <2>1. \A x \in alive' : ts'[x] = RUNNING
      BY <1>0, <1>1, <1>2, <1>5 DEF AliveRuns
  <2>2. ASSUME NEW x \in Copies PROVE WaitsOn(x)
    <3>1. st[x] \in Statuses /\ ts[x] \in Statuses
        BY <1>0
    <3>2. ts[x] = WAITING => st[x] = WAITING /\ (x \in X => s \notin {RUNNING, SUCCESS})
        BY <1>0, <1>5, <2>2 DEF HeardOfHasBegun, WAITING, SUCCESS
    <3> QED
        BY <1>2, <2>2, <3>1, <3>2, MovedStatus DEF WaitsOn
  <2> QED
      BY <2>1, <2>2
<1> QED
    BY <1>0, <1>1, <1>2, <1>3, <1>4, <1>5 DEF RowsMove

\* The scheduler's stop, by who misses what.
StopJobWith(s, missed, unanswered, stuck, unreported, deaf) ==
    LET X == ToStop(Parties \ missed)
        told == Report(st, X \ unreported, FAILED)
    IN
    /\ JobsStopped(Parties \ missed, stuck, FAILED)
    /\ ts' = Update(ts, X, FAILED)
    /\ alive' = alive \ X
    /\ st' = [x \in Copies |->
                 IF missed \cup unanswered \cup stuck = {} THEN told[x]
                 ELSE IF x[1] \in deaf THEN TaskMoved(told[x], s)
                 ELSE TaskMoved(told[x], ts'[x])]
    /\ Lose(Cardinality(missed) + Cardinality(unanswered) + Cardinality(stuck)
            + Cardinality(unreported))

LEMMA StopJobParts ==
    ASSUME NEW s, StopJob(s)
    PROVE  \E missed, unanswered, stuck \in Losses :
               \E unreported \in LostReports(ToStop(Parties \ missed)),
                  deaf \in SUBSET (missed \cup unanswered) :
                   StopJobWith(s, missed, unanswered, stuck, unreported, deaf)
  BY ZenonT(60) DEF StopJob, StopJobWith

\* The scheduler stops the job: for an interrupt, or because every task has succeeded.
LEMMA StopJobMoves ==
    ASSUME JobIInv, NEW s \in Statuses \ {WAITING, RUNNING}, StopJob(s),
           Heard /\ s = SUCCESS => \A t \in Tasks : Succeeded(t)
    PROVE  RowsMove /\ (\E P, stuck \in SUBSET Parties : JobsStopped(P, stuck, FAILED))
<1>0. /\ st \in [Copies -> Statuses] /\ ts \in [Copies -> Statuses] /\ alive \subseteq Copies
      /\ lost \in Nat
      /\ Heard => TrueReports
      /\ Heard /\ Callback => AliveRuns /\ HeardOfHasBegun
    BY DEF JobIInv, JobTypes, OnceInv
<1>a. PICK missed \in Losses, unanswered \in Losses, stuck \in Losses :
         \E unreported \in LostReports(ToStop(Parties \ missed)),
               deaf \in SUBSET (missed \cup unanswered) :
             StopJobWith(s, missed, unanswered, stuck, unreported, deaf)
    BY StopJobParts
<1>b. PICK unreported \in LostReports(ToStop(Parties \ missed)),
               deaf \in SUBSET (missed \cup unanswered) :
         StopJobWith(s, missed, unanswered, stuck, unreported, deaf)
    BY <1>a
<1>1. LET reached == Parties \ missed
          told == Report(st, ToStop(reached) \ unreported, FAILED)
      IN
      /\ JobsStopped(reached, stuck, FAILED)
      /\ ts' = Update(ts, ToStop(reached), FAILED)
      /\ alive' = alive \ ToStop(reached)
      /\ st' = [x \in Copies |->
                   IF missed \cup unanswered \cup stuck = {} THEN told[x]
                   ELSE IF x[1] \in deaf THEN TaskMoved(told[x], s)
                   ELSE TaskMoved(told[x], ts'[x])]
      /\ Lose(Cardinality(missed) + Cardinality(unanswered) + Cardinality(stuck)
              + Cardinality(unreported))
    BY <1>b DEF StopJobWith
<1> DEFINE X == ToStop(Parties \ missed)
           told == Report(st, X \ unreported, FAILED)
<1>2. X \in SUBSET Copies /\ unreported \in SUBSET Copies
    BY ToStopType, LossTypes
<1>3. lost' \in Nat /\ lost' >= lost
  <2>1. /\ Cardinality(missed) \in Nat /\ Cardinality(unanswered) \in Nat
        /\ Cardinality(stuck) \in Nat /\ Cardinality(unreported) \in Nat
      BY <1>2, LossTypes, LossNumber, ReportNumber
  <2> QED
      BY <1>0, <1>1, <2>1, LosesMore
<1>4. FAILED \in Statuses /\ FAILED \notin {RUNNING, SUCCESS, WAITING}
    BY StatusNames DEF FAILED, RUNNING, SUCCESS, WAITING
<1>5. /\ ts' \in [Copies -> Statuses] /\ told \in [Copies -> Statuses]
      /\ \A x \in Copies : ts'[x] = IF x \in X THEN TaskMoved(ts[x], FAILED) ELSE ts[x]
      /\ \A x \in Copies : told[x] = st[x] \/ told[x] = TaskMoved(st[x], FAILED)
  <2>1. /\ ts' \in [Copies -> Statuses]
        /\ \A x \in Copies : ts'[x] = IF x \in X THEN TaskMoved(ts[x], FAILED) ELSE ts[x]
      BY <1>0, <1>1, <1>4, UpdateFacts
  <2>2. /\ told \in [Copies -> Statuses]
        /\ ~Callback => told = st
        /\ Callback => told = Update(st, X \ unreported, FAILED)
      BY <1>0, <1>4, ReportFacts
  <2> DEFINE Y == X \ unreported
  <2> HIDE DEF Y
  <2>3. \A x \in Copies : Update(st, Y, FAILED)[x] = IF x \in Y THEN TaskMoved(st[x], FAILED) ELSE st[x]
      BY <1>0, <1>4, UpdateFacts
  <2> USE DEF Y
  <2> QED
      BY <2>1, <2>2, <2>3
<1>6. \A x \in Copies : st'[x] \in {told[x], TaskMoved(told[x], s), TaskMoved(told[x], ts'[x])}
    BY <1>1, Zenon
<1>11. alive' = alive \ X
    BY <1>1
<1> HIDE DEF X, told
<1>7. st' \in [Copies -> Statuses]
  <2>1. \A x \in Copies : told[x] \in Statuses /\ ts'[x] \in Statuses
      BY <1>5
  <2>2. \A x \in Copies : TaskMoved(told[x], s) \in Statuses /\ TaskMoved(told[x], ts'[x]) \in Statuses
      BY <2>1, MovedStatus
  <2>3. \A x \in Copies : st'[x] \in Statuses
      BY <1>6, <2>1, <2>2
  <2>4. DOMAIN st' = Copies /\ st' = [x \in Copies |-> st'[x]]
      BY <1>1, Zenon
  <2> QED
      BY <2>3, <2>4
<1>8. \A x \in Copies : ts[x] = SUCCESS => ts'[x] = SUCCESS
    BY <1>0, <1>4, <1>5, MovedStatus
<1>9. Heard => TrueReports'
  <2> SUFFICES ASSUME Heard, NEW x \in Copies, st'[x] = SUCCESS PROVE ts'[x] = SUCCESS
      BY DEF TrueReports
  <2>1. st[x] \in Statuses /\ told[x] \in Statuses /\ ts'[x] \in Statuses /\ ts[x] \in Statuses
      BY <1>0, <1>5
  <2>2. told[x] = SUCCESS => st[x] = SUCCESS
      BY <1>4, <1>5, <2>1, MovedStatus
  <2>3. told[x] = SUCCESS \/ s = SUCCESS \/ ts'[x] = SUCCESS
      BY <1>6, <2>1, MovedStatus
  <2>4. s = SUCCESS => ts[x] = SUCCESS
      BY DEF Succeeded, Of, Copies
  <2> QED
      BY <1>0, <1>8, <2>2, <2>3, <2>4 DEF TrueReports
<1>10. ASSUME Heard, Callback
       PROVE  /\ \A x \in alive' : ts'[x] = RUNNING
              /\ \A x \in Copies : WaitsOn(x)
  <2>1. \A x \in alive' : ts'[x] = RUNNING
      BY <1>0, <1>4, <1>5, <1>10, <1>11, MovedStatus DEF AliveRuns
  <2>2. ASSUME NEW x \in Copies PROVE WaitsOn(x)
    <3>1. st[x] \in Statuses /\ ts[x] \in Statuses /\ told[x] \in Statuses /\ ts'[x] \in Statuses
        BY <1>0, <1>5
    <3>2. ts[x] = WAITING => ts'[x] = WAITING /\ st[x] = WAITING
        BY <1>0, <1>4, <1>5, <1>10, <3>1, MovedStatus DEF HeardOfHasBegun
    <3>3. s = SUCCESS => ts[x] # WAITING
        BY <1>10 DEF Succeeded, Of, Copies, SUCCESS, WAITING
    <3>4. told[x] = WAITING <=> st[x] = WAITING
        BY <1>4, <1>5, <3>1, MovedStatus
    <3>5. ts[x] = WAITING => st'[x] = WAITING
      <4> SUFFICES ASSUME ts[x] = WAITING PROVE st'[x] = WAITING
          OBVIOUS
      <4>1. told[x] = WAITING /\ ts'[x] = WAITING /\ s \notin {RUNNING, SUCCESS}
          BY <3>2, <3>3, <3>4
      <4>2. TaskMoved(told[x], s) = WAITING /\ TaskMoved(told[x], ts'[x]) = WAITING
          BY <3>1, <4>1, MovedStatus
      <4> QED
          BY <1>6, <4>1, <4>2
    <3>6. ts'[x] = WAITING => ts[x] = WAITING
        BY <1>4, <1>5, <3>1, MovedStatus
    <3>7. st'[x] = WAITING => st[x] = WAITING
      <4> SUFFICES ASSUME st'[x] = WAITING, told[x] # WAITING PROVE st[x] = WAITING
          BY <3>4
      <4>1. TaskMoved(told[x], s) # WAITING
          BY <3>1, MovedStatus
      <4>2. ts'[x] = WAITING
          BY <1>6, <3>1, <4>1, MovedStatus
      <4> QED
          BY <3>2, <3>6, <4>2
    <3> QED
        BY <3>2, <3>5, <3>6, <3>7 DEF WaitsOn
  <2> QED
      BY <2>1, <2>2
<1>12. \E P, halting \in SUBSET Parties : JobsStopped(P, halting, FAILED)
  <2>1. Parties \ missed \in SUBSET Parties /\ stuck \in SUBSET Parties
      BY LossTypes
  <2>2. JobsStopped(Parties \ missed, stuck, FAILED)
      BY <1>1, Zenon
  <2> QED
      BY <2>1, <2>2
<1>13. RowsMove
    BY <1>0, <1>1, <1>3, <1>5, <1>7, <1>8, <1>9, <1>10, <1>11 DEF RowsMove
<1> QED
    BY <1>12, <1>13
-----------------------------------------------------------------------------
(* Steps that start nothing *)

\* What RowsMove keeps of the invariant.
LEMMA RowsKeep ==
    ASSUME JobIInv, RowsMove, job' = job
    PROVE  /\ Heard' => Heard /\ TrueReports'
           /\ \A t \in Tasks : Succeeded(t) => Succeeded(t)'
           /\ Heard' /\ Callback =>
                /\ AliveRuns' /\ HeardOfHasBegun' /\ SilenceIsLoss'
                /\ \A t \in Tasks : NotBegun(t) => NotBegun(t)'
<1>0. /\ lost \in Nat /\ lost' \in Nat /\ lost' >= lost
      /\ Heard /\ Callback => SilenceIsLoss
    BY DEF JobIInv, JobTypes, RowsMove, OnceInv
<1>1. Heard' => Heard
  <2>1. Cardinality(Parties) \in Nat
      BY LossNumber
  <2> QED
      BY <1>0, <2>1 DEF Heard
<1>2. Heard' => TrueReports'
    BY <1>1 DEF RowsMove
<1>3. \A t \in Tasks : Succeeded(t) => Succeeded(t)'
    BY DEF RowsMove, Succeeded, Of, Copies
<1>4. ASSUME Heard', Callback
      PROVE  /\ AliveRuns' /\ HeardOfHasBegun' /\ SilenceIsLoss'
             /\ \A t \in Tasks : NotBegun(t) => NotBegun(t)'
  <2>0. \A x \in Copies : WaitsOn(x)
      BY <1>1, <1>4 DEF RowsMove
  <2>1. AliveRuns'
      BY <1>1, <1>4 DEF RowsMove, AliveRuns
  <2>2. HeardOfHasBegun'
      BY <2>0 DEF WaitsOn, HeardOfHasBegun
  <2>3. \A t \in Tasks : NotBegun(t) => NotBegun(t)'
      BY <2>0 DEF WaitsOn, NotBegun, Of, Copies
  <2>4. SilenceIsLoss'
    <3> SUFFICES ASSUME NEW t \in Tasks, ~NotBegun(t)' PROVE Cardinality(Silent(t)') <= lost'
        BY DEF SilenceIsLoss
    <3>1. Cardinality(Silent(t)) <= lost
        BY <1>0, <1>1, <1>4, <2>3 DEF SilenceIsLoss
    <3>2. Silent(t)' \subseteq Silent(t)
        BY <2>0 DEF Silent, WaitsOn, Copies
    <3>3. Silent(t) \in SUBSET Parties /\ Silent(t)' \in SUBSET Parties
        BY <3>2 DEF Silent
    <3>4. IsFiniteSet(Silent(t)) /\ Cardinality(Silent(t)) \in Nat /\ Cardinality(Silent(t)') \in Nat
        BY <3>3, LossNumber
    <3>5. Cardinality(Silent(t)') <= Cardinality(Silent(t))
        BY <3>2, <3>4, FS_Subset
    <3> QED
        BY <1>0, <3>1, <3>4, <3>5
  <2> QED
      BY <2>1, <2>2, <2>3, <2>4
<1> QED
    BY <1>1, <1>2, <1>3, <1>4

\* Some parties take the status s of the job, if they may.
PartiesMove(s) ==
    /\ pjob' \in [Parties -> JobStatus]
    /\ \A p \in Parties : pjob'[p] \in {pjob[p], s}

LEMMA PartiesStopped ==
    ASSUME JobIInv, NEW P, NEW stuck, NEW s \in Statuses, JobsStopped(P, stuck, s)
    PROVE  PartiesMove(s)
<1>1. pjob \in [Parties -> JobStatus] /\ s \in JobStatus
    BY DEF JobIInv, JobTypes, Statuses, TaskStatus, JobStatus
<1>2. \A p \in Parties : JobMoved(pjob[p], s) \in {pjob[p], s}
    BY DEF JobMoved
<1> QED
    BY <1>1, <1>2 DEF JobsStopped, PartiesMove

LEMMA PartiesSynced ==
    ASSUME JobIInv, NEW P, NEW s \in Statuses, JobsSynced(P, s)
    PROVE  PartiesMove(s)
<1>1. pjob \in [Parties -> JobStatus] /\ s \in JobStatus
    BY DEF JobIInv, JobTypes, Statuses, TaskStatus, JobStatus
<1>2. \A p \in Parties : JobMoved(pjob[p], s) \in {pjob[p], s}
    BY DEF JobMoved
<1> QED
    BY <1>1, <1>2 DEF JobsSynced, PartiesMove

JobSuccess == sjob = SUCCESS \/ \E p \in Parties : pjob[p] = SUCCESS

\* The invariant after such a step, from what the step does to the memory of the round.
LEMMA StepKeeps ==
    ASSUME JobIInv, RowsMove, job' = job, RoundInv', todo' \subseteq Tasks,
           mem' \in [Tasks -> Statuses], agg' \in [Tasks -> Statuses],
           pjob' \in [Parties -> JobStatus],
           Heard => \A t \in Tasks : mem'[t] = SUCCESS \/ agg'[t] = SUCCESS => Succeeded(t),
           Heard /\ JobSuccess' => JobSuccess \/ \A t \in Tasks : Succeeded(t),
           Heard' /\ Callback => WaitingIsNotBegun'
    PROVE  JobIInv'
<1>1. JobTypes'
    BY DEF JobIInv, JobTypes, RowsMove
<1>2. SuccessIsReal'
    BY RowsKeep DEF JobIInv, SuccessIsReal, JobSuccess
<1>3. Heard' => TrueMemory'
    BY RowsKeep DEF TrueMemory
<1>4. Heard' /\ Callback' => OnceInv'
    BY RowsKeep DEF OnceInv, Callback
<1> QED
    BY <1>1, <1>2, <1>3, <1>4, RowsKeep DEF JobIInv

\* The steps between the steps of the round.
LEMMA OutsideRound ==
    ASSUME JobIInv, RowsMove, UNCHANGED <<agg, sjob, roundVars, job>>,
           UNCHANGED pjob \/ \E s \in Statuses \ {SUCCESS} : PartiesMove(s)
    PROVE  JobIInv'
<1>0. JobTypes /\ RoundInv /\ (Heard => TrueMemory /\ (Callback => OnceInv))
    BY DEF JobIInv
<1>1. /\ agg' = agg /\ sjob' = sjob /\ job' = job /\ pc' = pc /\ todo' = todo /\ cur' = cur
      /\ canceled' = canceled /\ mem' = mem /\ code' = code
    BY DEF roundVars
<1>2. NewJobStatus' = NewJobStatus
    BY <1>1 DEF NewJobStatus
<1>3. RoundInv'
  <2>1. pc = "launch" => cur \in Tasks /\ job.deps[cur] \subseteq Tasks
      BY <1>0, JobAssumption DEF RoundInv, JobTypes
  <2> QED
      BY <1>0, <1>1, <1>2, <2>1, RowsKeep DEF RoundInv
<1>4. pjob' \in [Parties -> JobStatus] /\ (JobSuccess' => JobSuccess)
    BY <1>0, <1>1 DEF PartiesMove, JobSuccess, JobTypes
<1>5. Heard' /\ Callback => WaitingIsNotBegun'
  <2>1. pc = "launch" => cur \in Tasks
      BY <1>0 DEF RoundInv
  <2> QED
      BY <1>0, <1>1, <2>1, RowsKeep DEF OnceInv, WaitingIsNotBegun
<1> QED
    BY <1>0, <1>1, <1>3, <1>4, <1>5, StepKeeps DEF JobTypes, TrueMemory
-----------------------------------------------------------------------------
(* Processes and requests *)

LEMMA LossesOfReports ==
    ASSUME JobIInv, NEW X \in SUBSET Copies, NEW unreported \in LostReports(X),
           Lose(Cardinality(unreported))
    PROVE  unreported \in SUBSET X /\ lost' \in Nat /\ lost' >= lost
<1>1. unreported \in SUBSET X
    BY LossTypes
<1> QED
    BY <1>1, ReportNumber, LosesMore DEF JobIInv, JobTypes

LEMMA LossesOfCommands ==
    ASSUME JobIInv, NEW missed \in Losses, Lose(Cardinality(missed))
    PROVE  missed \in SUBSET Parties /\ lost' \in Nat /\ lost' >= lost
  BY LossTypes, LossNumber, LosesMore DEF JobIInv, JobTypes

LEMMA NothingLost == ASSUME JobIInv, lost' = lost PROVE lost' \in Nat /\ lost' >= lost
  BY DEF JobIInv, JobTypes

LEMMA EndKeeps ==
    ASSUME JobIInv, NEW x \in Copies, NEW s \in {SUCCESS, FAILED}, End(x, s)
    PROVE  JobIInv'
<1>0. /\ st \in [Copies -> Statuses] /\ ts \in [Copies -> Statuses] /\ alive \subseteq Copies
      /\ s \in Statuses /\ s \notin {WAITING, RUNNING} /\ s \in EndStatus
      /\ Heard => TrueReports
      /\ Heard /\ Callback => AliveRuns /\ HeardOfHasBegun
    BY StatusNames DEF JobIInv, JobTypes, OnceInv, EndStatus, WAITING, RUNNING, FAILED, SUCCESS
<1>1. /\ x \in alive /\ alive' = alive \ {x}
      /\ ts' = Update(ts, {x}, s)
    BY DEF End
<1>2. PICK unreported \in LostReports({x}) : /\ st' = Report(st, {x} \ unreported, s)
                                             /\ Lose(Cardinality(unreported))
    BY DEF End
<1>3. lost' \in Nat /\ lost' >= lost
    BY <1>2, LossesOfReports
<1>4. /\ ts' \in [Copies -> Statuses]
      /\ \A y \in Copies : ts'[y] = IF y = x THEN TaskMoved(ts[y], s) ELSE ts[y]
    BY <1>0, <1>1, UpdateFacts
<1>5. /\ st' \in [Copies -> Statuses]
      /\ ~Callback => st' = st
      /\ \A y \in Copies : st'[y] = st[y] \/ (y = x /\ st'[y] = TaskMoved(st[y], s))
  <2> DEFINE Y == {x} \ unreported
  <2> HIDE DEF Y
  <2>1. /\ st' \in [Copies -> Statuses]
        /\ ~Callback => st' = st
        /\ Callback => st' = Update(st, Y, s)
      BY <1>0, <1>2, ReportFacts DEF Y
  <2>2. \A y \in Copies : Update(st, Y, s)[y] = IF y \in Y THEN TaskMoved(st[y], s) ELSE st[y]
      BY <1>0, UpdateFacts
  <2>3. \A y : y \in Y => y = x
      BY DEF Y
  <2> QED
      BY <2>1, <2>2, <2>3
<1>6. \A y \in Copies : ts[y] = SUCCESS => ts'[y] = SUCCESS
    BY <1>0, <1>4, MovedStatus
<1>7. Heard /\ Callback => ts[x] = RUNNING /\ ts'[x] = s
    BY <1>0, <1>1, <1>4, MovedStatus DEF AliveRuns
<1>8. Heard => TrueReports'
  <2> SUFFICES ASSUME Heard, NEW y \in Copies, st'[y] = SUCCESS PROVE ts'[y] = SUCCESS
      BY DEF TrueReports
  <2>1. CASE st[y] = SUCCESS
      BY <1>0, <1>6, <2>1 DEF TrueReports
  <2>2. CASE st[y] # SUCCESS
    <3>1. Callback /\ y = x /\ st'[y] = TaskMoved(st[y], s)
        BY <1>5, <2>2
    <3>2. s = SUCCESS
        BY <1>0, <2>2, <3>1, MovedStatus
    <3> QED
        BY <1>7, <3>1, <3>2
  <2> QED
      BY <2>1, <2>2
<1>9. ASSUME Heard, Callback
      PROVE  /\ \A y \in alive' : ts'[y] = RUNNING
             /\ \A y \in Copies : WaitsOn(y)
  <2>1. \A y \in alive' : ts'[y] = RUNNING
      BY <1>0, <1>1, <1>4, <1>9 DEF AliveRuns
  <2>2. ASSUME NEW y \in Copies PROVE WaitsOn(y)
    <3>1. st[y] \in Statuses /\ ts[y] \in Statuses
        BY <1>0
    <3>2. ts[y] = WAITING => y # x /\ st[y] = WAITING
        BY <1>0, <1>7, <1>9 DEF HeardOfHasBegun, WAITING, RUNNING
    <3> QED
        BY <1>0, <1>4, <1>5, <1>7, <1>9, <3>1, <3>2, MovedStatus DEF WaitsOn
  <2> QED
      BY <2>1, <2>2
<1>10. RowsMove
    BY <1>1, <1>3, <1>4, <1>5, <1>6, <1>8, <1>9 DEF RowsMove
<1> QED
    BY <1>10, OutsideRound DEF End, roundVars, fixed

LEMMA VanishKeeps ==
    ASSUME JobIInv, NEW x \in Copies, Vanish(x)
    PROVE  JobIInv'
<1>1. RowsMove
    BY NothingLost, RowsStay DEF Vanish, schedVars
<1> QED
    BY <1>1, OutsideRound DEF Vanish, schedVars, roundVars, fixed

LEMMA StopJobKeeps ==
    ASSUME JobIInv, NEW s \in {FAILED, CANCELED}, StopJob(s), UNCHANGED <<agg, sjob, roundVars, job>>
    PROVE  JobIInv'
<1>1. s \in Statuses \ {WAITING, RUNNING} /\ s # SUCCESS
    BY StatusNames DEF WAITING, RUNNING, FAILED, CANCELED, SUCCESS
<1>2. RowsMove /\ (\E P, stuck \in SUBSET Parties : JobsStopped(P, stuck, FAILED))
    BY <1>1, StopJobMoves
<1>3. FAILED \in Statuses \ {SUCCESS}
    BY StatusNames DEF FAILED, SUCCESS
<1>4. PartiesMove(FAILED)
    BY <1>2, <1>3, PartiesStopped
<1> QED
    BY <1>2, <1>3, <1>4, OutsideRound

LEMMA StopAtHomeKeeps ==
    ASSUME JobIInv, NEW p \in Cancelers, StopAtHome(p)
    PROVE  JobIInv'
<1>1. CANCELED \in Statuses \ {WAITING, RUNNING, SUCCESS}
    BY StatusNames DEF WAITING, RUNNING, CANCELED, SUCCESS
<1>2. PICK unreported \in LostReports(ToStop({p})) :
         /\ StopTasks(ToStop({p}), CANCELED, unreported)
         /\ Lose(Cardinality(unreported))
    BY DEF StopAtHome
<1>3. ToStop({p}) \in SUBSET Copies
    BY ToStopType
<1>4. unreported \in SUBSET ToStop({p}) /\ lost' \in Nat /\ lost' >= lost
    BY <1>2, <1>3, LossesOfReports
<1>5. RowsMove
    BY <1>1, <1>2, <1>3, <1>4, StopTasksMoves
<1>6. PartiesMove(CANCELED)
    BY <1>1, PartiesStopped DEF StopAtHome
<1> QED
    BY <1>1, <1>5, <1>6, OutsideRound DEF StopAtHome, roundVars, fixed

LEMMA RequestLostKeeps ==
    ASSUME JobIInv, NEW p \in Cancelers, RequestLost(p)
    PROVE  JobIInv'
<1>1. lost' \in Nat /\ lost' >= lost
    BY LosesMore DEF RequestLost, JobIInv, JobTypes
<1>2. RowsMove
    BY <1>1, RowsStay DEF RequestLost, schedVars, partyVars
<1> QED
    BY <1>2, OutsideRound DEF RequestLost, schedVars, partyVars, roundVars, fixed
-----------------------------------------------------------------------------
(* The round *)

LEMMA PickKeeps == ASSUME JobIInv, Pick PROVE JobIInv'
<1>1. RowsMove
    BY NothingLost, RowsStay DEF Pick, schedVars, partyVars
<1>2. JobTypes /\ (Heard => TrueMemory)
    BY DEF JobIInv
<1>3. RoundInv'
    BY DEF Pick, RoundInv
<1>4. WaitingIsNotBegun'
    BY DEF Pick, WaitingIsNotBegun
<1> QED
    BY <1>1, <1>2, <1>3, <1>4, StepKeeps
       DEF Pick, JobTypes, TrueMemory, JobSuccess, schedVars, partyVars, fixed

\* The job is canceled or started, or nothing is done at all.
LEMMA BeginKeeps ==
    ASSUME JobIInv, CancelWaiting \/ StartJob \/ NotGranted
    PROVE  JobIInv'
<1>0. JobTypes /\ (Heard => TrueMemory)
    BY DEF JobIInv
<1>1. /\ UNCHANGED <<st, ts, alive, mem, agg, todo, job>> /\ pc' = "idle"
      /\ lost' \in Nat /\ lost' >= lost
    BY LossesOfCommands, NothingLost
       DEF CancelWaiting, StartJob, NotGranted, schedVars, partyVars, fixed
<1>2. RowsMove
    BY <1>1, RowsStay
<1>3. RoundInv' /\ WaitingIsNotBegun'
    BY <1>1 DEF RoundInv, WaitingIsNotBegun
<1>4. CANCELED \in Statuses \ {SUCCESS} /\ RUNNING \in Statuses \ {SUCCESS}
    BY StatusNames DEF CANCELED, RUNNING, SUCCESS
<1>5. /\ (UNCHANGED pjob) \/ (\E s \in Statuses \ {SUCCESS} : PartiesMove(s))
      /\ sjob' = SUCCESS => sjob = SUCCESS
    BY <1>4, PartiesSynced DEF CancelWaiting, StartJob, NotGranted, schedVars, partyVars, JobMoved
<1>6. pjob' \in [Parties -> JobStatus] /\ (JobSuccess' => JobSuccess)
    BY <1>0, <1>5 DEF PartiesMove, JobSuccess, JobTypes
<1> QED
    BY <1>0, <1>1, <1>2, <1>3, <1>6, StepKeeps DEF JobTypes, TrueMemory

LEMMA LookKeeps == ASSUME JobIInv, NEW t \in Tasks, Look(t) PROVE JobIInv'
<1>0. /\ JobTypes /\ lost \in Nat
      /\ Heard => TrueReports /\ TrueMemory
      /\ Heard /\ Callback => AliveRuns /\ HeardOfHasBegun /\ WaitingIsNotBegun
    BY DEF JobIInv, JobTypes, OnceInv
<1>1. PICK missed \in IF job.sync = "poll" THEN Losses ELSE {{}} :
         /\ st' = [x \in Copies |->
                      IF job.sync = "poll" /\ x[2] = t /\ x[1] \notin missed
                      THEN TaskMoved(st[x], ts[x])
                      ELSE st[x]]
         /\ Lose(Cardinality(missed))
    BY Zenon DEF Look
<1>2. /\ UNCHANGED <<ts, alive, pjob, mem, agg, sjob, job>>
      /\ pc = "look" /\ pc' = "judge" /\ cur' = t /\ todo' = todo \ {t}
    BY DEF Look, partyVars, fixed
<1>3. lost' \in Nat /\ lost' >= lost
  <2>1. missed \in SUBSET Parties
      BY LossTypes
  <2> QED
      BY <1>0, <1>1, <2>1, LossNumber, LosesMore
<1>4. /\ st' \in [Copies -> Statuses]
      /\ \A x \in Copies : st'[x] \in {st[x], TaskMoved(st[x], ts[x])}
  <2>1. \A x \in Copies : st[x] \in Statuses /\ TaskMoved(st[x], ts[x]) \in Statuses
      BY <1>0, MovedStatus DEF JobTypes
  <2> QED
      BY <1>1, <2>1
<1>5. Callback => st' = st
  <2>1. Callback => \A x \in Copies : st'[x] = st[x]
      BY <1>1 DEF Callback
  <2> QED
      BY <1>0, <1>4, <2>1 DEF JobTypes
<1>6. Heard => TrueReports'
  <2>1. \A x \in Copies : st'[x] = SUCCESS => st[x] = SUCCESS \/ ts[x] = SUCCESS
      BY <1>0, <1>4, MovedStatus DEF JobTypes
  <2> QED
      BY <1>0, <1>2, <2>1 DEF TrueReports
<1>7. RowsMove
    BY <1>0, <1>2, <1>3, <1>4, <1>5, <1>6
       DEF RowsMove, JobTypes, AliveRuns, HeardOfHasBegun, WaitsOn
<1>8. RoundInv'
    BY <1>2 DEF RoundInv
<1>9. Heard' /\ Callback => WaitingIsNotBegun'
  <2> SUFFICES ASSUME Heard', Callback, NEW u \in Tasks \ todo', mem'[u] = WAITING, u # cur'
               PROVE  NotBegun(u)'
      BY <1>2 DEF WaitingIsNotBegun
  <2>1. u \in Tasks \ todo /\ mem[u] = WAITING
      BY <1>2
  <2>2. Heard
      BY <1>2, <1>7, RowsKeep
  <2> QED
      BY <1>0, <1>2, <1>7, <2>1, <2>2, RowsKeep DEF WaitingIsNotBegun
<1> QED
    BY <1>0, <1>2, <1>7, <1>8, <1>9, StepKeeps DEF JobTypes, TrueMemory, JobSuccess

LEMMA JudgeKeeps == ASSUME JobIInv, Judge PROVE JobIInv'
<1> DEFINE new == FederatedTaskStatus({st[x] : x \in Of(cur)})
           changed == new # mem[cur]
<1>0. /\ JobTypes /\ RoundInv /\ lost \in Nat
      /\ Heard => TrueReports /\ TrueMemory
      /\ Heard /\ Callback => HeardOfHasBegun /\ SilenceIsLoss /\ WaitingIsNotBegun
    BY DEF JobIInv, JobTypes, OnceInv
<1>1. /\ UNCHANGED <<st, ts, alive, pjob, sjob, job, todo, cur>> /\ pc = "judge" /\ cur \in Tasks
      /\ mem' = [mem EXCEPT ![cur] = new]
      /\ agg' = [agg EXCEPT ![cur] = IF changed THEN TaskMoved(@, new) ELSE @]
      /\ IF (changed /\ new \in EndStatus) \/ new \in InterruptStatus
         THEN pc' = "halt"
         ELSE Looked
    BY <1>0 DEF Judge, fixed, RoundInv
<1>2. PICK missed \in IF changed THEN Losses ELSE {{}} : Lose(Cardinality(missed))
    BY DEF Judge
<1>3. lost' \in Nat /\ lost' >= lost
  <2>1. missed \in SUBSET Parties
      BY LossTypes
  <2> QED
      BY <1>0, <1>2, <2>1, LossNumber, LosesMore
<1>4. RowsMove
    BY <1>1, <1>3, RowsStay
<1>5. /\ new \in Statuses
      /\ new = SUCCESS => \A p \in Parties : st[<<p, cur>>] = SUCCESS
      /\ new = WAITING => \A p \in Parties : st[<<p, cur>>] = WAITING
  <2>1. /\ {st[x] : x \in Of(cur)} = {st[<<p, cur>>] : p \in Parties}
        /\ {st[<<p, cur>>] : p \in Parties} \in SUBSET Statuses
    <3>1. \A x \in Of(cur) : \E p \in Parties : x = <<p, cur>>
        BY DEF Of
    <3>2. \A p \in Parties : <<p, cur>> \in Of(cur) /\ <<p, cur>> \in Copies
        BY <1>1 DEF Of, Copies
    <3>3. \A p \in Parties : st[<<p, cur>>] \in Statuses
        BY <1>0, <3>2 DEF JobTypes
    <3>4. {st[x] : x \in Of(cur)} = {st[<<p, cur>>] : p \in Parties}
        BY <3>1, <3>2
    <3> QED
        BY <3>3, <3>4
  <2>2. {st[<<p, cur>>] : p \in Parties} # {}
      BY JobAssumption
  <2>3. new = FederatedTaskStatus({st[<<p, cur>>] : p \in Parties})
      BY <2>1
  <2>4. \A p \in Parties : st[<<p, cur>>] \in {st[<<q, cur>>] : q \in Parties}
      OBVIOUS
  <2> HIDE DEF new
  <2> QED
      BY <2>1, <2>2, <2>3, <2>4, FederatedStatus
<1> HIDE DEF new
<1>6. mem' \in [Tasks -> Statuses] /\ agg' \in [Tasks -> Statuses]
    BY <1>0, <1>1, <1>5, MovedStatus DEF JobTypes
<1>7. Heard => \A t \in Tasks : mem'[t] = SUCCESS \/ agg'[t] = SUCCESS => Succeeded(t)
  <2>1. Heard /\ new = SUCCESS => Succeeded(cur)
      BY <1>0, <1>1, <1>5 DEF TrueReports, Succeeded, Of, Copies
  <2>2. agg'[cur] = SUCCESS => agg[cur] = SUCCESS \/ new = SUCCESS
      BY <1>0, <1>1, <1>5, MovedStatus DEF JobTypes
  <2> QED
      BY <1>0, <1>1, <2>1, <2>2 DEF TrueMemory, JobTypes
<1>8. RoundInv'
  <2>1. pc' = "halt" => new \in EndStatus
      BY <1>1, StatusNames DEF Looked
  <2>2. pc' \in {"halt", "start", "look"} /\ (pc' = "start" => todo = {})
      BY <1>1 DEF Looked
  <2> QED
      BY <1>0, <1>1, <2>1, <2>2 DEF RoundInv, JobTypes
<1>9. Heard' /\ Callback => WaitingIsNotBegun'
  <2>0. pc' # "launch" /\ pc' # "judge"
      BY <1>1 DEF Looked
  <2> SUFFICES ASSUME Heard', Callback, NEW u \in Tasks \ todo', mem'[u] = WAITING
               PROVE  NotBegun(u)'
      BY <2>0 DEF WaitingIsNotBegun
  <2>1. Heard
      BY <1>1, <1>4, RowsKeep
  <2>2. CASE u # cur
      BY <1>0, <1>1, <1>4, <2>1, <2>2, RowsKeep DEF WaitingIsNotBegun, JobTypes
  <2>3. CASE u = cur
    <3>1. new = WAITING
        BY <1>0, <1>1, <2>3 DEF JobTypes
    <3>2. Silent(cur) = Parties
        BY <1>5, <3>1 DEF Silent
    <3>3. lost < Cardinality(Parties)
        BY <2>1 DEF Heard, Callback
    <3>4. NotBegun(cur)
        BY <1>0, <1>1, <2>1, <3>2, <3>3, LossNumber DEF SilenceIsLoss
    <3> QED
        BY <1>1, <1>4, <2>3, <3>4, RowsKeep DEF NotBegun
  <2> QED
      BY <2>2, <2>3
<1> QED
    BY <1>0, <1>1, <1>4, <1>6, <1>7, <1>8, <1>9, StepKeeps DEF JobTypes, JobSuccess

LEMMA HaltKeeps == ASSUME JobIInv, Halt PROVE JobIInv'
<1>0. /\ JobTypes /\ RoundInv
      /\ Heard => TrueMemory
      /\ Heard /\ Callback => WaitingIsNotBegun
    BY DEF JobIInv, OnceInv
<1>1. /\ UNCHANGED <<pjob, sjob, job, agg, mem, todo, cur>> /\ pc = "halt" /\ Looked
      /\ cur \in Tasks /\ mem[cur] \in Statuses /\ mem[cur] \in EndStatus
    BY <1>0 DEF Halt, fixed, RoundInv, JobTypes
<1>2. PICK missed \in Losses :
         \E unreported \in LostReports((Parties \ missed) \X {cur}) :
             /\ StopTasks((Parties \ missed) \X {cur}, mem[cur], unreported)
             /\ Lose(Cardinality(missed) + Cardinality(unreported))
    BY DEF Halt
<1> DEFINE X == (Parties \ missed) \X {cur}
<1>3. PICK unreported \in LostReports(X) :
         /\ StopTasks(X, mem[cur], unreported)
         /\ Lose(Cardinality(missed) + Cardinality(unreported))
    BY <1>2
<1>4. X \in SUBSET Copies /\ X \subseteq Of(cur)
    BY <1>1 DEF Of, Copies
<1> HIDE DEF X
<1>5. unreported \in SUBSET X /\ missed \in SUBSET Parties
    BY <1>4, LossTypes
<1>6. lost' \in Nat /\ lost' >= lost
  <2>1. Cardinality(missed) \in Nat /\ Cardinality(unreported) \in Nat
      BY <1>4, <1>5, LossNumber, ReportNumber
  <2> QED
      BY <1>0, <1>3, <2>1, LosesMore DEF JobTypes
<1>7. mem[cur] \in Statuses \ {WAITING, RUNNING}
    BY <1>1, StatusNames
<1>8. Heard /\ mem[cur] = SUCCESS => \A x \in X : ts[x] = SUCCESS
    BY <1>0, <1>1, <1>4 DEF TrueMemory, Succeeded
<1>9. RowsMove
    BY <1>3, <1>4, <1>5, <1>6, <1>7, <1>8, StopTasksMoves
<1>10. RoundInv'
    BY <1>1 DEF RoundInv, Looked
<1>11. Heard' /\ Callback => WaitingIsNotBegun'
    BY <1>0, <1>1, <1>9, RowsKeep DEF WaitingIsNotBegun, Looked
<1> QED
    BY <1>0, <1>1, <1>9, <1>10, <1>11, StepKeeps DEF JobTypes, TrueMemory, JobSuccess

\* Steps that lead to the end of the round, or break it off.
LEMMA RoundOver ==
    ASSUME JobIInv, NothingToStart \/ NoResource \/ StartFailed \/ Crash
    PROVE  JobIInv'
<1>0. JobTypes /\ RoundInv /\ (Heard => TrueMemory)
    BY DEF JobIInv
<1>1. /\ UNCHANGED <<st, ts, alive, pjob, agg, sjob, job>>
      /\ pc' \in {"conclude", "idle"} /\ todo' \subseteq Tasks
      /\ lost' \in Nat /\ lost' >= lost
    BY <1>0, LossesOfCommands, NothingLost
       DEF NothingToStart, NoResource, StartFailed, Crash, schedVars, partyVars, fixed, JobTypes
<1>2. /\ mem' \in [Tasks -> Statuses]
      /\ \A t \in Tasks : mem'[t] = SUCCESS => mem[t] = SUCCESS
  <2>1. FAILED \in Statuses /\ WAITING \in Statuses /\ SUCCESS \notin {FAILED, WAITING}
      BY StatusNames DEF FAILED, WAITING, SUCCESS
  <2> QED
      BY <1>0, <2>1 DEF NothingToStart, NoResource, StartFailed, Crash, JobTypes
<1>3. RowsMove
    BY <1>1, RowsStay
<1>4. RoundInv' /\ WaitingIsNotBegun'
    BY <1>1 DEF RoundInv, WaitingIsNotBegun
<1> QED
    BY <1>0, <1>1, <1>2, <1>3, <1>4, StepKeeps DEF JobTypes, TrueMemory, JobSuccess

LEMMA GrantKeeps == ASSUME JobIInv, NEW t \in Tasks, Grant(t) PROVE JobIInv'
<1>0. /\ JobTypes /\ RoundInv
      /\ Heard => TrueMemory
      /\ Heard /\ Callback => WaitingIsNotBegun
    BY DEF JobIInv, OnceInv
<1>1. /\ UNCHANGED <<st, ts, alive, pjob, sjob, job, todo>>
      /\ pc = "start" /\ pc' = "launch" /\ cur' = t /\ todo = {}
      /\ mem[t] = WAITING /\ \A u \in job.deps[t] : mem[u] = SUCCESS
      /\ mem' = [mem EXCEPT ![t] = RUNNING]
      /\ agg' = [agg EXCEPT ![t] = TaskMoved(@, RUNNING)]
    BY <1>0 DEF Grant, Startable, partyVars, fixed, RoundInv
<1>2. lost' \in Nat /\ lost' >= lost
    BY LossesOfCommands DEF Grant
<1>3. RowsMove
    BY <1>1, <1>2, RowsStay
<1>4. RUNNING \in Statuses /\ RUNNING # SUCCESS /\ RUNNING # WAITING
    BY StatusNames DEF RUNNING, SUCCESS, WAITING
<1>5. mem' \in [Tasks -> Statuses] /\ agg' \in [Tasks -> Statuses]
    BY <1>0, <1>1, <1>4, MovedStatus DEF JobTypes
<1>6. \A u \in Tasks : mem'[u] = SUCCESS \/ agg'[u] = SUCCESS => mem[u] = SUCCESS \/ agg[u] = SUCCESS
    BY <1>0, <1>1, <1>4, MovedStatus DEF JobTypes
<1>7. job.deps[t] \subseteq Tasks
    BY <1>0, JobAssumption DEF JobTypes
<1>8. RoundInv'
  <2>1. Heard' => \A u \in job.deps[t] : Succeeded(u)'
      BY <1>0, <1>1, <1>3, <1>7, RowsKeep DEF TrueMemory
  <2> QED
      BY <1>0, <1>1, <1>4, <2>1 DEF RoundInv, JobTypes
<1>9. Heard' /\ Callback => WaitingIsNotBegun'
  <2> SUFFICES ASSUME Heard', Callback PROVE WaitingIsNotBegun'
      OBVIOUS
  <2>1. \A u \in Tasks : mem[u] = WAITING => NotBegun(u)
      BY <1>0, <1>1, <1>3, RowsKeep DEF WaitingIsNotBegun
  <2>2. \A u \in Tasks : mem'[u] = WAITING => mem[u] = WAITING
      BY <1>0, <1>1, <1>4 DEF JobTypes
  <2>3. \A u \in Tasks : mem[u] = WAITING => NotBegun(u)'
      BY <1>1, <1>3, <2>1, RowsKeep
  <2> QED
      BY <1>1, <2>2, <2>3 DEF WaitingIsNotBegun, NotBegun
<1> QED
    BY <1>0, <1>1, <1>3, <1>5, <1>6, <1>8, <1>9, StepKeeps DEF JobTypes, TrueMemory, JobSuccess

LEMMA ConcludeKeeps == ASSUME JobIInv, Conclude PROVE JobIInv'
<1>0. JobTypes /\ (Heard => TrueMemory)
    BY DEF JobIInv
<1>1. /\ UNCHANGED <<st, ts, alive, mem, agg, todo, cur, code, canceled, job>>
      /\ pc' \in {"finish", "idle"} /\ (pc' = "finish" => NewJobStatus \in EndStatus)
      /\ NewJobStatus' = NewJobStatus
    BY DEF Conclude, fixed, NewJobStatus
<1>2. lost' \in Nat /\ lost' >= lost
    BY LossesOfCommands, NothingLost DEF Conclude
<1>3. RowsMove
    BY <1>1, <1>2, RowsStay
<1>4. RoundInv' /\ WaitingIsNotBegun'
    BY <1>1 DEF RoundInv, WaitingIsNotBegun
<1>5. NewJobStatus \in Statuses /\ (NewJobStatus = SUCCESS => \A t \in Tasks : mem[t] = SUCCESS)
    BY <1>0, NewJobStatusFacts
<1>6. (UNCHANGED pjob \/ PartiesMove(NewJobStatus)) /\ sjob' \in {sjob, NewJobStatus}
    BY <1>5, PartiesSynced DEF Conclude, JobMoved
<1>7. /\ pjob' \in [Parties -> JobStatus]
      /\ JobSuccess' => JobSuccess \/ NewJobStatus = SUCCESS
    BY <1>0, <1>6 DEF PartiesMove, JobTypes, JobSuccess
<1> QED
    BY <1>0, <1>1, <1>3, <1>4, <1>5, <1>7, StepKeeps DEF JobTypes, TrueMemory

LEMMA FinishKeeps == ASSUME JobIInv, Finish PROVE JobIInv'
<1>0. JobTypes /\ RoundInv /\ (Heard => TrueMemory)
    BY DEF JobIInv
<1>1. /\ UNCHANGED <<agg, sjob, mem, todo, cur, code, canceled, job>>
      /\ pc = "finish" /\ pc' = "idle" /\ StopJob(NewJobStatus)
    BY DEF Finish, fixed
<1>2. /\ NewJobStatus \in Statuses \ {WAITING, RUNNING}
      /\ NewJobStatus = SUCCESS => \A t \in Tasks : mem[t] = SUCCESS
    BY <1>0, <1>1, NewJobStatusFacts, StatusNames DEF RoundInv
<1>3. Heard /\ NewJobStatus = SUCCESS => \A t \in Tasks : Succeeded(t)
    BY <1>0, <1>2 DEF TrueMemory
<1>4. RowsMove /\ (\E P, stuck \in SUBSET Parties : JobsStopped(P, stuck, FAILED))
    BY <1>1, <1>2, <1>3, StopJobMoves
<1>5. FAILED \in Statuses /\ FAILED # SUCCESS
    BY StatusNames DEF FAILED, SUCCESS
<1>6. PartiesMove(FAILED)
    BY <1>4, <1>5, PartiesStopped
<1>7. pjob' \in [Parties -> JobStatus] /\ (JobSuccess' => JobSuccess)
    BY <1>1, <1>5, <1>6 DEF PartiesMove, JobSuccess
<1>8. RoundInv' /\ WaitingIsNotBegun'
    BY <1>1 DEF RoundInv, WaitingIsNotBegun
<1> QED
    BY <1>0, <1>1, <1>4, <1>7, <1>8, StepKeeps DEF JobTypes, TrueMemory

\* The start of a task is the one step that lets copies begin.  It had not begun, so
\* what the parties now hold and what they tell the scheduler agrees.
LEMMA LaunchKeeps == ASSUME JobIInv, Launch PROVE JobIInv'
<1>0. /\ JobTypes /\ RoundInv /\ SuccessIsReal /\ lost \in Nat
      /\ st \in [Copies -> Statuses] /\ ts \in [Copies -> Statuses] /\ alive \subseteq Copies
      /\ Heard => TrueReports /\ TrueMemory
      /\ Heard /\ Callback => AliveRuns /\ HeardOfHasBegun /\ SilenceIsLoss /\ WaitingIsNotBegun
    BY DEF JobIInv, OnceInv, JobTypes
<1>1. /\ UNCHANGED <<pjob, sjob, job, agg, mem, todo, cur>> /\ pc = "launch"
      /\ pc' \in {"start", "failed"} /\ cur \in Tasks /\ mem[cur] # WAITING
    BY <1>0 DEF Launch, fixed, RoundInv
<1>2. PICK missed \in Losses, unanswered \in Losses, broken \in SUBSET Parties :
         /\ missed \cap (unanswered \cup broken) = {}
         /\ \E unreported \in LostReports((Parties \ missed) \X {cur}) :
              /\ alive' = alive \cup (((Parties \ missed) \X {cur}) \ (broken \X {cur}))
              /\ ts' = Update(Update(ts, (Parties \ missed) \X {cur}, RUNNING), broken \X {cur}, FAILED)
              /\ st' = Report(Report(st, ((Parties \ missed) \X {cur}) \ unreported, RUNNING),
                              (broken \X {cur}) \ unreported, FAILED)
              /\ Lose(Cardinality(missed) + Cardinality(unanswered) + Cardinality(unreported))
    BY Zenon DEF Launch
<1> DEFINE X == (Parties \ missed) \X {cur}
           bad == broken \X {cur}
<1>3. PICK unreported \in LostReports(X) :
         /\ alive' = alive \cup (X \ bad)
         /\ ts' = Update(Update(ts, X, RUNNING), bad, FAILED)
         /\ st' = Report(Report(st, X \ unreported, RUNNING), bad \ unreported, FAILED)
         /\ Lose(Cardinality(missed) + Cardinality(unanswered) + Cardinality(unreported))
    BY <1>2, Zenon
<1>4. /\ X \in SUBSET Copies /\ bad \subseteq X
      /\ \A p \in Parties : <<p, cur>> \in X <=> p \notin missed
      /\ \A x \in X : x[2] = cur
    BY <1>1, <1>2 DEF Copies
<1> HIDE DEF X, bad
<1>5. unreported \in SUBSET X /\ missed \in SUBSET Parties /\ unanswered \in SUBSET Parties
    BY <1>4, LossTypes
<1>6. /\ lost' \in Nat /\ lost' >= Cardinality(missed) + Cardinality(unreported)
      /\ lost' >= lost
      /\ Cardinality(missed) \in Nat /\ Cardinality(unreported) \in Nat
      /\ IsFiniteSet(missed) /\ IsFiniteSet(unreported)
  <2>1. /\ Cardinality(missed) \in Nat /\ Cardinality(unreported) \in Nat
        /\ Cardinality(unanswered) \in Nat
        /\ IsFiniteSet(missed) /\ IsFiniteSet(unreported)
      BY <1>4, <1>5, LossNumber, ReportNumber
  <2> QED
      BY <1>0, <1>3, <2>1 DEF Lose
<1>7. RUNNING \in Statuses /\ FAILED \in Statuses /\ RUNNING # WAITING /\ FAILED # WAITING
      /\ RUNNING # SUCCESS /\ FAILED # SUCCESS /\ FAILED \in EndStatus /\ SUCCESS # WAITING
    BY StatusNames DEF RUNNING, FAILED, WAITING, SUCCESS, EndStatus
<1>8. /\ ts' \in [Copies -> Statuses]
      /\ \A x \in Copies : ts'[x] = IF x \in bad THEN TaskMoved(TaskMoved(ts[x], RUNNING), FAILED)
                                    ELSE IF x \in X THEN TaskMoved(ts[x], RUNNING) ELSE ts[x]
  <2> DEFINE f == Update(ts, X, RUNNING)
  <2>1. /\ f \in [Copies -> Statuses]
        /\ \A x \in Copies : f[x] = IF x \in X THEN TaskMoved(ts[x], RUNNING) ELSE ts[x]
      BY <1>0, <1>7, UpdateFacts
  <2>2. ts' = Update(f, bad, FAILED)
      BY <1>3
  <2> HIDE DEF f
  <2>3. /\ ts' \in [Copies -> Statuses]
        /\ \A x \in Copies : ts'[x] = IF x \in bad THEN TaskMoved(f[x], FAILED) ELSE f[x]
      BY <1>7, <2>1, <2>2, UpdateFacts
  <2> QED
      BY <1>4, <2>1, <2>3
<1>9. /\ st' \in [Copies -> Statuses]
      /\ ~Callback => st' = st
      /\ Callback => \A x \in Copies :
             st'[x] = IF x \in bad \ unreported THEN TaskMoved(TaskMoved(st[x], RUNNING), FAILED)
                      ELSE IF x \in X \ unreported THEN TaskMoved(st[x], RUNNING) ELSE st[x]
  <2> DEFINE Y == X \ unreported
             Z == bad \ unreported
             f == Report(st, Y, RUNNING)
  <2>0. Z \subseteq Y /\ st' = Report(f, Z, FAILED)
      BY <1>3, <1>4
  <2> HIDE DEF Y, Z
  <2>1. /\ f \in [Copies -> Statuses]
        /\ ~Callback => f = st
        /\ Callback => \A x \in Copies : f[x] = IF x \in Y THEN TaskMoved(st[x], RUNNING) ELSE st[x]
      BY <1>0, <1>7, ReportFacts, UpdateFacts
  <2> HIDE DEF f
  <2>2. /\ st' \in [Copies -> Statuses]
        /\ ~Callback => st' = f
        /\ Callback => \A x \in Copies : st'[x] = IF x \in Z THEN TaskMoved(f[x], FAILED) ELSE f[x]
      BY <1>7, <2>0, <2>1, ReportFacts, UpdateFacts
  <2>3. Callback => \A x \in Copies :
             st'[x] = IF x \in Z THEN TaskMoved(TaskMoved(st[x], RUNNING), FAILED)
                      ELSE IF x \in Y THEN TaskMoved(st[x], RUNNING) ELSE st[x]
      BY <2>0, <2>1, <2>2
  <2> QED
      BY <2>1, <2>2, <2>3 DEF Y, Z
<1>10. \A x \in Copies : /\ ts[x] \in Statuses /\ st[x] \in Statuses
                         /\ TaskMoved(ts[x], RUNNING) \in Statuses /\ TaskMoved(st[x], RUNNING) \in Statuses
    BY <1>0, <1>7, MovedStatus
<1>11. Heard' => Heard
    BY <1>0, <1>1, <1>6, LossNumber DEF Heard
<1>12. \A x \in Copies : ts[x] = SUCCESS => ts'[x] = SUCCESS
    BY <1>7, <1>8, <1>10, MovedStatus
<1>13. \A t \in Tasks : Succeeded(t) => Succeeded(t)'
    BY <1>12 DEF Succeeded, Of, Copies
<1>14. Heard => TrueReports'
  <2>1. \A x \in Copies : st'[x] = SUCCESS => st[x] = SUCCESS
      BY <1>7, <1>9, <1>10, MovedStatus
  <2> QED
      BY <1>0, <1>12, <2>1 DEF TrueReports
<1>15. ASSUME Heard, Callback PROVE OnceInv'
  <2>1. \A x \in X : ts[x] = WAITING /\ st[x] = WAITING
    <3>1. NotBegun(cur)
        BY <1>0, <1>1, <1>15 DEF WaitingIsNotBegun
    <3>2. \A x \in X : x \in Copies /\ x \in Of(cur)
        BY <1>4 DEF Of, Copies
    <3> QED
        BY <1>0, <1>15, <3>1, <3>2 DEF NotBegun, HeardOfHasBegun
  <2>2. \A x \in X : /\ ts'[x] = IF x \in bad THEN FAILED ELSE RUNNING
                     /\ x \notin unreported => st'[x] # WAITING
    <3>1. \A x \in X : TaskMoved(ts[x], RUNNING) = RUNNING /\ TaskMoved(st[x], RUNNING) = RUNNING
        BY <1>4, <1>7, <1>10, <2>1, MovedStatus
    <3>2. TaskMoved(RUNNING, FAILED) = FAILED
        BY <1>7, MovedStatus
    <3> QED
        BY <1>4, <1>7, <1>8, <1>9, <1>15, <3>1, <3>2
  <2>3. \A x \in Copies \ X : ts'[x] = ts[x] /\ st'[x] = st[x]
      BY <1>4, <1>8, <1>9, <1>15
  <2>4. AliveRuns'
    <3>1. \A x \in alive : ts[x] = RUNNING /\ x \notin X
        BY <1>0, <1>7, <1>15, <2>1 DEF AliveRuns
    <3> QED
        BY <1>0, <1>3, <2>2, <2>3, <3>1 DEF AliveRuns
  <2>5. HeardOfHasBegun'
      BY <1>0, <1>7, <1>15, <2>2, <2>3 DEF HeardOfHasBegun
  <2>6. \A t \in Tasks \ {cur} : (NotBegun(t)' <=> NotBegun(t)) /\ Silent(t)' = Silent(t)
    <3> SUFFICES ASSUME NEW t \in Tasks \ {cur}
                 PROVE  (NotBegun(t)' <=> NotBegun(t)) /\ Silent(t)' = Silent(t)
        OBVIOUS
    <3>1. \A p \in Parties : ts'[<<p, t>>] = ts[<<p, t>>] /\ st'[<<p, t>>] = st[<<p, t>>]
        BY <1>4, <2>3 DEF Copies
    <3>2. \A x \in Of(t) : ts'[x] = ts[x]
        BY <3>1 DEF Of
    <3> QED
        BY <3>1, <3>2 DEF NotBegun, Silent
  <2>7. Cardinality(Silent(cur)') <= lost'
    <3> DEFINE U == {x[1] : x \in unreported}
               f == [x \in unreported |-> x[1]]
    <3>1. IsFiniteSet(U) /\ Cardinality(U) \in Nat /\ Cardinality(U) <= Cardinality(unreported)
      <4>1. f \in Surjection(unreported, U)
          BY DEF Surjection
      <4>2. IsFiniteSet(U) /\ Cardinality(U) <= Cardinality(unreported)
          BY <1>6, <4>1, FS_Surjection
      <4> QED
          BY <4>2, FS_CardinalityType
    <3>2. Silent(cur)' \subseteq missed \cup U
      <4> SUFFICES ASSUME NEW p \in Parties, st'[<<p, cur>>] = WAITING, p \notin missed
                   PROVE  p \in U
          BY <1>1 DEF Silent
      <4>1. <<p, cur>> \in X
          BY <1>4
      <4>2. <<p, cur>> \in unreported
          BY <2>2, <4>1
      <4>3. <<p, cur>>[1] = p
          OBVIOUS
      <4> QED
          BY <4>2, <4>3
    <3> HIDE DEF U
    <3>3. IsFiniteSet(missed \cup U) /\ Cardinality(missed \cup U) <= Cardinality(missed) + Cardinality(U)
      <4>1. /\ IsFiniteSet(missed \cup U)
            /\ Cardinality(missed \cup U) = Cardinality(missed) + Cardinality(U) - Cardinality(missed \cap U)
          BY <1>6, <3>1, FS_Union
      <4>2. Cardinality(missed \cap U) \in Nat
          BY <1>6, FS_Subset, FS_CardinalityType
      <4> QED
          BY <1>6, <3>1, <4>1, <4>2
    <3>4. Cardinality(Silent(cur)') <= Cardinality(missed \cup U)
        BY <3>2, <3>3, FS_Subset
    <3>5. Cardinality(Silent(cur)') \in Nat /\ Cardinality(missed \cup U) \in Nat
        BY <3>2, <3>3, FS_Subset, FS_CardinalityType
    <3> QED
        BY <1>6, <3>1, <3>3, <3>4, <3>5
  <2>8. SilenceIsLoss'
    <3> SUFFICES ASSUME NEW t \in Tasks, t # cur, ~NotBegun(t)' PROVE Cardinality(Silent(t)') <= lost'
        BY <1>1, <2>7 DEF SilenceIsLoss, Silent
    <3>1. Cardinality(Silent(t)) <= lost
        BY <1>0, <1>15, <2>6 DEF SilenceIsLoss
    <3>2. Cardinality(Silent(t)) \in Nat
        BY LossNumber DEF Silent
    <3> QED
        BY <1>0, <1>6, <2>6, <3>1, <3>2
  <2>9. WaitingIsNotBegun'
      BY <1>0, <1>1, <1>15, <2>6 DEF WaitingIsNotBegun
  <2> QED
      BY <2>4, <2>5, <2>8, <2>9 DEF OnceInv
<1>16. alive' \subseteq Copies
    BY <1>0, <1>3, <1>4
<1>17. JobTypes'
    BY <1>0, <1>1, <1>6, <1>8, <1>9, <1>16 DEF JobTypes
<1>18. RoundInv'
    BY <1>0, <1>1 DEF RoundInv
<1>19. SuccessIsReal'
    BY <1>0, <1>1, <1>11, <1>13 DEF SuccessIsReal
<1>20. Heard' => TrueMemory'
    BY <1>0, <1>1, <1>11, <1>13 DEF TrueMemory
<1> QED
    BY <1>1, <1>11, <1>14, <1>15, <1>17, <1>18, <1>19, <1>20 DEF JobIInv, Callback
-----------------------------------------------------------------------------
(* The theorems *)

LEMMA InitHolds == Init => JobIInv
<1> SUFFICES ASSUME Init PROVE JobIInv
    OBVIOUS
<1>1. WAITING \in Statuses /\ WAITING \in JobStatus /\ WAITING # SUCCESS
    BY StatusNames DEF WAITING, SUCCESS, JobStatus
<1>2. JobTypes
    BY <1>1 DEF Init, JobTypes
<1>3. RoundInv
    BY DEF Init, RoundInv
<1>4. SuccessIsReal
    BY <1>1 DEF Init, SuccessIsReal
<1>5. TrueReports /\ TrueMemory
    BY <1>1 DEF Init, TrueReports, TrueMemory
<1>6. \A t \in Tasks : NotBegun(t)
    BY DEF Init, NotBegun, Of, Copies
<1>7. OnceInv
    BY <1>6 DEF Init, OnceInv, AliveRuns, HeardOfHasBegun, SilenceIsLoss, WaitingIsNotBegun
<1> QED
    BY <1>2, <1>3, <1>4, <1>5, <1>7 DEF JobIInv

LEMMA StutterKeeps == ASSUME JobIInv, UNCHANGED vars PROVE JobIInv'
<1>1. /\ UNCHANGED <<st, ts, alive, pjob, agg, sjob, roundVars, job>>
      /\ lost' = lost
    BY DEF vars, schedVars, partyVars, roundVars, fixed
<1>2. RowsMove
    BY <1>1, NothingLost, RowsStay
<1> QED
    BY <1>1, <1>2, OutsideRound

LEMMA NextHolds == ASSUME JobIInv, [Next]_vars PROVE JobIInv'
<1>1. CASE Round
  <2>1. CASE Pick \/ CancelWaiting \/ StartJob
      BY <2>1, PickKeeps, BeginKeeps
  <2>2. CASE \E t \in Tasks : Look(t) \/ Grant(t)
      BY <2>2, LookKeeps, GrantKeeps
  <2>3. CASE Judge \/ Halt \/ NothingToStart \/ Launch
      BY <2>3, JudgeKeeps, HaltKeeps, RoundOver, LaunchKeeps
  <2>4. CASE StartFailed \/ Conclude \/ Finish
      BY <2>4, RoundOver, ConcludeKeeps, FinishKeeps
  <2> QED
      BY <1>1, <2>1, <2>2, <2>3, <2>4 DEF Round
<1>2. CASE NotGranted \/ NoResource \/ Crash
    BY <1>2, BeginKeeps, RoundOver
<1>3. CASE \E x \in Copies : End(x, SUCCESS) \/ End(x, FAILED) \/ Vanish(x)
    BY <1>3, EndKeeps, VanishKeeps
<1>4. CASE Detect
    BY <1>4, StopJobKeeps DEF Detect, fixed
<1>5. CASE \E p \in Cancelers : StopAtHome(p) \/ StopEverywhere(p) \/ RequestLost(p)
    BY <1>5, StopAtHomeKeeps, StopJobKeeps, RequestLostKeeps DEF StopEverywhere, fixed
<1>6. CASE UNCHANGED vars
    BY <1>6, StutterKeeps
<1> QED
    BY <1>1, <1>2, <1>3, <1>4, <1>5, <1>6 DEF Next

\* The inductive invariant: where the round is, what the scheduler has been told, and,
\* where the parties report by themselves, that a task is started once (start_task in
\* scheduler/scheduler.py, update_task_status in controller/task.py).
THEOREM JobInvariant == Spec => []JobIInv
  BY InitHolds, NextHolds, PTL DEF Spec

\* A job that is SUCCESS, at the scheduler or at a party, has succeeded everywhere
\* (schedule_running_job in scheduler/scheduler.py), unless in callback mode as many
\* reports got lost as there are parties.
THEOREM SuccessHolds == Spec => []SuccessIsReal
<1>1. JobIInv => SuccessIsReal
    BY DEF JobIInv
<1> QED
    BY <1>1, JobInvariant, PTL

\* A task is started only when those it takes its inputs from have succeeded everywhere,
\* as get_need_schedule_tasks means it (scheduler/scheduler.py).
THEOREM DependenciesHold == Spec => DependenciesFirst
<1>1. ASSUME JobIInv, [Next]_vars
      PROVE  [Heard => \A x \in alive' \ alive : \A u \in job.deps[x[2]] : Succeeded(u)]_vars
  <2>1. CASE Launch
    <3>1. RoundInv /\ pc = "launch"
        BY <1>1, <2>1 DEF JobIInv, Launch
    <3>2. \A x \in alive' \ alive : x[2] = cur
        BY <2>1 DEF Launch
    <3> QED
        BY <3>1, <3>2 DEF RoundInv
  <2>2. ASSUME ~Launch PROVE alive' \subseteq alive
    <3>1. CASE Round
        BY <2>2, <3>1 DEF Round, Pick, CancelWaiting, StartJob, Look, Grant, Judge, Halt, NothingToStart,
               StartFailed, Conclude, Finish, StopJob, StopTasks, partyVars
    <3>2. CASE \E x \in Copies : End(x, SUCCESS) \/ End(x, FAILED) \/ Vanish(x)
        BY <3>2 DEF End, Vanish
    <3>3. CASE NotGranted \/ NoResource \/ Crash
        BY <3>3 DEF NotGranted, NoResource, Crash, partyVars
    <3>4. CASE Detect
        BY <3>4 DEF Detect, StopJob
    <3>5. CASE \E p \in Cancelers : StopAtHome(p) \/ StopEverywhere(p) \/ RequestLost(p)
        BY <3>5 DEF StopAtHome, StopEverywhere, RequestLost, StopJob, StopTasks, partyVars
    <3>6. CASE UNCHANGED vars
        BY <3>6 DEF vars, partyVars
    <3> QED
        BY <1>1, <3>1, <3>2, <3>3, <3>4, <3>5, <3>6 DEF Next
  <2> QED
      BY <2>1, <2>2
<1> QED
    BY <1>1, JobInvariant, PTL DEF Spec, DependenciesFirst
-----------------------------------------------------------------------------
(* The end of a job: the statuses there are *)

Five == {WAITING, RUNNING, CANCELED, FAILED, SUCCESS}
Refused == {WAITING, CANCELED, FAILED}

RowTypes ==
    /\ sjob \in Five /\ cancel \in BOOLEAN
    /\ agg \in [Tasks -> Five] /\ st \in [Copies -> Five]
    /\ pjob \in [Parties -> Five]
    /\ fs \in [Copies -> Five] /\ ts \in [Copies -> Five]

RoundTypes ==
    /\ pc \in {"idle", "begin", "look", "judge", "halt", "start", "launch", "failed",
              "conclude", "finish"}
    /\ cur \in Tasks \cup {"none"}
    /\ canceled \in BOOLEAN /\ mem \in [Tasks -> Five]
    /\ code \in {"none", "next", "failed"}

FaultTypes ==
    /\ asked \in [Cancelers -> {"no", "home", "done"}]
    /\ lost <= job.lost /\ crashes \in 0..job.crashes

\* A job, and a task at a party or over all of them, has one of five statuses.
FewStatuses == RowTypes /\ RoundTypes /\ FaultTypes

LEMMA FiveFacts ==
    /\ Five \subseteq Statuses /\ Five \subseteq JobStatus /\ Five \subseteq TaskStatus
    /\ WAITING \in Five /\ RUNNING \in Five /\ CANCELED \in Five /\ FAILED \in Five
    /\ SUCCESS \in Five
    /\ EndStatus \cap Five = {CANCELED, FAILED, SUCCESS}
  BY DEF Five, Statuses, JobStatus, TaskStatus, EndStatus, WAITING, RUNNING, CANCELED, TIMEOUT,
         FAILED, PASS, SUCCESS, READY

LEMMA FewTypes == ASSUME JobIInv, FewStatuses PROVE TypeOK
  BY FiveFacts DEF JobIInv, JobTypes, FewStatuses, RowTypes, RoundTypes, FaultTypes, TypeOK

LEMMA FiveMoved ==
    ASSUME NEW s \in Five, NEW new \in Five
    PROVE  TaskMoved(s, new) \in Five /\ JobMoved(s, new) \in Five
  BY DEF TaskMoved, JobMoved

LEMMA FiveUpdated ==
    ASSUME NEW f \in [Copies -> Five], NEW X, NEW new \in Five
    PROVE  Update(f, X, new) \in [Copies -> Five] /\ Report(f, X, new) \in [Copies -> Five]
  BY FiveMoved DEF Update, Report

LEMMA FiveParties ==
    ASSUME pjob \in [Parties -> Five], NEW P, NEW stuck, NEW s \in Five,
           JobsSynced(P, s) \/ JobsStopped(P, stuck, s)
    PROVE  pjob' \in [Parties -> Five]
  BY FiveMoved DEF JobsSynced, JobsStopped

LEMMA FiveStopTasks ==
    ASSUME RowTypes, NEW X, NEW s \in Five, NEW unreported, StopTasks(X, s, unreported)
    PROVE  ts' \in [Copies -> Five] /\ st' \in [Copies -> Five]
  BY FiveUpdated DEF RowTypes, StopTasks

LEMMA FiveStopJob ==
    ASSUME RowTypes, NEW s \in Five, StopJob(s), UNCHANGED <<agg, sjob, job>>
    PROVE  RowTypes' /\ lost' <= job'.lost
<1>1. PICK missed \in Losses, unanswered \in Losses, stuck \in Losses :
         \E unreported \in LostReports(ToStop(Parties \ missed)),
               deaf \in SUBSET (missed \cup unanswered) :
             StopJobWith(s, missed, unanswered, stuck, unreported, deaf)
    BY StopJobParts
<1>0. PICK unreported \in LostReports(ToStop(Parties \ missed)),
               deaf \in SUBSET (missed \cup unanswered) :
         StopJobWith(s, missed, unanswered, stuck, unreported, deaf)
    BY <1>1
<1> DEFINE told == Report(st, ToStop(Parties \ missed) \ unreported, FAILED)
<1>2. pjob' \in [Parties -> Five]
    BY <1>0, FiveParties, FiveFacts DEF StopJobWith, RowTypes
<1>3. ts' \in [Copies -> Five] /\ told \in [Copies -> Five]
    BY <1>0, FiveUpdated, FiveFacts DEF StopJobWith, RowTypes
<1>4. /\ \A x \in Copies : st'[x] \in {told[x], TaskMoved(told[x], s), TaskMoved(told[x], ts'[x])}
      /\ st' = [x \in Copies |-> st'[x]]
    BY <1>0, Zenon DEF StopJobWith
<1> HIDE DEF told
<1>5. \A x \in Copies : st'[x] \in Five
    BY <1>3, <1>4, FiveMoved
<1>6. st' \in [Copies -> Five]
    BY <1>4, <1>5
<1>7. lost' <= job'.lost
    BY <1>0 DEF StopJobWith, Lose
<1>8. cancel' \in BOOLEAN /\ fs' = fs
    BY DEF StopJob, RowTypes
<1> QED
    BY <1>2, <1>3, <1>6, <1>7, <1>8 DEF RowTypes

\* The calculations do not leave the five, and WAITING everywhere is WAITING.
LEMMA FiveFederated ==
    ASSUME NEW S \in SUBSET Five, S # {}, NEW next \in BOOLEAN
    PROVE  /\ FederatedTaskStatus(S) \in Five /\ FederatedJobStatus(next, S) \in Five
           /\ S = {WAITING} => FederatedTaskStatus(S) = WAITING
<1>1. Merged(S) = S
    BY DEF Merged, Five, WAITING, RUNNING, CANCELED, FAILED, SUCCESS, PASS
<1>2. CASE \E s \in S : S = {s}
  <2>1. PICK s \in S : S = {s}
      BY <1>2
  <2>2. FederatedTaskStatus(S) = s /\ FederatedJobStatus(next, S) = s
      BY <1>1, <2>1 DEF FederatedTaskStatus, FederatedJobStatus
  <2> QED
      BY <2>1, <2>2
<1>3. CASE ~ \E s \in S : S = {s}
  <2>1. /\ FederatedTaskStatus(S) \in {RUNNING, LowestInterrupt(S)}
        /\ FederatedJobStatus(next, S) \in {RUNNING, HighestInterrupt(S), CANCELED}
      BY <1>1, <1>3 DEF FederatedTaskStatus, FederatedJobStatus
  <2>2. TIMEOUT \notin S
      BY DEF Five, WAITING, RUNNING, CANCELED, FAILED, SUCCESS, TIMEOUT
  <2>3. LowestInterrupt(S) \in {CANCELED, FAILED} /\ HighestInterrupt(S) \in {CANCELED, FAILED}
      BY <2>2 DEF LowestInterrupt, HighestInterrupt
  <2> QED
      BY <1>3, <2>1, <2>3, FiveFacts
<1> QED
    BY <1>2, <1>3

LEMMA FiveNewJobStatus == ASSUME mem \in [Tasks -> Five] PROVE NewJobStatus \in Five
<1>1. {mem[t] : t \in Tasks} \in SUBSET Five /\ {mem[t] : t \in Tasks} # {}
    BY JobAssumption
<1>2. (code = "next") \in BOOLEAN
    OBVIOUS
<1>3. FederatedJobStatus(code = "next", {mem[t] : t \in Tasks}) \in Five
    BY <1>1, <1>2, FiveFederated
<1> QED
    BY <1>3, FiveFacts DEF NewJobStatus

\* The status that a round calculates for its task.
Calculated == FederatedTaskStatus({st[x] : x \in Of(cur)})

LEMMA FiveCalculated ==
    ASSUME RowTypes, cur \in Tasks
    PROVE  /\ Calculated \in Five
           /\ Calculated = SUCCESS => \A x \in Of(cur) : st[x] = SUCCESS
           /\ Calculated = WAITING <=> \A x \in Of(cur) : st[x] = WAITING
<1> DEFINE S == {st[x] : x \in Of(cur)}
<1>1. Of(cur) \subseteq Copies /\ Of(cur) # {}
  <2>1. PICK p \in Parties : TRUE
      BY JobAssumption
  <2>2. <<p, cur>> \in Of(cur)
      BY DEF Of
  <2> QED
      BY <2>2 DEF Of, Copies
<1>2. S \in SUBSET Five /\ S # {} /\ S \in SUBSET Statuses
    BY <1>1, FiveFacts DEF RowTypes
<1>3. Calculated = FederatedTaskStatus(S)
    BY DEF Calculated
<1>4. \A x \in Of(cur) : st[x] \in S
    OBVIOUS
<1>5. (\A x \in Of(cur) : st[x] = WAITING) => S = {WAITING}
    BY <1>1
<1> HIDE DEF S
<1>6. /\ FederatedTaskStatus(S) \in Five
      /\ S = {WAITING} => FederatedTaskStatus(S) = WAITING
    BY <1>2, FiveFederated
<1>7. /\ FederatedTaskStatus(S) = SUCCESS => S = {SUCCESS}
      /\ FederatedTaskStatus(S) = WAITING => S = {WAITING}
    BY <1>2, FederatedStatus
<1> QED
    BY <1>3, <1>4, <1>5, <1>6, <1>7

LEMMA BeginTypes ==
    ASSUME JobIInv, FewStatuses, Pick \/ CancelWaiting \/ StartJob \/ NotGranted
    PROVE  FewStatuses'
<1> USE DEF FewStatuses
<1>1. CASE Pick
    BY <1>1 DEF Pick, RowTypes, RoundTypes, FaultTypes, schedVars, partyVars, fixed
<1>2. CASE CancelWaiting
  <2>1. pjob' \in [Parties -> Five]
      BY <1>2, FiveParties, FiveFacts DEF CancelWaiting, RowTypes
  <2>2. lost' <= job'.lost
      BY <1>2 DEF CancelWaiting, Lose, fixed
  <2> QED
      BY <1>2, <2>1, <2>2, FiveFacts DEF CancelWaiting, RowTypes, RoundTypes, FaultTypes, fixed
<1>3. CASE StartJob
  <2>1. pjob' \in [Parties -> Five] /\ sjob' \in Five
      BY <1>3, FiveParties, FiveMoved, FiveFacts DEF StartJob, RowTypes
  <2>2. lost' <= job'.lost
      BY <1>3 DEF StartJob, Lose, fixed
  <2> QED
      BY <1>3, <2>1, <2>2 DEF StartJob, RowTypes, RoundTypes, FaultTypes, fixed
<1>4. CASE NotGranted
    BY <1>4 DEF NotGranted, RowTypes, RoundTypes, FaultTypes, schedVars, partyVars, fixed
<1> QED
    BY <1>1, <1>2, <1>3, <1>4

LEMMA LookTypes == ASSUME JobIInv, FewStatuses, NEW t \in Tasks, Look(t) PROVE FewStatuses'
<1> USE DEF FewStatuses
<1>1. lost' <= job'.lost
    BY DEF Look, Lose, fixed
<1>2. \A x \in Copies : st[x] \in Five /\ TaskMoved(st[x], ts[x]) \in Five
    BY FiveMoved DEF RowTypes
<1>3. st' \in [Copies -> Five]
    BY <1>2 DEF Look
<1> QED
    BY <1>1, <1>3 DEF Look, RowTypes, RoundTypes, FaultTypes, partyVars, fixed

LEMMA JudgeTypes == ASSUME JobIInv, FewStatuses, Judge PROVE FewStatuses'
<1> USE DEF FewStatuses
<1>0. cur \in Tasks
    BY DEF Judge, JobIInv, RoundInv
<1>1. Calculated \in Five
    BY <1>0, FiveCalculated
<1>2. /\ mem' = [mem EXCEPT ![cur] = Calculated]
      /\ \E missed : fs' \in {fs, Update(fs, missed, Calculated)}
      /\ agg' = [agg EXCEPT ![cur] = IF Calculated # mem[cur] THEN TaskMoved(@, Calculated) ELSE @]
      /\ pc' \in {"halt", "start", "look"}
      /\ lost' <= job'.lost
      /\ UNCHANGED <<sjob, cancel, st, pjob, ts, cur, canceled, code, asked, crashes, job>>
    BY DEF Judge, Calculated, Looked, fixed, Lose
<1> HIDE DEF FewStatuses
<1>3. fs' \in [Copies -> Five]
    BY <1>1, <1>2, FiveUpdated DEF FewStatuses, RowTypes
<1>4. mem' \in [Tasks -> Five] /\ agg' \in [Tasks -> Five]
    BY <1>0, <1>1, <1>2, FiveMoved DEF FewStatuses, RowTypes, RoundTypes
<1> QED
    BY <1>2, <1>3, <1>4 DEF FewStatuses, RowTypes, RoundTypes, FaultTypes

LEMMA HaltTypes == ASSUME JobIInv, FewStatuses, Halt PROVE FewStatuses'
<1> USE DEF FewStatuses
<1>1. mem[cur] \in Five
    BY DEF JobIInv, RoundInv, Halt, RoundTypes
<1>2. ts' \in [Copies -> Five] /\ st' \in [Copies -> Five]
    BY <1>1, FiveStopTasks DEF Halt
<1>3. pc' \in {"start", "look"} /\ lost' <= job'.lost
    BY DEF Halt, Looked, Lose, fixed
<1> QED
    BY <1>2, <1>3 DEF Halt, RowTypes, RoundTypes, FaultTypes, fixed

LEMMA StartTypes ==
    ASSUME JobIInv, FewStatuses, NothingToStart \/ NoResource \/ StartFailed \/ Crash
    PROVE  FewStatuses'
<1> USE DEF FewStatuses
<1>1. CASE NothingToStart \/ NoResource
    BY <1>1 DEF NothingToStart, NoResource, RowTypes, RoundTypes, FaultTypes, schedVars, partyVars,
               fixed
<1>2. CASE StartFailed
  <2>1. fs' \in [Copies -> Five]
      BY <1>2, FiveUpdated, FiveFacts DEF StartFailed, RowTypes
  <2>2. lost' <= job'.lost
      BY <1>2 DEF StartFailed, Lose, fixed
  <2>3. mem' \in [Tasks -> Five]
      BY <1>2, FiveFacts DEF StartFailed, RoundTypes
  <2> QED
      BY <1>2, <2>1, <2>2, <2>3 DEF StartFailed, RowTypes, RoundTypes, FaultTypes, schedVars, fixed
<1>3. CASE Crash
  <2>1. crashes' \in 0..job'.crashes
      BY <1>3, JobAssumption DEF Crash, FaultTypes, JobIInv, JobTypes
  <2> QED
      BY <1>3, <2>1, FiveFacts DEF Crash, RowTypes, RoundTypes, FaultTypes, schedVars, partyVars
<1> QED
    BY <1>1, <1>2, <1>3

LEMMA GrantTypes == ASSUME JobIInv, FewStatuses, NEW t \in Tasks, Grant(t) PROVE FewStatuses'
<1> USE DEF FewStatuses
<1>1. fs' \in [Copies -> Five]
    BY FiveUpdated, FiveFacts DEF Grant, RowTypes
<1>2. mem' \in [Tasks -> Five] /\ agg' \in [Tasks -> Five]
    BY FiveMoved, FiveFacts DEF Grant, RowTypes, RoundTypes
<1>3. lost' <= job'.lost
    BY DEF Grant, Lose, fixed
<1> QED
    BY <1>1, <1>2, <1>3 DEF Grant, RowTypes, RoundTypes, FaultTypes, fixed

LEMMA LaunchTypes == ASSUME JobIInv, FewStatuses, Launch PROVE FewStatuses'
<1> USE DEF FewStatuses
<1>1. /\ \E X, bad : ts' = Update(Update(ts, X, RUNNING), bad, FAILED)
      /\ \E X, bad : st' = Report(Report(st, X, RUNNING), bad, FAILED)
      /\ pc' \in {"start", "failed"} /\ lost' <= job'.lost
      /\ UNCHANGED <<sjob, cancel, agg, pjob, fs, todo, cur, canceled, mem, code, asked, fixed>>
    BY DEF Launch, Lose, fixed
<1>2. ts' \in [Copies -> Five] /\ st' \in [Copies -> Five]
    BY <1>1, FiveUpdated, FiveFacts DEF RowTypes
<1> QED
    BY <1>1, <1>2 DEF RowTypes, RoundTypes, FaultTypes, fixed

LEMMA ConcludeTypes == ASSUME JobIInv, FewStatuses, Conclude PROVE FewStatuses'
<1> USE DEF FewStatuses
<1>1. NewJobStatus \in Five
    BY FiveNewJobStatus DEF RoundTypes
<1>2. pjob' \in [Parties -> Five] /\ sjob' \in Five
    BY <1>1, FiveParties, FiveMoved DEF Conclude, RowTypes
<1>3. lost' <= job'.lost
    BY DEF Conclude, Lose, fixed, FaultTypes
<1> QED
    BY <1>2, <1>3 DEF Conclude, RowTypes, RoundTypes, FaultTypes, fixed

LEMMA FinishTypes == ASSUME JobIInv, FewStatuses, Finish PROVE FewStatuses'
<1> USE DEF FewStatuses
<1>1. NewJobStatus \in Five
    BY FiveNewJobStatus DEF RoundTypes
<1>2. RowTypes' /\ lost' <= job'.lost
    BY <1>1, FiveStopJob DEF Finish, fixed
<1> QED
    BY <1>2 DEF Finish, RoundTypes, FaultTypes, fixed

LEMMA OutsideTypes ==
    ASSUME JobIInv, FewStatuses,
           \/ \E x \in Copies : End(x, SUCCESS) \/ End(x, FAILED) \/ Vanish(x)
           \/ Detect
           \/ \E p \in Cancelers : StopAtHome(p) \/ StopEverywhere(p) \/ RequestLost(p)
    PROVE  FewStatuses'
<1> USE DEF FewStatuses
<1>1. ASSUME NEW x \in Copies, NEW s \in {SUCCESS, FAILED}, End(x, s) PROVE FewStatuses'
  <2>1. ts' \in [Copies -> Five] /\ st' \in [Copies -> Five]
      BY <1>1, FiveUpdated, FiveFacts DEF End, RowTypes
  <2>2. lost' <= job'.lost
      BY <1>1 DEF End, Lose, fixed
  <2> QED
      BY <1>1, <2>1, <2>2 DEF End, RowTypes, RoundTypes, FaultTypes, roundVars, fixed
<1>2. ASSUME NEW x \in Copies, Vanish(x) PROVE FewStatuses'
    BY <1>2 DEF Vanish, RowTypes, RoundTypes, FaultTypes, schedVars, roundVars, fixed
<1>3. CASE Detect
  <2>1. RowTypes' /\ lost' <= job'.lost
      BY <1>3, FiveStopJob, FiveFacts DEF Detect, fixed
  <2> QED
      BY <1>3, <2>1 DEF Detect, RoundTypes, FaultTypes, roundVars, fixed
<1>4. ASSUME NEW p \in Cancelers, StopAtHome(p) PROVE FewStatuses'
  <2>1. ts' \in [Copies -> Five] /\ st' \in [Copies -> Five]
      BY <1>4, FiveStopTasks, FiveFacts DEF StopAtHome
  <2>2. pjob' \in [Parties -> Five]
      BY <1>4, FiveParties, FiveFacts DEF StopAtHome, RowTypes
  <2>3. lost' <= job'.lost
      BY <1>4 DEF StopAtHome, Lose, fixed
  <2> QED
      BY <1>4, <2>1, <2>2, <2>3 DEF StopAtHome, RowTypes, RoundTypes, FaultTypes, roundVars, fixed
<1>5. ASSUME NEW p \in Cancelers, StopEverywhere(p) PROVE FewStatuses'
  <2>1. RowTypes' /\ lost' <= job'.lost
      BY <1>5, FiveStopJob, FiveFacts DEF StopEverywhere, fixed
  <2> QED
      BY <1>5, <2>1 DEF StopEverywhere, RoundTypes, FaultTypes, roundVars, fixed
<1>6. ASSUME NEW p \in Cancelers, RequestLost(p) PROVE FewStatuses'
  <2>1. lost' <= job'.lost
      BY <1>6 DEF RequestLost, Lose, fixed
  <2> QED
      BY <1>6, <2>1 DEF RequestLost, RowTypes, RoundTypes, FaultTypes, schedVars, partyVars, roundVars,
                        fixed
<1> QED
    BY <1>1, <1>2, <1>3, <1>4, <1>5, <1>6

-----------------------------------------------------------------------------
(* Who has heard of the end *)

AllEnded == \A p \in Parties : pjob[p] \in EndStatus
Faultless == lost + crashes = 0

\* Every party has heard of the end, of which they are told twice: when a round concludes
\* it, and when the round finishes.
ToldInv ==
    /\ pc = "begin" => sjob = WAITING /\ (canceled => cancel)
    /\ pc \in {"look", "judge", "halt", "start", "launch", "failed", "conclude"} => sjob = RUNNING
    /\ pc = "finish" => sjob \in EndStatus /\ (Faultless => AllEnded)
    /\ sjob = WAITING /\ cancel /\ Faultless => AllEnded
    /\ sjob \in EndStatus /\ pc = "idle" /\ lost + crashes <= 1 => AllEnded

LEMMA JobEnds ==
    ASSUME NEW s \in Five, NEW new \in Five \cap EndStatus
    PROVE  JobMoved(s, new) \in EndStatus
  BY DEF JobMoved, JobMayBecome, JobRules, Five, EndStatus, WAITING, READY, RUNNING, CANCELED,
         TIMEOUT, FAILED, PASS, SUCCESS

\* A party whose job has ended keeps it so; all have once nobody misses the command.
LEMMA EndSynced ==
    ASSUME RowTypes, NEW missed, NEW s \in Five \cap EndStatus, JobsSynced(Parties \ missed, s)
    PROVE  (AllEnded \/ missed = {}) => AllEnded'
  BY JobEnds DEF RowTypes, JobsSynced, AllEnded

LEMMA EndStopped ==
    ASSUME RowTypes, NEW P, NEW stuck, NEW s \in Five \cap EndStatus, JobsStopped(P, stuck, s)
    PROVE  (AllEnded \/ (P = Parties /\ stuck = {})) => AllEnded'
  BY JobEnds DEF RowTypes, JobsStopped, AllEnded

LEMMA FaultNumbers ==
    ASSUME JobIInv, FewStatuses
    PROVE  lost \in Nat /\ crashes \in Nat /\ job.lost \in Nat /\ job.crashes \in Nat
  BY JobAssumption DEF JobIInv, JobTypes, FewStatuses, FaultTypes

\* What is lost in a step counts.
LEMMA NothingMissed ==
    ASSUME JobIInv, FewStatuses, NEW missed \in Losses, NEW n \in Nat, Lose(Cardinality(missed) + n)
    PROVE  lost' \in Nat /\ lost' >= lost /\ (lost' = lost => missed = {} /\ n = 0)
<1>1. Cardinality(missed) \in Nat /\ IsFiniteSet(missed)
    BY LossTypes, LossNumber
<1>2. Cardinality(missed) = 0 => missed = {}
    BY <1>1, FS_EmptySet
<1> QED
    BY <1>1, <1>2, FaultNumbers DEF Lose

LEMMA NothingUnreported ==
    ASSUME NEW X \in SUBSET Copies, NEW unreported \in LostReports(X)
    PROVE  Cardinality(unreported) \in Nat /\ (Cardinality(unreported) = 0 => unreported = {})
<1>1. Cardinality(unreported) \in Nat /\ IsFiniteSet(unreported)
    BY LossTypes, ReportNumber
<1> QED
    BY <1>1, FS_EmptySet

LEMMA StopJobTells ==
    ASSUME JobIInv, FewStatuses, NEW s, StopJob(s)
    PROVE  /\ AllEnded \/ lost' = lost => AllEnded'
           /\ lost' \in Nat /\ lost' >= lost
<1>1. PICK missed \in Losses, unanswered \in Losses, stuck \in Losses :
         \E unreported \in LostReports(ToStop(Parties \ missed)),
               deaf \in SUBSET (missed \cup unanswered) :
             StopJobWith(s, missed, unanswered, stuck, unreported, deaf)
    BY StopJobParts
<1>2. PICK unreported \in LostReports(ToStop(Parties \ missed)) :
         /\ JobsStopped(Parties \ missed, stuck, FAILED)
         /\ Lose(Cardinality(missed) + Cardinality(unanswered) + Cardinality(stuck)
                 + Cardinality(unreported))
    BY <1>1 DEF StopJobWith
<1>3. /\ Cardinality(missed) \in Nat /\ Cardinality(unanswered) \in Nat
      /\ Cardinality(stuck) \in Nat /\ Cardinality(unreported) \in Nat
    BY LossTypes, LossNumber, NothingUnreported, ToStopType
<1>4. /\ lost' \in Nat /\ lost' >= lost
      /\ lost' = lost => Cardinality(missed) = 0 /\ Cardinality(stuck) = 0
    BY <1>2, <1>3, FaultNumbers DEF Lose
<1>5. /\ Cardinality(missed) = 0 => missed = {}
      /\ Cardinality(stuck) = 0 => stuck = {}
    BY LossTypes, LossNumber, FS_EmptySet
<1>6. FAILED \in Five \cap EndStatus
    BY FiveFacts
<1> QED
    BY <1>2, <1>4, <1>5, <1>6, EndStopped DEF FewStatuses

LEMMA MissedCommands ==
    ASSUME JobIInv, FewStatuses, NEW missed \in Losses, Lose(Cardinality(missed))
    PROVE  lost' \in Nat /\ lost' >= lost /\ (lost' = lost => missed = {})
<1>1. Cardinality(missed) \in Nat
    BY LossTypes, LossNumber
<1>2. Lose(Cardinality(missed) + 0)
    BY <1>1
<1> QED
    BY <1>2, NothingMissed

LEMMA FaultCount ==
    ASSUME lost \in Nat, crashes \in Nat, lost' \in Nat, lost' >= lost, crashes' = crashes
    PROVE  /\ Faultless' => Faultless /\ lost' = lost
           /\ lost' + crashes' <= 1 => lost + crashes <= 1 /\ (lost' = lost \/ Faultless)
<1>1. \A a, b, n \in Nat : n >= a =>
         /\ n + b = 0 => a + b = 0 /\ n = a
         /\ n + b <= 1 => a + b <= 1 /\ (n = a \/ a + b = 0)
    OBVIOUS
<1>2. /\ lost' + crashes = 0 => lost + crashes = 0 /\ lost' = lost
      /\ lost' + crashes <= 1 => lost + crashes <= 1 /\ (lost' = lost \/ lost + crashes = 0)
    BY <1>1
<1>3. lost' + crashes' = lost' + crashes
    OBVIOUS
<1> QED
    BY <1>2, <1>3 DEF Faultless

\* Steps after which the job, the round and what the parties know are as before, or more
\* parties have heard of the end.
LEMMA ToldStays ==
    ASSUME JobIInv, FewStatuses, ToldInv, lost' \in Nat, lost' >= lost, crashes' = crashes,
           sjob' = sjob, canceled' = canceled, cancel => cancel', AllEnded => AllEnded',
           pc' = pc \/ pc' \in {"look", "judge", "halt", "start", "launch", "failed", "conclude"},
           pc \in {"idle", "begin", "finish"} => pc' = pc,
           cancel' /\ lost' = lost => cancel \/ AllEnded'
    PROVE  ToldInv'
<1>1. lost \in Nat /\ crashes \in Nat
    BY FaultNumbers
<1>2. Faultless' => Faultless /\ lost' = lost
    BY <1>1, FaultCount
<1>3. lost' + crashes' <= 1 => lost + crashes <= 1
    BY <1>1, FaultCount
<1> QED
    BY <1>2, <1>3 DEF ToldInv, FewStatuses, RoundTypes

LEMMA PickTells ==
    ASSUME JobIInv, FewStatuses, ToldInv, Pick
    PROVE  ToldInv'
<1>1. UNCHANGED <<sjob, cancel, pjob, lost, crashes>>
    BY DEF Pick, schedVars, partyVars, fixed
<1>2. \/ sjob = WAITING /\ pc' = "begin" /\ canceled' = cancel
      \/ sjob = RUNNING /\ pc' = "look"
    BY DEF Pick
<1>3. sjob \notin EndStatus
    BY <1>2, StatusNames
<1> QED
    BY <1>1, <1>2, <1>3 DEF ToldInv, AllEnded, Faultless, WAITING, RUNNING

\* A job that is canceled before it starts: its parties had been told to stop it by the
\* request, and now are told again.
LEMMA CancelWaitingTells ==
    ASSUME JobIInv, FewStatuses, ToldInv, CancelWaiting
    PROVE  ToldInv'
<1>0. lost \in Nat /\ crashes \in Nat
    BY FaultNumbers
<1>1. /\ pc' = "idle" /\ sjob' = CANCELED /\ UNCHANGED <<cancel, crashes>>
      /\ sjob = WAITING /\ cancel
    BY DEF CancelWaiting, ToldInv, fixed
<1>2. PICK missed \in Losses : JobsSynced(Parties \ missed, CANCELED) /\ Lose(Cardinality(missed))
    BY DEF CancelWaiting
<1>3. lost' \in Nat /\ lost' >= lost /\ (lost' = lost => missed = {})
    BY <1>2, MissedCommands
<1>4. (AllEnded \/ missed = {}) => AllEnded'
    BY <1>2, EndSynced, FiveFacts DEF FewStatuses
<1>5. lost' + crashes' <= 1 => lost' = lost \/ Faultless
    BY <1>0, <1>1, <1>3, FaultCount
<1>6. Faultless => AllEnded
    BY <1>1 DEF ToldInv
<1>7. CANCELED # WAITING
    BY DEF CANCELED, WAITING
<1> QED
    BY <1>1, <1>3, <1>4, <1>5, <1>6, <1>7 DEF ToldInv

LEMMA StartJobTells ==
    ASSUME JobIInv, FewStatuses, ToldInv, StartJob \/ NotGranted
    PROVE  ToldInv'
<1>1. pc' = "idle" /\ sjob = WAITING
    BY DEF StartJob, NotGranted, ToldInv
<1>2. CASE StartJob
  <2>1. sjob' = RUNNING
      BY <1>1, <1>2 DEF StartJob, JobMoved, JobMayBecome, JobRules
  <2> QED
      BY <1>1, <2>1, StatusNames DEF ToldInv, WAITING, RUNNING
<1>3. CASE NotGranted
  <2>1. UNCHANGED <<sjob, cancel, pjob, lost, crashes>>
      BY <1>3 DEF NotGranted, schedVars, partyVars, fixed
  <2> QED
      BY <1>1, <2>1, StatusNames DEF ToldInv, AllEnded, Faultless
<1> QED
    BY <1>2, <1>3

LEMMA TasksTell ==
    ASSUME JobIInv, FewStatuses, ToldInv,
           \/ \E t \in Tasks : Look(t) \/ Grant(t)
           \/ Judge \/ Halt \/ NothingToStart \/ NoResource \/ Launch \/ StartFailed
    PROVE  ToldInv'
<1>1. /\ UNCHANGED <<sjob, cancel, pjob, canceled, crashes>>
      /\ pc \in {"look", "judge", "halt", "start", "launch", "failed"}
      /\ pc' \in {"look", "judge", "halt", "start", "launch", "failed", "conclude"}
    BY DEF Look, Grant, Judge, Halt, NothingToStart, NoResource, Launch, StartFailed, Looked,
           schedVars, partyVars, fixed
<1>2. sjob' = RUNNING
    BY <1>1 DEF ToldInv
<1> QED
    BY <1>1, <1>2, StatusNames DEF ToldInv, WAITING, RUNNING

LEMMA ConcludeTells ==
    ASSUME JobIInv, FewStatuses, ToldInv, Conclude
    PROVE  ToldInv'
<1>0. /\ NewJobStatus \in Five /\ sjob = RUNNING /\ pc = "conclude"
      /\ lost \in Nat /\ crashes \in Nat /\ crashes' = crashes
    BY FiveNewJobStatus, FaultNumbers DEF FewStatuses, RoundTypes, Conclude, ToldInv, fixed
<1>1. CASE NewJobStatus \in EndStatus
  <2>1. PICK missed \in Losses :
           /\ JobsSynced(Parties \ missed, NewJobStatus)
           /\ Lose(Cardinality(missed))
      BY <1>1, StatusNames DEF Conclude
  <2>2. lost' \in Nat /\ lost' >= lost /\ (lost' = lost => missed = {})
      BY <2>1, MissedCommands
  <2>3. Faultless' => lost' = lost
      BY <1>0, <2>2, FaultCount
  <2>6. Faultless' => AllEnded'
      BY <1>0, <1>1, <2>1, <2>2, <2>3, EndSynced DEF FewStatuses
  <2>4. pc' = "finish" /\ sjob' = JobMoved(sjob, NewJobStatus)
      BY <1>1, StatusNames DEF Conclude
  <2>5. sjob' \in EndStatus
      BY <1>0, <1>1, <2>4, JobEnds, FiveFacts
  <2> QED
      BY <2>4, <2>5, <2>6, StatusNames DEF ToldInv
<1>2. CASE NewJobStatus \notin EndStatus
  <2>1. NewJobStatus \in {WAITING, RUNNING}
      BY <1>0, <1>2, FiveFacts DEF Five
  <2>2. JobMoved(RUNNING, WAITING) = RUNNING
      BY DEF JobMoved, JobMayBecome, JobRules, WAITING, READY, RUNNING, CANCELED, TIMEOUT, FAILED,
             SUCCESS
  <2>3. sjob' = RUNNING /\ pc' = "idle"
      BY <1>0, <1>2, <2>1, <2>2 DEF Conclude
  <2> QED
      BY <2>3, StatusNames DEF ToldInv, WAITING, RUNNING
<1> QED
    BY <1>1, <1>2

LEMMA FinishTells ==
    ASSUME JobIInv, FewStatuses, ToldInv, Finish
    PROVE  ToldInv'
<1>0. /\ lost \in Nat /\ crashes \in Nat /\ crashes' = crashes
      /\ sjob \in EndStatus /\ sjob' = sjob /\ pc' = "idle"
      /\ Faultless => AllEnded
    BY FaultNumbers DEF Finish, ToldInv, fixed
<1>1. /\ AllEnded \/ lost' = lost => AllEnded'
      /\ lost' \in Nat /\ lost' >= lost
    BY StopJobTells DEF Finish
<1>2. lost' + crashes' <= 1 => lost' = lost \/ Faultless
    BY <1>0, <1>1, FaultCount
<1>3. lost' + crashes' <= 1 => AllEnded'
    BY <1>0, <1>1, <1>2
<1> QED
    BY <1>0, <1>3, StatusNames DEF ToldInv

LEMMA CrashTells ==
    ASSUME JobIInv, FewStatuses, ToldInv, Crash
    PROVE  ToldInv'
<1>1. /\ lost \in Nat /\ crashes \in Nat /\ crashes' = crashes + 1
      /\ UNCHANGED <<sjob, cancel, pjob, lost>> /\ pc' = "idle" /\ pc # "idle"
    BY FaultNumbers DEF Crash, schedVars, partyVars
<1>2. AllEnded' <=> AllEnded
    BY <1>1 DEF AllEnded
<1>3. ~Faultless' /\ (lost' + crashes' <= 1 => Faultless)
    BY <1>1 DEF Faultless
<1>4. sjob \in EndStatus => pc = "finish"
    BY <1>1, StatusNames DEF ToldInv, FewStatuses, RoundTypes
<1> QED
    BY <1>1, <1>2, <1>3, <1>4 DEF ToldInv

LEMMA OutsideTells ==
    ASSUME JobIInv, FewStatuses, ToldInv,
           \/ \E x \in Copies : End(x, SUCCESS) \/ End(x, FAILED) \/ Vanish(x)
           \/ Detect
           \/ \E p \in Cancelers : StopAtHome(p) \/ StopEverywhere(p) \/ RequestLost(p)
    PROVE  ToldInv'
<1>0. lost \in Nat
    BY FaultNumbers
<1>1. ASSUME NEW x \in Copies, NEW s \in {SUCCESS, FAILED}, End(x, s) PROVE ToldInv'
  <2>1. lost' \in Nat /\ lost' >= lost
      BY <1>1, LossesOfReports DEF End
  <2> QED
      BY <1>1, <2>1, ToldStays DEF End, roundVars, fixed, AllEnded
<1>2. ASSUME NEW x \in Copies, Vanish(x) PROVE ToldInv'
    BY <1>0, <1>2, ToldStays DEF Vanish, schedVars, roundVars, fixed, AllEnded
<1>3. CASE Detect
  <2>1. /\ AllEnded => AllEnded'
        /\ lost' \in Nat /\ lost' >= lost
        /\ cancel' = cancel
      BY <1>3, StopJobTells DEF Detect, StopJob, FAILED, CANCELED, FewStatuses, RowTypes
  <2> QED
      BY <1>3, <2>1, ToldStays DEF Detect, roundVars, fixed
<1>4. ASSUME NEW p \in Cancelers, StopAtHome(p) PROVE ToldInv'
  <2>1. lost' \in Nat /\ lost' >= lost
      BY <1>4, LossesOfReports, ToStopType DEF StopAtHome
  <2>2. AllEnded => AllEnded'
      BY <1>4, EndStopped, FiveFacts DEF StopAtHome, FewStatuses
  <2> QED
      BY <1>4, <2>1, <2>2, ToldStays DEF StopAtHome, roundVars, fixed
<1>5. ASSUME NEW p \in Cancelers, StopEverywhere(p) PROVE ToldInv'
  <2>1. /\ AllEnded \/ lost' = lost => AllEnded'
        /\ lost' \in Nat /\ lost' >= lost
        /\ cancel => cancel'
      BY <1>5, StopJobTells DEF StopEverywhere, StopJob
  <2> QED
      BY <1>5, <2>1, ToldStays DEF StopEverywhere, roundVars, fixed
<1>6. ASSUME NEW p \in Cancelers, RequestLost(p) PROVE ToldInv'
  <2>1. lost' \in Nat /\ lost' >= lost
      BY <1>0, <1>6, LosesMore DEF RequestLost
  <2> QED
      BY <1>6, <2>1, ToldStays DEF RequestLost, schedVars, partyVars, roundVars, fixed, AllEnded
<1> QED
    BY <1>1, <1>2, <1>3, <1>4, <1>5, <1>6

-----------------------------------------------------------------------------
(* Who still runs *)

\* While nothing has got lost: whoever runs is known to run, also by the party's row of the
\* task over all parties, by which a stop leaves copies alone ...
AliveKnown ==
    /\ \A x \in alive : fs[x] \notin {WAITING, SUCCESS} /\ ts[x] \notin {WAITING, SUCCESS}
    /\ sjob = WAITING \/ (sjob \in EndStatus /\ pc = "idle") => alive = {}

\* ... what may be started has not succeeded behind the scheduler's back ...
Judged(t) == t \notin todo /\ (pc = "judge" => t # cur)
IsRefused(t) == \A x \in Of(t) : ts[x] \in Refused
NotSeenRunning ==
    /\ pc \in {"look", "judge", "halt", "start", "launch"} =>
         \A t \in Tasks : Judged(t) /\ mem[t] = WAITING => IsRefused(t)
    /\ pc = "judge" => \A x \in Of(cur) : ~Callback /\ st[x] = WAITING => ts[x] \in Refused
    /\ pc = "launch" => IsRefused(cur) /\ \A x \in Of(cur) : fs[x] \notin {WAITING, SUCCESS}

\* ... and what the parties hold of a task over all parties came from the scheduler's rows.
KnownStatus ==
    /\ \A x \in Copies : fs[x] = SUCCESS => Succeeded(x[2])
    /\ \A x \in Copies : ts[x] = WAITING => st[x] = WAITING
    /\ \A x \in Copies : fs[x] = CANCELED => \E y \in Of(x[2]) : st[y] # WAITING

KnownRuns == AliveKnown /\ NotSeenRunning /\ KnownStatus

LEMMA FewMoves ==
    ASSUME NEW s \in Five, NEW new \in Five
    PROVE  /\ TaskMoved(s, new) \in {s, new}
           /\ s \in Refused /\ new \notin {RUNNING, SUCCESS} => TaskMoved(s, new) \in Refused
           /\ s \in {CANCELED, FAILED, SUCCESS} /\ new # WAITING => TaskMoved(s, new) = s
           /\ s \notin {WAITING, CANCELED} => TaskMoved(s, WAITING) = s
           /\ s = WAITING /\ new \in {CANCELED, FAILED} => TaskMoved(s, new) = WAITING
           /\ s = WAITING /\ new \in {RUNNING, SUCCESS} => TaskMoved(s, new) = new
           /\ s = RUNNING /\ new # WAITING => TaskMoved(s, new) = new
  BY DEF TaskMoved, TaskMayBecome, TaskRules, Five, Refused, WAITING, RUNNING, CANCELED, TIMEOUT,
         FAILED, PASS, SUCCESS

LEMMA FewNames ==
    /\ WAITING \in Refused /\ CANCELED \in Refused /\ FAILED \in Refused
    /\ RUNNING \notin Refused /\ SUCCESS \notin Refused /\ Refused \subseteq Five
    /\ Five = Refused \cup {RUNNING, SUCCESS}
    /\ WAITING \notin {RUNNING, CANCELED, FAILED, SUCCESS}
    /\ SUCCESS \notin {RUNNING, CANCELED, FAILED} /\ CANCELED \notin {RUNNING, FAILED}
    /\ RUNNING # FAILED
  BY DEF Five, Refused, WAITING, RUNNING, CANCELED, FAILED, SUCCESS

LEMMA UpdateValues ==
    ASSUME NEW f \in [Copies -> Five], NEW X, NEW new
    PROVE  /\ \A x \in Copies : /\ x \in X => Update(f, X, new)[x] = TaskMoved(f[x], new)
                                /\ x \notin X => Update(f, X, new)[x] = f[x]
           /\ \A x \in Copies : Report(f, X, new)[x] \in {f[x], TaskMoved(f[x], new)}
           /\ \A x \in Copies : x \notin X => Report(f, X, new)[x] = f[x]
  BY DEF Update, Report

LEMMA HeardAtFirst == lost = 0 => Heard
<1>1. Cardinality(Parties) \in Nat /\ Cardinality(Parties) # 0
    BY JobAssumption, LossNumber, FS_EmptySet
<1> QED
    BY <1>1 DEF Heard

\* Steps that let nothing begin, and take nothing back.
CalmRows ==
    /\ alive' \subseteq alive
    /\ \A x \in Copies : ts[x] \in Refused => ts'[x] \in Refused
    /\ \A x \in Copies : ts[x] = SUCCESS => ts'[x] = SUCCESS
    /\ \A x \in alive' : ts'[x] \notin {WAITING, SUCCESS}
    /\ \A x \in Copies : ts'[x] = WAITING => st'[x] = WAITING
    /\ \A x \in Copies : st[x] # WAITING => st'[x] # WAITING

LEMMA CalmStay == ASSUME KnownRuns, UNCHANGED <<st, ts>>, alive' \subseteq alive PROVE CalmRows
  BY DEF KnownRuns, AliveKnown, KnownStatus, CalmRows

LEMMA CalmStop ==
    ASSUME JobIInv, FewStatuses, KnownRuns, NEW X \in SUBSET Copies, NEW s \in {CANCELED, FAILED, SUCCESS},
           s = SUCCESS => \A x \in X : ts[x] = SUCCESS,
           NEW unreported, StopTasks(X, s, unreported)
    PROVE  CalmRows
<1>0. /\ ts' = Update(ts, X, s) /\ st' = Report(st, X \ unreported, s) /\ alive' = alive \ X
      /\ ts \in [Copies -> Five] /\ st \in [Copies -> Five] /\ alive \subseteq Copies
      /\ s \in Five /\ s # WAITING /\ s # RUNNING
    BY FiveFacts, FewNames DEF StopTasks, FewStatuses, RowTypes, JobIInv, JobTypes
<1>1. \A x \in Copies : /\ x \in X => ts'[x] = TaskMoved(ts[x], s)
                        /\ x \notin X => ts'[x] = ts[x] /\ st'[x] = st[x]
                        /\ st'[x] \in {st[x], TaskMoved(st[x], s)}
    BY <1>0, UpdateValues
<1>2. \A x \in Copies : ts[x] \in Five /\ st[x] \in Five
    BY <1>0
<1>3. \A x \in Copies : ts[x] \in Refused => ts'[x] \in Refused
    BY <1>0, <1>1, <1>2, FewMoves, FewNames
<1>4. \A x \in Copies : ts[x] = SUCCESS => ts'[x] = SUCCESS
    BY <1>0, <1>1, <1>2, FewMoves
<1>5. \A x \in alive' : ts'[x] \notin {WAITING, SUCCESS}
    BY <1>0, <1>1 DEF KnownRuns, AliveKnown
<1>6. ASSUME NEW x \in Copies, ts'[x] = WAITING PROVE st'[x] = WAITING
  <2>1. ts[x] = WAITING
      BY <1>0, <1>1, <1>2, <1>6, FewMoves
  <2>2. st[x] = WAITING
      BY <2>1 DEF KnownRuns, KnownStatus
  <2>3. x \in X => TaskMoved(WAITING, s) = WAITING
      BY <2>1, FewMoves, FewNames, FiveFacts
  <2> QED
      BY <1>1, <2>2, <2>3
<1>7. \A x \in Copies : st[x] # WAITING => st'[x] # WAITING
    BY <1>0, <1>1, <1>2, FewMoves
<1> QED
    BY <1>0, <1>3, <1>4, <1>5, <1>6, <1>7 DEF CalmRows

\* When nothing gets lost, the scheduler's stop is the parties' stop.
LEMMA StopJobStops ==
    ASSUME JobIInv, FewStatuses, NEW s, StopJob(s), lost' = lost
    PROVE  StopTasks(ToStop(Parties), FAILED, {}) /\ fs' = fs
<1>1. PICK missed \in Losses, unanswered \in Losses, stuck \in Losses :
         \E unreported \in LostReports(ToStop(Parties \ missed)),
               deaf \in SUBSET (missed \cup unanswered) :
             StopJobWith(s, missed, unanswered, stuck, unreported, deaf)
    BY StopJobParts
<1>2. PICK unreported \in LostReports(ToStop(Parties \ missed)) :
         /\ ts' = Update(ts, ToStop(Parties \ missed), FAILED)
         /\ alive' = alive \ ToStop(Parties \ missed)
         /\ missed \cup unanswered \cup stuck = {} =>
              st' = [x \in Copies |-> Report(st, ToStop(Parties \ missed) \ unreported, FAILED)[x]]
         /\ Lose(Cardinality(missed) + Cardinality(unanswered) + Cardinality(stuck)
                 + Cardinality(unreported))
    BY <1>1 DEF StopJobWith
<1>3. /\ Cardinality(missed) \in Nat /\ Cardinality(unanswered) \in Nat
      /\ Cardinality(stuck) \in Nat /\ Cardinality(unreported) \in Nat
    BY LossTypes, LossNumber, NothingUnreported, ToStopType
<1>4. /\ Cardinality(missed) = 0 /\ Cardinality(unanswered) = 0 /\ Cardinality(stuck) = 0
      /\ Cardinality(unreported) = 0
  <2>1. \A a, b, c, d, n \in Nat : n = n + (a + b + c + d) => a = 0 /\ b = 0 /\ c = 0 /\ d = 0
      OBVIOUS
  <2>2. lost = lost + (Cardinality(missed) + Cardinality(unanswered) + Cardinality(stuck)
                       + Cardinality(unreported))
      BY <1>2 DEF Lose
  <2> QED
      BY <1>3, <2>1, <2>2, FaultNumbers
<1>5. missed = {} /\ unanswered = {} /\ stuck = {} /\ unreported = {}
    BY <1>4, LossTypes, LossNumber, NothingUnreported, ToStopType, FS_EmptySet
<1>6. Report(st, ToStop(Parties) \ {}, FAILED) \in [Copies -> Five]
    BY FiveUpdated, FiveFacts DEF FewStatuses, RowTypes
<1>7. st' = Report(st, ToStop(Parties) \ {}, FAILED)
    BY <1>2, <1>5, <1>6
<1> QED
    BY <1>2, <1>5, <1>7 DEF StopTasks, StopJob

LEMMA CalmEnd ==
    ASSUME JobIInv, FewStatuses, KnownRuns, NEW x \in Copies, NEW s \in {SUCCESS, FAILED}, End(x, s)
    PROVE  CalmRows
<1>1. PICK Y : st' = Report(st, Y, s) /\ Y \subseteq {x}
    BY DEF End
<1>0. /\ ts' = Update(ts, {x}, s) /\ alive' = alive \ {x} /\ x \in alive
      /\ ts \in [Copies -> Five] /\ st \in [Copies -> Five] /\ alive \subseteq Copies
      /\ s \in Five /\ s # WAITING /\ ts[x] \notin {WAITING, SUCCESS}
    BY FiveFacts, FewNames DEF End, FewStatuses, RowTypes, JobIInv, JobTypes, KnownRuns, AliveKnown
<1>2. /\ \A y \in Copies \ {x} : ts'[y] = ts[y] /\ st'[y] = st[y]
      /\ ts'[x] = TaskMoved(ts[x], s) /\ st'[x] \in {st[x], TaskMoved(st[x], s)}
    BY <1>0, <1>1, UpdateValues
<1>3. ts[x] \in Five /\ st[x] \in Five
    BY <1>0
<1>4. /\ ts[x] \in Refused => ts'[x] \in Refused
      /\ ts'[x] # WAITING
      /\ st[x] # WAITING => st'[x] # WAITING
  <2>1. ts[x] \in Refused => ts[x] \in {CANCELED, FAILED}
      BY <1>0 DEF Refused
  <2>2. ts[x] \in {CANCELED, FAILED} => ts'[x] = ts[x]
      BY <1>0, <1>2, <1>3, FewMoves
  <2> QED
      BY <1>0, <1>2, <1>3, <2>1, <2>2, FewMoves
<1> QED
    BY <1>0, <1>2, <1>4 DEF CalmRows, KnownRuns, AliveKnown, KnownStatus

LEMMA CalmLook ==
    ASSUME JobIInv, FewStatuses, KnownRuns, NEW t \in Tasks, Look(t)
    PROVE  CalmRows
<1>0. /\ ts' = ts /\ alive' = alive
      /\ ts \in [Copies -> Five] /\ st \in [Copies -> Five]
      /\ \A x \in Copies : st'[x] \in {st[x], TaskMoved(st[x], ts[x])}
    BY DEF Look, partyVars, FewStatuses, RowTypes
<1>1. ASSUME NEW x \in Copies PROVE /\ ts[x] = WAITING => st'[x] = WAITING
                                    /\ st[x] # WAITING => st'[x] # WAITING
  <2>1. ts[x] = WAITING => st[x] = WAITING
      BY DEF KnownRuns, KnownStatus
  <2>2. ts[x] \in Five /\ st[x] \in Five
      BY <1>0
  <2> QED
      BY <1>0, <2>1, <2>2, FewMoves
<1> QED
    BY <1>0, <1>1 DEF CalmRows, KnownRuns, AliveKnown

\* What such a step keeps by itself.
LEMMA CalmKeeps ==
    ASSUME JobIInv, FewStatuses, KnownRuns, CalmRows
    PROVE  /\ \A t : IsRefused(t) /\ t \in Tasks => IsRefused(t)'
           /\ \A t \in Tasks : Succeeded(t) => Succeeded(t)'
           /\ fs' = fs => KnownStatus'
           /\ fs' = fs => \A x \in alive' : /\ fs'[x] \notin {WAITING, SUCCESS}
                                           /\ ts'[x] \notin {WAITING, SUCCESS}
<1>1. \A t \in Tasks : Of(t) \subseteq Copies
    BY DEF Of, Copies
<1>2. \A t : IsRefused(t) /\ t \in Tasks => IsRefused(t)'
    BY <1>1 DEF IsRefused, CalmRows
<1>3. \A t \in Tasks : Succeeded(t) => Succeeded(t)'
    BY <1>1 DEF Succeeded, CalmRows
<1>4. \A x \in Copies : x[2] \in Tasks
    BY DEF Copies
<1>5. ASSUME fs' = fs PROVE KnownStatus'
  <2>1. \A x \in Copies : fs'[x] = SUCCESS => Succeeded(x[2])'
      BY <1>3, <1>4, <1>5 DEF KnownRuns, KnownStatus
  <2>2. \A x \in Copies : ts'[x] = WAITING => st'[x] = WAITING
      BY DEF CalmRows
  <2>3. \A x \in Copies : fs'[x] = CANCELED => \E y \in Of(x[2]) : st'[y] # WAITING
      BY <1>1, <1>4, <1>5 DEF KnownRuns, KnownStatus, CalmRows
  <2> QED
      BY <2>1, <2>2, <2>3 DEF KnownStatus
<1>6. fs' = fs => \A x \in alive' : /\ fs'[x] \notin {WAITING, SUCCESS}
                                    /\ ts'[x] \notin {WAITING, SUCCESS}
    BY DEF KnownRuns, AliveKnown, CalmRows
<1> QED
    BY <1>2, <1>3, <1>5, <1>6

LEMMA CalmOutside ==
    ASSUME JobIInv, FewStatuses, KnownRuns, CalmRows, UNCHANGED <<sjob, fs, roundVars, job>>
    PROVE  KnownRuns'
<1>1. /\ pc' = pc /\ todo' = todo /\ cur' = cur /\ mem' = mem /\ sjob' = sjob /\ fs' = fs /\ job' = job
    BY DEF roundVars
<1>2. KnownStatus'
    BY <1>1, CalmKeeps
<1>3. AliveKnown'
    BY <1>1, CalmKeeps DEF KnownRuns, AliveKnown, CalmRows
<1>4. pc \in {"judge", "launch"} => cur \in Tasks
    BY DEF JobIInv, RoundInv
<1>5. NotSeenRunning'
  <2>1. pc \in {"look", "judge", "halt", "start", "launch"} =>
          \A t \in Tasks : Judged(t)' /\ mem'[t] = WAITING => IsRefused(t)'
      BY <1>1, CalmKeeps DEF KnownRuns, NotSeenRunning, Judged
  <2>2. pc = "judge" => \A x \in Of(cur) : ~Callback' /\ st'[x] = WAITING => ts'[x] \in Refused
    <3>1. pc = "judge" => Of(cur) \subseteq Copies
        BY <1>4 DEF Of, Copies
    <3> QED
        BY <1>1, <3>1 DEF KnownRuns, NotSeenRunning, CalmRows, Callback
  <2>3. pc = "launch" => IsRefused(cur)' /\ \A x \in Of(cur) : fs'[x] \notin {WAITING, SUCCESS}
      BY <1>1, <1>4, CalmKeeps DEF KnownRuns, NotSeenRunning, IsRefused, Of
  <2> QED
      BY <1>1, <2>1, <2>2, <2>3 DEF NotSeenRunning, Of
<1> QED
    BY <1>2, <1>3, <1>5 DEF KnownRuns

LEMMA OutsideKnown ==
    ASSUME JobIInv, FewStatuses, KnownRuns, lost = 0, lost' = 0,
           \/ \E x \in Copies : End(x, SUCCESS) \/ End(x, FAILED) \/ Vanish(x)
           \/ Detect
           \/ \E p \in Cancelers : StopAtHome(p) \/ StopEverywhere(p) \/ RequestLost(p)
    PROVE  KnownRuns'
<1>1. ASSUME NEW x \in Copies, NEW s \in {SUCCESS, FAILED}, End(x, s) PROVE KnownRuns'
    BY <1>1, CalmEnd, CalmOutside DEF End, fixed
<1>2. ASSUME NEW x \in Copies, Vanish(x) PROVE KnownRuns'
  <2>1. CalmRows
      BY <1>2, CalmStay DEF Vanish, schedVars
  <2> QED
      BY <1>2, <2>1, CalmOutside DEF Vanish, schedVars, fixed
<1>3. ASSUME NEW s, StopJob(s), UNCHANGED <<sjob, roundVars, job>> PROVE KnownRuns'
  <2>1. StopTasks(ToStop(Parties), FAILED, {}) /\ fs' = fs
      BY <1>3, StopJobStops
  <2>2. CalmRows
      BY <2>1, CalmStop, ToStopType, FewNames
  <2> QED
      BY <1>3, <2>1, <2>2, CalmOutside
<1>4. ASSUME NEW p \in Cancelers, StopAtHome(p) PROVE KnownRuns'
  <2>1. CalmRows
      BY <1>4, CalmStop, ToStopType, FewNames DEF StopAtHome
  <2> QED
      BY <1>4, <2>1, CalmOutside DEF StopAtHome, fixed
<1>5. ASSUME NEW p \in Cancelers, RequestLost(p) PROVE FALSE
    BY <1>5 DEF RequestLost, Lose
<1> QED
    BY <1>1, <1>2, <1>3, <1>4, <1>5 DEF Detect, StopEverywhere, fixed

\* The steps of a round that touch no row of a task.
LEMMA RoundKnown ==
    ASSUME JobIInv, FewStatuses, ToldInv, KnownRuns,
           \/ Pick \/ CancelWaiting \/ StartJob \/ NotGranted
           \/ NothingToStart \/ NoResource \/ Conclude
    PROVE  KnownRuns'
<1>1. /\ UNCHANGED <<st, fs, ts, alive, mem>> \/ (Pick /\ UNCHANGED <<st, fs, ts, alive>>)
      /\ pc' \in {"idle", "begin", "look", "conclude", "finish"}
      /\ pc' = "look" => todo' = Tasks
    BY DEF Pick, CancelWaiting, StartJob, NotGranted, NothingToStart, NoResource, Conclude,
           schedVars, partyVars
<1>2. CalmRows
    BY <1>1, CalmStay
<1>3. KnownStatus'
    BY <1>1, <1>2, CalmKeeps
<1>4. NotSeenRunning'
    BY <1>1 DEF NotSeenRunning, Judged
<1>5. sjob' = WAITING \/ (sjob' \in EndStatus /\ pc' = "idle") => alive = {}
  <2>1. CASE Pick \/ CancelWaiting \/ NotGranted
      BY <2>1, StatusNames DEF Pick, CancelWaiting, NotGranted, schedVars, ToldInv, KnownRuns, AliveKnown
  <2>2. CASE StartJob
    <3>1. sjob = WAITING
        BY <2>2 DEF StartJob, ToldInv
    <3> QED
        BY <3>1 DEF KnownRuns, AliveKnown
  <2>3. CASE NothingToStart \/ NoResource
    <3>1. sjob' = RUNNING
        BY <2>3 DEF NothingToStart, NoResource, schedVars, ToldInv
    <3> QED
        BY <3>1, StatusNames, FewNames
  <2>4. CASE Conclude
    <3>1. /\ sjob = RUNNING /\ NewJobStatus \in Five
          /\ sjob' \in {sjob, JobMoved(sjob, NewJobStatus)}
          /\ NewJobStatus \in EndStatus => pc' = "finish"
        BY <2>4, FiveNewJobStatus DEF Conclude, ToldInv, FewStatuses, RoundTypes
    <3>2. JobMoved(RUNNING, WAITING) = RUNNING /\ JobMoved(RUNNING, RUNNING) = RUNNING
        BY DEF JobMoved, JobMayBecome, JobRules, WAITING, READY, RUNNING, CANCELED, TIMEOUT,
               FAILED, SUCCESS
    <3>3. NewJobStatus \in EndStatus \/ NewJobStatus \in {WAITING, RUNNING}
        BY <3>1, FiveFacts DEF Five
    <3>4. NewJobStatus \in EndStatus => JobMoved(RUNNING, NewJobStatus) \in EndStatus
        BY <3>1, JobEnds, FiveFacts
    <3>5. NewJobStatus \in EndStatus => sjob' # WAITING
        BY <3>1, <3>4, StatusNames, FewNames
    <3>6. NewJobStatus \notin EndStatus => sjob' = RUNNING
        BY <3>1, <3>2, <3>3
    <3> QED
        BY <3>1, <3>5, <3>6, StatusNames, FewNames
  <2> QED
      BY <2>1, <2>2, <2>3, <2>4
<1>6. AliveKnown'
    BY <1>1, <1>5 DEF KnownRuns, AliveKnown
<1> QED
    BY <1>3, <1>4, <1>6 DEF KnownRuns

LEMMA LookKnown ==
    ASSUME JobIInv, FewStatuses, ToldInv, KnownRuns, lost = 0, lost' = 0, NEW t \in Tasks, Look(t)
    PROVE  KnownRuns'
<1>0. /\ UNCHANGED <<sjob, fs, ts, alive, mem, job>> /\ sjob = RUNNING
      /\ pc = "look" /\ pc' = "judge" /\ cur' = t /\ todo' = todo \ {t}
    BY DEF Look, partyVars, fixed, ToldInv
<1>1. CalmRows
    BY CalmLook
<1>2. KnownStatus' /\ AliveKnown'
    BY <1>0, <1>1, CalmKeeps, StatusNames, FewNames DEF AliveKnown
<1>3. \A u \in Tasks : Judged(u)' /\ mem'[u] = WAITING => IsRefused(u)'
    BY <1>0, <1>1, CalmKeeps DEF KnownRuns, NotSeenRunning, Judged
<1>4. ASSUME ~Callback, NEW x \in Of(t), st'[x] = WAITING PROVE ts'[x] \in Refused
  <2>1. PICK missed \in Losses :
           /\ st' = [y \in Copies |->
                        IF job.sync = "poll" /\ y[2] = t /\ y[1] \notin missed
                        THEN TaskMoved(st[y], ts[y])
                        ELSE st[y]]
           /\ Lose(Cardinality(missed))
    <3>1. job.sync = "poll"
        BY <1>4, JobAssumption DEF JobIInv, JobTypes, Callback
    <3> QED
        BY <3>1 DEF Look
  <2>2. missed = {}
      BY <2>1, MissedCommands
  <2>3. x \in Copies /\ x[2] = t
      BY DEF Of, Copies
  <2>4. job.sync = "poll"
      BY <1>4, JobAssumption DEF JobIInv, JobTypes, Callback
  <2>5. st'[x] = TaskMoved(st[x], ts[x])
      BY <2>1, <2>2, <2>3, <2>4
  <2>6. st[x] \in Five /\ ts[x] \in Five
      BY <2>3 DEF FewStatuses, RowTypes
  <2>7. st[x] = WAITING
      BY <1>1, <1>4, <2>3 DEF CalmRows
  <2>8. ts[x] \notin {RUNNING, SUCCESS}
      BY <1>4, <2>5, <2>6, <2>7, FewMoves, FewNames
  <2> QED
      BY <1>0, <2>6, <2>8, FewNames
<1>5. NotSeenRunning'
    BY <1>0, <1>3, <1>4 DEF NotSeenRunning, Callback, Of
<1> QED
    BY <1>2, <1>5 DEF KnownRuns

LEMMA JudgeKnown ==
    ASSUME JobIInv, JobIInv', FewStatuses, ToldInv, KnownRuns, lost = 0, lost' = 0, Judge
    PROVE  KnownRuns'
<1>0. /\ UNCHANGED <<sjob, st, ts, alive, todo, cur, job>> /\ cur \in Tasks /\ sjob = RUNNING
      /\ pc = "judge" /\ pc' \in {"halt", "start", "look"}
      /\ mem' = [mem EXCEPT ![cur] = Calculated]
      /\ fs' = fs \/ \E X : fs' = Update(fs, X \X {cur}, Calculated)
    BY DEF Judge, Calculated, Looked, fixed, ToldInv, JobIInv, RoundInv
<1>1. /\ Calculated \in Five
      /\ Calculated = SUCCESS => \A x \in Of(cur) : st[x] = SUCCESS
      /\ Calculated = WAITING <=> \A x \in Of(cur) : st[x] = WAITING
    BY <1>0, FiveCalculated DEF FewStatuses
<1>2. Of(cur) \subseteq Copies /\ (\A x \in Copies : x[2] = cur => x \in Of(cur))
    BY <1>0 DEF Of, Copies
<1>3. Calculated = SUCCESS => Succeeded(cur)
    BY <1>1, <1>2, HeardAtFirst DEF JobIInv, TrueReports, Succeeded
<1>4. ASSUME NEW x \in Copies
      PROVE  \/ fs'[x] = fs[x]
             \/ x[2] = cur /\ fs'[x] = TaskMoved(fs[x], Calculated)
  <2>1. CASE fs' = fs
      BY <2>1
  <2>2. CASE fs' # fs
    <3>1. PICK X : fs' = Update(fs, X \X {cur}, Calculated)
        BY <1>0, <2>2
    <3>2. x \in X \X {cur} => x[2] = cur
        OBVIOUS
    <3>3. fs \in [Copies -> Five]
        BY DEF FewStatuses, RowTypes
    <3> QED
        BY <3>1, <3>2, <3>3, UpdateValues
  <2> QED
      BY <2>1, <2>2
<1>5. \A x \in Copies : fs[x] \in Five
    BY DEF FewStatuses, RowTypes
<1>6. KnownStatus'
  <2>1. ASSUME NEW x \in Copies, fs'[x] = SUCCESS PROVE Succeeded(x[2])'
    <3>1. fs[x] = SUCCESS \/ (x[2] = cur /\ Calculated = SUCCESS)
        BY <1>1, <1>4, <1>5, <2>1, FewMoves
    <3>2. Succeeded(x[2])
        BY <1>3, <3>1 DEF KnownRuns, KnownStatus
    <3> QED
        BY <1>0, <3>2 DEF Succeeded
  <2>2. \A x \in Copies : ts'[x] = WAITING => st'[x] = WAITING
      BY <1>0 DEF KnownRuns, KnownStatus
  <2>3. ASSUME NEW x \in Copies, fs'[x] = CANCELED PROVE \E y \in Of(x[2]) : st'[y] # WAITING
    <3>1. fs[x] = CANCELED \/ (x[2] = cur /\ Calculated = CANCELED)
        BY <1>1, <1>4, <1>5, <2>3, FewMoves
    <3>2. Calculated = CANCELED => \E y \in Of(cur) : st[y] # WAITING
        BY <1>1, FewNames
    <3> QED
        BY <1>0, <3>1, <3>2 DEF KnownRuns, KnownStatus
  <2> QED
      BY <2>1, <2>2, <2>3 DEF KnownStatus
<1>7. AliveKnown'
  <2>1. ASSUME NEW x \in alive PROVE fs'[x] \notin {WAITING, SUCCESS}
    <3>1. x \in Copies /\ fs[x] \notin {WAITING, SUCCESS} /\ ts[x] # SUCCESS
        BY <2>1 DEF KnownRuns, AliveKnown, JobIInv, JobTypes
    <3>2. CASE fs'[x] = fs[x]
        BY <3>1, <3>2
    <3>3. CASE x[2] = cur /\ fs'[x] = TaskMoved(fs[x], Calculated)
      <4>1. Calculated # SUCCESS
          BY <1>2, <1>3, <3>1, <3>3 DEF Succeeded
      <4>2. Calculated = WAITING => fs[x] # CANCELED
          BY <1>1, <3>1, <3>3 DEF KnownRuns, KnownStatus
      <4> QED
          BY <1>1, <1>5, <3>1, <3>3, <4>1, <4>2, FewMoves
    <3> QED
        BY <1>4, <3>1, <3>2, <3>3
  <2> QED
      BY <1>0, <2>1, StatusNames, FewNames DEF KnownRuns, AliveKnown
<1>8. NotSeenRunning'
  <2> SUFFICES ASSUME NEW u \in Tasks, u \notin todo, mem'[u] = WAITING PROVE IsRefused(u)
      BY <1>0 DEF NotSeenRunning, Judged, IsRefused
  <2>1. CASE u # cur
      BY <1>0, <2>1 DEF KnownRuns, NotSeenRunning, Judged
  <2>2. CASE u = cur /\ Callback
    <3>1. WaitingIsNotBegun'
        BY <1>0, <2>2, HeardAtFirst DEF JobIInv, OnceInv, Callback, Heard
    <3>2. NotBegun(u)'
        BY <1>0, <3>1 DEF WaitingIsNotBegun
    <3> QED
        BY <1>0, <3>2, FewNames DEF NotBegun, IsRefused
  <2>3. CASE u = cur /\ ~Callback
    <3>1. Calculated = WAITING
        BY <1>0, <2>3 DEF FewStatuses, RoundTypes
    <3> QED
        BY <1>0, <1>1, <2>3, <3>1 DEF KnownRuns, NotSeenRunning, IsRefused
  <2> QED
      BY <2>1, <2>2, <2>3
<1> QED
    BY <1>6, <1>7, <1>8 DEF KnownRuns

LEMMA HaltKnown ==
    ASSUME JobIInv, FewStatuses, ToldInv, KnownRuns, lost = 0, Halt
    PROVE  KnownRuns'
<1>0. /\ UNCHANGED <<sjob, fs, todo, cur, mem, job>> /\ cur \in Tasks /\ sjob = RUNNING
      /\ pc = "halt" /\ pc' \in {"start", "look"} /\ mem[cur] \in {CANCELED, FAILED, SUCCESS}
    BY FiveFacts DEF Halt, Looked, fixed, ToldInv, JobIInv, RoundInv, FewStatuses, RoundTypes
<1>1. PICK missed : \E unreported : StopTasks((Parties \ missed) \X {cur}, mem[cur], unreported)
    BY DEF Halt
<1> DEFINE X == (Parties \ missed) \X {cur}
<1>2. X \in SUBSET Copies /\ X \subseteq Of(cur)
    BY <1>0 DEF Of, Copies
<1> HIDE DEF X
<1>3. mem[cur] = SUCCESS => \A x \in X : ts[x] = SUCCESS
    BY <1>0, <1>2, HeardAtFirst DEF JobIInv, TrueMemory, Succeeded
<1>4. CalmRows
    BY <1>0, <1>1, <1>2, <1>3, CalmStop DEF X
<1>5. KnownStatus' /\ AliveKnown'
    BY <1>0, <1>4, CalmKeeps, StatusNames, FewNames DEF AliveKnown
<1>6. NotSeenRunning'
    BY <1>0, <1>4, CalmKeeps DEF KnownRuns, NotSeenRunning, Judged
<1> QED
    BY <1>5, <1>6 DEF KnownRuns

LEMMA GrantKnown ==
    ASSUME JobIInv, FewStatuses, ToldInv, KnownRuns, lost = 0, lost' = 0, NEW t \in Tasks, Grant(t)
    PROVE  KnownRuns'
<1>0. /\ UNCHANGED <<sjob, st, ts, alive, todo, job>> /\ sjob = RUNNING
      /\ pc = "start" /\ pc' = "launch" /\ cur' = t /\ todo = {} /\ mem[t] = WAITING
    BY DEF Grant, Startable, fixed, ToldInv, JobIInv, RoundInv
<1>1. PICK missed \in Losses : /\ fs' = Update(fs, (Parties \ missed) \X {t}, RUNNING)
                               /\ Lose(Cardinality(missed))
    BY DEF Grant
<1>2. missed = {}
    BY <1>1, MissedCommands
<1>3. /\ \A x \in Of(t) : x \in Copies /\ fs'[x] = TaskMoved(fs[x], RUNNING)
      /\ \A x \in Copies : fs'[x] \in {fs[x], TaskMoved(fs[x], RUNNING)}
  <2>1. fs' = Update(fs, Of(t), RUNNING) /\ fs \in [Copies -> Five]
      BY <1>1, <1>2 DEF Of, FewStatuses, RowTypes
  <2>2. Of(t) \subseteq Copies
      BY DEF Of, Copies
  <2> QED
      BY <2>1, <2>2, UpdateValues
<1>4. \A x \in Copies : fs[x] \in Five /\ fs'[x] \in {fs[x], RUNNING}
    BY <1>3, FewMoves, FiveFacts DEF FewStatuses, RowTypes
<1>5. IsRefused(t)
    BY <1>0 DEF KnownRuns, NotSeenRunning, Judged
<1>6. ASSUME NEW x \in Of(t) PROVE fs'[x] \notin {WAITING, SUCCESS}
  <2>1. ts[x] # SUCCESS /\ x[2] = t /\ x \in Copies
      BY <1>3, <1>5, FewNames DEF IsRefused, Of
  <2>2. fs[x] # SUCCESS
      BY <2>1 DEF KnownRuns, KnownStatus, Succeeded
  <2>3. fs[x] = WAITING => fs'[x] = RUNNING
      BY <1>3, FewMoves, FiveFacts
  <2> QED
      BY <1>4, <2>1, <2>2, <2>3, FewNames
<1>7. KnownStatus'
    BY <1>0, <1>4, FewNames DEF KnownRuns, KnownStatus, Succeeded
<1>8. AliveKnown'
  <2>1. \A x \in alive : fs'[x] \notin {WAITING, SUCCESS}
      BY <1>4, FewNames DEF KnownRuns, AliveKnown, JobIInv, JobTypes
  <2> QED
      BY <1>0, <2>1, StatusNames, FewNames DEF KnownRuns, AliveKnown
<1>9. NotSeenRunning'
  <2>1. \A u \in Tasks : mem'[u] = WAITING => mem[u] = WAITING
      BY FewNames DEF Grant, FewStatuses, RoundTypes
  <2>2. \A u \in Tasks : mem'[u] = WAITING => IsRefused(u)
      BY <1>0, <2>1 DEF KnownRuns, NotSeenRunning, Judged
  <2> QED
      BY <1>0, <1>5, <1>6, <2>2 DEF NotSeenRunning, IsRefused, Of
<1> QED
    BY <1>7, <1>8, <1>9 DEF KnownRuns

\* The start of a task reaches every party, and none where it has succeeded.
LEMMA LaunchKnown ==
    ASSUME JobIInv, FewStatuses, ToldInv, KnownRuns, lost = 0, lost' = 0, Launch
    PROVE  KnownRuns'
<1>0. /\ UNCHANGED <<sjob, fs, todo, cur, mem, job>> /\ sjob = RUNNING /\ cur \in Tasks
      /\ pc = "launch" /\ pc' \in {"start", "failed"} /\ mem[cur] # WAITING
      /\ ts \in [Copies -> Five] /\ st \in [Copies -> Five]
    BY DEF Launch, fixed, ToldInv, JobIInv, RoundInv, FewStatuses, RowTypes
<1>1. PICK missed \in Losses, unanswered \in Losses, broken \in SUBSET Parties :
         \E unreported \in LostReports((Parties \ missed) \X {cur}) :
              /\ alive' = alive \cup (((Parties \ missed) \X {cur}) \ (broken \X {cur}))
              /\ ts' = Update(Update(ts, (Parties \ missed) \X {cur}, RUNNING), broken \X {cur}, FAILED)
              /\ st' = Report(Report(st, ((Parties \ missed) \X {cur}) \ unreported, RUNNING),
                              (broken \X {cur}) \ unreported, FAILED)
              /\ Lose(Cardinality(missed) + Cardinality(unanswered) + Cardinality(unreported))
    BY Zenon DEF Launch
<1>2. PICK unreported \in LostReports((Parties \ missed) \X {cur}) :
         /\ alive' = alive \cup (((Parties \ missed) \X {cur}) \ (broken \X {cur}))
         /\ ts' = Update(Update(ts, (Parties \ missed) \X {cur}, RUNNING), broken \X {cur}, FAILED)
         /\ st' = Report(Report(st, ((Parties \ missed) \X {cur}) \ unreported, RUNNING),
                         (broken \X {cur}) \ unreported, FAILED)
         /\ Lose(Cardinality(missed) + Cardinality(unanswered) + Cardinality(unreported))
    BY <1>1, Zenon
<1>3. missed = {}
  <2>1. (Parties \ missed) \X {cur} \in SUBSET Copies
      BY <1>0 DEF Copies
  <2>2. Cardinality(missed) \in Nat /\ Cardinality(unanswered) \in Nat /\ Cardinality(unreported) \in Nat
      BY <2>1, LossTypes, LossNumber, NothingUnreported
  <2>3. Lose(Cardinality(missed) + (Cardinality(unanswered) + Cardinality(unreported)))
      BY <1>2, <2>2
  <2>4. Cardinality(unanswered) + Cardinality(unreported) \in Nat
      BY <2>2
  <2> QED
      BY <2>3, <2>4, NothingMissed
<1> DEFINE X == Of(cur)
           bad == broken \X {cur}
<1>4. /\ alive' = alive \cup (X \ bad)
      /\ ts' = Update(Update(ts, X, RUNNING), bad, FAILED)
      /\ st' = Report(Report(st, X \ unreported, RUNNING), bad \ unreported, FAILED)
    BY <1>2, <1>3 DEF Of
<1>5. /\ X \subseteq Copies /\ bad \subseteq X
      /\ \A x \in X : x[2] = cur
      /\ \A x \in Copies : x[2] = cur => x \in X
    BY <1>0, <1>1 DEF Of, Copies
<1> HIDE DEF X, bad
<1>6. \A x \in X : ts[x] \in Refused /\ fs[x] \notin {WAITING, SUCCESS}
    BY <1>0 DEF KnownRuns, NotSeenRunning, IsRefused, X
<1>7. /\ \A x \in X : ts'[x] \in {RUNNING, CANCELED, FAILED}
      /\ \A x \in Copies \ X : ts'[x] = ts[x]
  <2> DEFINE f == Update(ts, X, RUNNING)
  <2>1. /\ f \in [Copies -> Five]
        /\ \A x \in Copies : f[x] = IF x \in X THEN TaskMoved(ts[x], RUNNING) ELSE ts[x]
      BY <1>0, FiveUpdated, UpdateValues, FiveFacts
  <2>2. \A x \in X : f[x] \in {RUNNING, CANCELED, FAILED}
    <3>1. \A s \in Refused : TaskMoved(s, RUNNING) \in {RUNNING, CANCELED, FAILED}
        BY FewMoves, FewNames, FiveFacts DEF Refused
    <3> QED
        BY <1>5, <1>6, <2>1, <3>1
  <2>3. ts' = Update(f, bad, FAILED)
      BY <1>4
  <2> HIDE DEF f
  <2>4. \A x \in Copies : ts'[x] = IF x \in bad THEN TaskMoved(f[x], FAILED) ELSE f[x]
      BY <2>1, <2>3, UpdateValues
  <2>5. \A s \in {RUNNING, CANCELED, FAILED} : TaskMoved(s, FAILED) \in {RUNNING, CANCELED, FAILED}
      BY FewMoves, FiveFacts
  <2> QED
      BY <1>5, <2>1, <2>2, <2>4, <2>5
<1>8. /\ \A x \in Copies : st[x] # WAITING => st'[x] # WAITING
      /\ \A x \in Copies \ X : st'[x] = st[x]
  <2> DEFINE Y == X \ unreported
             Z == bad \ unreported
             f == Report(st, Y, RUNNING)
  <2>1. /\ f \in [Copies -> Five]
        /\ \A x \in Copies : f[x] \in {st[x], TaskMoved(st[x], RUNNING)}
        /\ \A x \in Copies : x \notin Y => f[x] = st[x]
      BY <1>0, FiveUpdated, UpdateValues, FiveFacts
  <2>2. st' = Report(f, Z, FAILED) /\ (\A x : x \notin X => x \notin Y /\ x \notin Z)
      BY <1>4, <1>5
  <2> HIDE DEF f, Y, Z
  <2>3. /\ \A x \in Copies : st'[x] \in {f[x], TaskMoved(f[x], FAILED)}
        /\ \A x \in Copies : x \notin Z => st'[x] = f[x]
      BY <2>1, <2>2, UpdateValues
  <2>4. \A x \in Copies : st[x] \in Five /\ f[x] \in Five
      BY <1>0, <2>1
  <2>5. \A x \in Copies : st[x] # WAITING => f[x] # WAITING
      BY <2>1, <2>4, FewMoves, FewNames, FiveFacts
  <2>6. \A x \in Copies : st[x] # WAITING => st'[x] # WAITING
      BY <2>3, <2>4, <2>5, FewMoves, FewNames, FiveFacts
  <2> QED
      BY <2>1, <2>2, <2>3, <2>6
<1>9. KnownStatus'
  <2>1. ASSUME NEW x \in Copies, fs'[x] = SUCCESS PROVE Succeeded(x[2])'
    <3>1. fs[x] = SUCCESS
        BY <1>0, <2>1
    <3>2. Succeeded(x[2]) /\ x \notin X
        BY <1>6, <3>1 DEF KnownRuns, KnownStatus
    <3>3. \A y \in Of(x[2]) : y \in Copies \ X
        BY <1>5, <2>1, <3>2 DEF Of, Copies
    <3> QED
        BY <1>7, <3>2, <3>3 DEF Succeeded
  <2>2. \A x \in Copies : ts'[x] = WAITING => st'[x] = WAITING
      BY <1>7, <1>8, FewNames DEF KnownRuns, KnownStatus
  <2>3. \A x \in Copies : fs'[x] = CANCELED => \E y \in Of(x[2]) : st'[y] # WAITING
    <3>1. \A x \in Copies : Of(x[2]) \subseteq Copies
        BY DEF Of, Copies
    <3> QED
        BY <1>0, <1>8, <3>1 DEF KnownRuns, KnownStatus
  <2> QED
      BY <2>1, <2>2, <2>3 DEF KnownStatus
<1>10. AliveKnown'
  <2>1. \A x \in alive' : fs'[x] \notin {WAITING, SUCCESS} /\ ts'[x] \notin {WAITING, SUCCESS}
    <3>1. alive \subseteq Copies
        BY DEF JobIInv, JobTypes
    <3> QED
        BY <1>0, <1>4, <1>6, <1>7, <3>1, FewNames DEF KnownRuns, AliveKnown
  <2> QED
      BY <1>0, <2>1, StatusNames, FewNames DEF AliveKnown
<1>11. NotSeenRunning'
  <2> SUFFICES ASSUME NEW u \in Tasks, Judged(u)', mem'[u] = WAITING PROVE IsRefused(u)'
      BY <1>0 DEF NotSeenRunning
  <2>1. u # cur /\ IsRefused(u)
      BY <1>0 DEF KnownRuns, NotSeenRunning, Judged
  <2>2. \A x \in Of(u) : x \in Copies \ X
      BY <1>5, <2>1 DEF Of, Copies
  <2> QED
      BY <1>7, <2>1, <2>2 DEF IsRefused
<1> QED
    BY <1>9, <1>10, <1>11 DEF KnownRuns

LEMMA StartFailedKnown ==
    ASSUME JobIInv, FewStatuses, ToldInv, KnownRuns, StartFailed
    PROVE  KnownRuns'
<1>0. /\ UNCHANGED <<sjob, st, ts, alive>> /\ sjob = RUNNING /\ pc' = "conclude"
      /\ \E X : fs' = Update(fs, X, FAILED)
      /\ fs \in [Copies -> Five]
    BY DEF StartFailed, schedVars, ToldInv, FewStatuses, RowTypes
<1>1. \A x \in Copies : fs'[x] \in {fs[x], FAILED}
    BY <1>0, UpdateValues, FewMoves, FiveFacts
<1>2. KnownStatus'
    BY <1>0, <1>1, FewNames DEF KnownRuns, KnownStatus, Succeeded
<1>3. AliveKnown'
  <2>1. \A x \in alive : fs'[x] \notin {WAITING, SUCCESS}
      BY <1>1, FewNames DEF KnownRuns, AliveKnown, JobIInv, JobTypes
  <2> QED
      BY <1>0, <2>1, StatusNames, FewNames DEF KnownRuns, AliveKnown
<1>4. NotSeenRunning'
    BY <1>0 DEF NotSeenRunning
<1> QED
    BY <1>2, <1>3, <1>4 DEF KnownRuns

\* The stop at the end leaves no process.
LEMMA FinishKnown ==
    ASSUME JobIInv, FewStatuses, ToldInv, KnownRuns, lost = 0, lost' = 0, Finish
    PROVE  KnownRuns'
<1>1. StopTasks(ToStop(Parties), FAILED, {}) /\ fs' = fs /\ pc' = "idle"
    BY StopJobStops DEF Finish
<1>2. CalmRows
    BY <1>1, CalmStop, ToStopType, FewNames
<1>3. alive' = {}
  <2>1. \A x \in alive : x \in Copies /\ x[1] \in Parties /\ fs[x] \in Five
      BY DEF JobIInv, JobTypes, FewStatuses, RowTypes, Copies
  <2>2. \A x \in alive : x \in ToStop(Parties)
      BY <2>1 DEF KnownRuns, AliveKnown, ToStop, Five, WAITING, RUNNING, CANCELED, FAILED, SUCCESS,
                  PASS
  <2> QED
      BY <1>1, <2>2 DEF StopTasks
<1>4. KnownStatus' /\ AliveKnown' /\ NotSeenRunning'
    BY <1>1, <1>2, <1>3, CalmKeeps DEF AliveKnown, NotSeenRunning
<1> QED
    BY <1>4 DEF KnownRuns

-----------------------------------------------------------------------------
(* The theorem of the end *)

\* The inductive invariant of the end.
EndInv ==
    /\ FewStatuses /\ ToldInv
    /\ Faultless => KnownRuns

LEMMA LossesGrow == ASSUME JobIInv, FewStatuses, Next PROVE lost' >= lost
<1>0. lost \in Nat
    BY FaultNumbers
<1>1. ASSUME NEW missed \in Losses, Lose(Cardinality(missed)) PROVE lost' >= lost
    BY <1>1, MissedCommands
<1>2. ASSUME NEW X \in SUBSET Copies, NEW unreported \in LostReports(X), Lose(Cardinality(unreported))
      PROVE  lost' >= lost
    BY <1>0, <1>2, NothingUnreported DEF Lose
<1>3. CASE Round
  <2>1. CASE Pick \/ NothingToStart
      BY <1>0, <2>1 DEF Pick, NothingToStart
  <2>2. CASE CancelWaiting \/ StartJob \/ StartFailed \/ \E t \in Tasks : Grant(t)
      BY <1>1, <2>2 DEF CancelWaiting, StartJob, StartFailed, Grant
  <2>3. {} \in Losses
    <3>1. Cardinality({}) = 0
        BY FS_EmptySet
    <3>2. job.lost \in Nat /\ lost + 0 <= job.lost
        BY <1>0, FaultNumbers DEF FewStatuses, FaultTypes
    <3> QED
        BY <3>1, <3>2 DEF Losses
  <2>4. CASE Judge \/ \E t \in Tasks : Look(t)
    <3>1. \E missed \in Losses : Lose(Cardinality(missed))
      <4>1. CASE Judge
          BY <2>3, <4>1, Zenon DEF Judge
      <4>2. ASSUME NEW t \in Tasks, Look(t) PROVE \E missed \in Losses : Lose(Cardinality(missed))
        <5>1. PICK missed \in IF job.sync = "poll" THEN Losses ELSE {{}} : Lose(Cardinality(missed))
            BY <4>2, Zenon DEF Look
        <5> QED
            BY <2>3, <5>1
      <4> QED
          BY <2>4, <4>1, <4>2
    <3> QED
        BY <1>1, <3>1
  <2>5. CASE Conclude
    <3>1. lost' = lost \/ \E missed \in Losses : Lose(Cardinality(missed))
        BY <2>5, Zenon DEF Conclude
    <3> QED
        BY <1>0, <1>1, <3>1
  <2>6. CASE Halt \/ Launch
    <3>1. \A missed \in Losses : Cardinality(missed) \in Nat
        BY LossTypes, LossNumber
    <3>2. cur \in Tasks
        BY <2>6 DEF Halt, Launch, JobIInv, RoundInv
    <3>3. \A missed \in Losses : \A unreported \in LostReports((Parties \ missed) \X {cur}) :
             Cardinality(unreported) \in Nat
      <4>1. \A missed \in Losses : (Parties \ missed) \X {cur} \in SUBSET Copies
          BY <3>2 DEF Copies
      <4> QED
          BY <4>1, NothingUnreported
    <3>4. \E n \in Nat : Lose(n)
      <4>1. CASE Halt
        <5>1. PICK missed \in Losses :
                 \E unreported \in LostReports((Parties \ missed) \X {cur}) :
                    Lose(Cardinality(missed) + Cardinality(unreported))
            BY <4>1 DEF Halt
        <5> QED
            BY <3>1, <3>3, <5>1
      <4>2. CASE Launch
        <5>1. PICK missed \in Losses, unanswered \in Losses :
                 \E unreported \in LostReports((Parties \ missed) \X {cur}) :
                    Lose(Cardinality(missed) + Cardinality(unanswered) + Cardinality(unreported))
            BY <4>2 DEF Launch
        <5> QED
            BY <3>1, <3>3, <5>1
      <4> QED
          BY <2>6, <4>1, <4>2
    <3> QED
        BY <1>0, <3>4, LosesMore
  <2>7. CASE Finish
      BY <2>7, StopJobTells DEF Finish
  <2> QED
      BY <1>3, <2>1, <2>2, <2>4, <2>5, <2>6, <2>7 DEF Round
<1>4. CASE NotGranted \/ NoResource \/ Crash
    BY <1>0, <1>4 DEF NotGranted, NoResource, Crash
<1>5. CASE \E x \in Copies : End(x, SUCCESS) \/ End(x, FAILED) \/ Vanish(x)
  <2>1. ASSUME NEW x \in Copies, NEW s, End(x, s) PROVE lost' >= lost
      BY <1>2, <2>1 DEF End
  <2>2. ASSUME NEW x \in Copies, Vanish(x) PROVE lost' >= lost
      BY <1>0, <2>2 DEF Vanish
  <2> QED
      BY <1>5, <2>1, <2>2
<1>6. CASE Detect
    BY <1>6, StopJobTells DEF Detect
<1>7. CASE \E p \in Cancelers : StopAtHome(p) \/ StopEverywhere(p) \/ RequestLost(p)
  <2>1. ASSUME NEW p \in Cancelers, StopAtHome(p) PROVE lost' >= lost
      BY <1>2, <2>1, ToStopType DEF StopAtHome
  <2>2. ASSUME NEW p \in Cancelers, StopEverywhere(p) PROVE lost' >= lost
      BY <2>2, StopJobTells DEF StopEverywhere
  <2>3. ASSUME NEW p \in Cancelers, RequestLost(p) PROVE lost' >= lost
      BY <1>0, <2>3 DEF RequestLost, Lose
  <2> QED
      BY <1>7, <2>1, <2>2, <2>3
<1> QED
    BY <1>3, <1>4, <1>5, <1>6, <1>7 DEF Next

LEMMA InitEnds == ASSUME Init PROVE EndInv
<1>1. FewStatuses
  <2>1. job.lost \in Nat /\ job.crashes \in Nat
      BY JobAssumption DEF Init
  <2>2. 0 <= job.lost /\ 0 \in 0..job.crashes
      BY <2>1
  <2>3. RowTypes /\ RoundTypes
      BY FiveFacts DEF Init, RowTypes, RoundTypes
  <2>4. FaultTypes
      BY <2>2 DEF Init, FaultTypes
  <2> QED
      BY <2>3, <2>4 DEF FewStatuses
<1>2. ToldInv
    BY StatusNames DEF Init, ToldInv
<1>3. KnownRuns
    BY FewNames DEF Init, KnownRuns, AliveKnown, NotSeenRunning, KnownStatus
<1> QED
    BY <1>1, <1>2, <1>3 DEF EndInv

LEMMA StutterEnds == ASSUME EndInv, UNCHANGED vars PROVE EndInv'
<1>1. /\ UNCHANGED <<sjob, cancel, agg, st, pjob, fs, ts, alive, pc, todo, cur, canceled, mem, code>>
      /\ UNCHANGED <<asked, lost, crashes, job>>
    BY DEF vars, schedVars, partyVars, roundVars
<1>2. FewStatuses'
    BY <1>1 DEF EndInv, FewStatuses, RowTypes, RoundTypes, FaultTypes
<1>3. ToldInv'
    BY <1>1 DEF EndInv, ToldInv, AllEnded, Faultless
<1>4. Faultless' => KnownRuns'
    BY <1>1 DEF EndInv, Faultless, KnownRuns, AliveKnown, NotSeenRunning, KnownStatus, Judged, IsRefused,
                Succeeded, Of, Callback
<1> QED
    BY <1>2, <1>3, <1>4 DEF EndInv

LEMMA NextEnds == ASSUME JobIInv, JobIInv', EndInv, Next PROVE EndInv'
<1>0. FewStatuses /\ ToldInv
    BY DEF EndInv
<1>1. FewStatuses'
  <2>1. CASE Round
      BY <1>0, <2>1, BeginTypes, LookTypes, JudgeTypes, HaltTypes, StartTypes, GrantTypes, LaunchTypes,
         ConcludeTypes, FinishTypes DEF Round
  <2>2. CASE NotGranted \/ NoResource \/ Crash
      BY <1>0, <2>2, BeginTypes, StartTypes
  <2> QED
      BY <1>0, <2>1, <2>2, OutsideTypes DEF Next
<1>2. ToldInv'
  <2>1. CASE Round
      BY <1>0, <2>1, PickTells, CancelWaitingTells, StartJobTells, TasksTell, ConcludeTells, FinishTells
         DEF Round
  <2>2. CASE NotGranted \/ NoResource \/ Crash
      BY <1>0, <2>2, StartJobTells, TasksTell, CrashTells
  <2> QED
      BY <1>0, <2>1, <2>2, OutsideTells DEF Next
<1>3. ASSUME Faultless' PROVE KnownRuns'
  <2>1. /\ lost = 0 /\ lost' = 0 /\ ~Crash
        /\ KnownRuns
    <3>1. /\ lost \in Nat /\ crashes \in Nat /\ lost' \in Nat /\ crashes' \in Nat
        BY <1>0, <1>1, FaultNumbers DEF JobIInv, JobTypes, FewStatuses, FaultTypes
    <3>2. lost' = 0 /\ crashes' = 0
      <4>1. \A a, b \in Nat : a + b = 0 => a = 0 /\ b = 0
          OBVIOUS
      <4> QED
          BY <1>3, <3>1, <4>1 DEF Faultless
    <3>3. ~Crash
        BY <3>1, <3>2 DEF Crash
    <3>4. crashes = 0
        BY <3>2, <3>3 DEF Next, Round, Pick, CancelWaiting, StartJob, NotGranted, Look, Judge, Halt,
               NothingToStart, NoResource, Grant, Launch, StartFailed, Conclude, Finish, End, Vanish,
               Detect, StopAtHome, StopEverywhere, RequestLost, fixed
    <3>5. lost = 0
        BY <1>0, <3>1, <3>2, LossesGrow
    <3> QED
        BY <3>2, <3>3, <3>4, <3>5 DEF EndInv, Faultless
  <2>2. CASE Round
      BY <1>0, <2>1, <2>2, RoundKnown, LookKnown, JudgeKnown, HaltKnown, GrantKnown, LaunchKnown,
         StartFailedKnown, FinishKnown DEF Round
  <2>3. CASE NotGranted \/ NoResource
      BY <1>0, <2>1, <2>3, RoundKnown
  <2> QED
      BY <1>0, <2>1, <2>2, <2>3, OutsideKnown DEF Next
<1> QED
    BY <1>1, <1>2, <1>3 DEF EndInv

\* The rows of the scheduler and of the parties have the statuses they may have, no SUCCESS
\* is made up, and a job that a round has ended has ended at every party, with no process
\* left where nothing got lost (schedule_running_job and stop_job in scheduler/scheduler.py,
\* stop_job and stop_task in controller/).
THEOREM EndHolds == Spec => []JobInv
<1>1. Init => JobIInv /\ EndInv
    BY InitHolds, InitEnds
<1>2. (JobIInv /\ EndInv) /\ [Next]_vars => (JobIInv /\ EndInv)'
    BY NextHolds, NextEnds, StutterEnds
<1>3. JobIInv /\ EndInv => JobInv
  <2> SUFFICES ASSUME JobIInv, EndInv PROVE JobInv
      OBVIOUS
  <2>1. TypeOK /\ SuccessIsReal
      BY FewTypes DEF EndInv, JobIInv
  <2>2. EndReachesParties
    <3>1. /\ lost + crashes = 0 => lost + crashes <= 1
          /\ lost + crashes = 0 => Faultless
        BY DEF Faultless
    <3> QED
        BY <3>1 DEF EndReachesParties, EndInv, ToldInv, AllEnded, KnownRuns, AliveKnown
  <2> QED
      BY <2>1, <2>2 DEF JobInv
<1> QED
    BY <1>1, <1>2, <1>3, PTL DEF Spec
=============================================================================
