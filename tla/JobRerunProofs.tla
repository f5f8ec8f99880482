---------------------------- MODULE JobRerunProofs ----------------------------
(***************************************************************************)
(* For any number of parties, tasks, versions, retries, cancels and users  *)
(* who ask to run a job again, at any time: as long as nothing gets lost   *)
(* no party runs two versions of a task.                                   *)
(***************************************************************************)
EXTENDS JobRerun, FiniteSetTheorems, WellFoundedInduction, TLAPS

Types ==
    /\ sv \in [Rows -> TaskStatus \cup {None}] /\ ts \in [Copies -> TaskStatus \cup {None}]
    /\ lost \in Nat
    /\ DOMAIN pc = Threads /\ DOMAIN list = Threads /\ DOMAIN at = Threads
    /\ round.then # "create"

\* The parties have the versions the scheduler has, and each of them has begun a version
\* or none has.
Agreed ==
    /\ \A p \in Parties, r \in Rows : ts[<<p, r>>] = None <=> sv[r] = None
    /\ \A t \in Tasks : sv[<<t, 0>>] # None
Together == \A p, q \in Parties, r \in Rows : ts[<<p, r>>] = WAITING => ts[<<q, r>>] = WAITING

\* A version is made only when the one before it has ended everywhere: by whoever makes
\* it, of a row that it has seen interrupted, however long ago.
Ended(r) == \A p \in Parties : ts[<<p, r>>] \in EndStatus
Begun(r) == \A p \in Parties : ts[<<p, r>>] \notin {None, WAITING}

OlderEnded ==
    \A t \in Tasks, v, w \in Versions : w < v /\ sv[<<t, v>>] # None => Ended(<<t, w>>)
Interrupted == \A r \in Rows : sv[r] \in InterruptStatus => Begun(r)
Listed ==
    \A th \in Threads : \A row \in list[th] :
        <<row.t, row.v>> \in Rows /\ row.s \in InterruptStatus /\ Begun(<<row.t, row.v>>)
Creating ==
    \A th \in Threads : pc[th] = "create" =>
        <<at[th].t, at[th].v>> \in Rows /\ Ended(<<at[th].t, at[th].v>>)

Orderly == Agreed /\ Together /\ OlderEnded /\ Interrupted /\ Listed /\ Creating
VersionsInv == Types /\ (lost = 0 => Orderly)

-----------------------------------------------------------------------------
(* Numbers, sets and statuses *)

LEMMA HasLargest ==
    ASSUME NEW m \in Nat, NEW S \in SUBSET (0..m), S # {}
    PROVE  \E x \in S : \A y \in S : y <= x
<1> DEFINE R == OpToRel(<, Nat)
           T == {m - x : x \in S}
<1>1. IsWellFoundedOn(R, Nat)
    BY NatLessThanWellFounded
<1>2. T \subseteq Nat
    OBVIOUS
<1>3. T # {}
    <2>1. PICK s \in S : TRUE
        OBVIOUS
    <2>2. m - s \in T
        BY <2>1
    <2> QED
        BY <2>2
<1> HIDE DEF R, T
<1>4. PICK x \in T : \A y \in T : ~ (<<y, x>> \in R)
    BY <1>1, <1>2, <1>3, WFMin
<1>5. \A y \in T : ~(y < x)
    BY <1>2, <1>4 DEF OpToRel, R
<1>6. PICK s \in S : x = m - s
    BY DEF T
<1>7. ASSUME NEW y \in S PROVE y <= s
    <2>1. m - y \in T
        BY DEF T
    <2> QED
        BY <1>5, <1>6, <2>1
<1> QED
    BY <1>6, <1>7

\* What Latest finds, of whatever the rows hold.
Top(f, t, S) == CHOOSE v \in Versions :
    f[<<t, v>>] \in S /\ \A w \in v+1..MaxVersion : f[<<t, w>>] \notin S

LEMMA TopFound ==
    ASSUME NEW f, NEW t, NEW S, NEW u \in Versions, f[<<t, u>>] \in S
    PROVE  /\ Top(f, t, S) \in Versions /\ f[<<t, Top(f, t, S)>>] \in S
           /\ \A w \in Versions : f[<<t, w>>] \in S => w <= Top(f, t, S)
<1> DEFINE V == {v \in Versions : f[<<t, v>>] \in S}
<1>0. MaxVersion \in Nat
    BY RerunAssumption
<1>1. V \in SUBSET (0..MaxVersion) /\ V # {}
    BY DEF Versions
<1>2. PICK x \in V : \A y \in V : y <= x
    BY <1>0, <1>1, HasLargest
<1>3. \A w \in x+1..MaxVersion : f[<<t, w>>] \notin S
    BY <1>0, <1>2 DEF Versions
<1>4. \E v \in Versions : f[<<t, v>>] \in S /\ \A w \in v+1..MaxVersion : f[<<t, w>>] \notin S
    BY <1>2, <1>3
<1>5. /\ Top(f, t, S) \in Versions /\ f[<<t, Top(f, t, S)>>] \in S
      /\ \A w \in Top(f, t, S)+1..MaxVersion : f[<<t, w>>] \notin S
    BY <1>4 DEF Top
<1>6. ASSUME NEW w \in Versions, f[<<t, w>>] \in S PROVE w <= Top(f, t, S)
    BY <1>0, <1>5, <1>6 DEF Versions
<1> QED
    BY <1>5, <1>6

LEMMA LatestFound ==
    ASSUME NEW t \in Tasks, NEW S, NEW u \in Versions, sv[<<t, u>>] \in S
    PROVE  /\ Latest(t, S) \in Versions /\ sv[<<t, Latest(t, S)>>] \in S
           /\ \A w \in Versions : sv[<<t, w>>] \in S => w <= Latest(t, S)
<1>1. Latest(t, S) = Top(sv, t, S)
    BY DEF Latest, Top
<1> QED
    BY <1>1, TopFound

LEMMA CurrentFound ==
    ASSUME Types, Agreed, NEW t \in Tasks
    PROVE  /\ Current(t) \in Versions /\ <<t, Current(t)>> \in Rows
           /\ sv[<<t, Current(t)>>] # None
           /\ \A w \in Versions : sv[<<t, w>>] # None => w <= Current(t)
<1>1. 0 \in Versions
    BY RerunAssumption DEF Versions
<1>2. \A w \in Versions : sv[<<t, w>>] # None <=> sv[<<t, w>>] \in TaskStatus
    BY DEF Types, Rows, None, TaskStatus, WAITING, RUNNING, CANCELED, TIMEOUT, FAILED, PASS,
           SUCCESS
<1>3. sv[<<t, 0>>] \in TaskStatus
    BY <1>1, <1>2 DEF Agreed
<1> QED
    BY <1>1, <1>2, <1>3, LatestFound DEF Current, Rows

LEMMA Statuses ==
    /\ {WAITING, RUNNING} \subseteq TaskStatus
    /\ InterruptStatus \subseteq EndStatus /\ EndStatus \subseteq TaskStatus
    /\ AutoRerunStatus \subseteq InterruptStatus
    /\ None \notin TaskStatus /\ WAITING \notin EndStatus /\ RUNNING \notin EndStatus
    /\ WAITING # RUNNING
    /\ FAILED \in InterruptStatus /\ SUCCESS \in EndStatus
  BY DEF TaskStatus, InterruptStatus, EndStatus, AutoRerunStatus, None, WAITING, RUNNING,
         CANCELED, TIMEOUT, FAILED, PASS, SUCCESS

LEMMA Moves ==
    ASSUME NEW s \in TaskStatus \cup {None}, NEW new
    PROVE  /\ TaskMoved(s, new) \in TaskStatus \cup {None}
           /\ TaskMoved(s, new) \in {s, new}
           /\ TaskMoved(s, new) = None <=> s = None
           /\ new # WAITING /\ s \in EndStatus => TaskMoved(s, new) \in EndStatus
           /\ new \in InterruptStatus /\ s = WAITING => TaskMoved(s, new) = WAITING
           /\ new \in InterruptStatus /\ s = RUNNING => TaskMoved(s, new) = new
           /\ TaskMoved(WAITING, RUNNING) = RUNNING
  BY DEF TaskMoved, TaskMayBecome, TaskRules, TaskStatus, InterruptStatus, EndStatus, None,
         WAITING, RUNNING, CANCELED, TIMEOUT, FAILED, PASS, SUCCESS

LEMMA AllWaiting == FederatedTaskStatus({WAITING}) = WAITING
<1>1. Merged({WAITING}) = {WAITING}
    BY DEF Merged, PASS, WAITING
<1> QED
    BY <1>1 DEF FederatedTaskStatus

LEMMA SubsetFinite ==
    ASSUME NEW P \in SUBSET Parties
    PROVE  Cardinality(P) \in Nat /\ (Cardinality(P) = 0 => P = {})
  BY RerunAssumption, FS_Subset, FS_CardinalityType, FS_EmptySet

LEMMA LoseCounts ==
    ASSUME NEW P \in SUBSET Parties, Lose(P), lost \in Nat
    PROVE  lost' \in Nat /\ (lost' = 0 => lost = 0 /\ P = {})
  BY SubsetFinite DEF Lose

-----------------------------------------------------------------------------
(* Steps that make no version                                              *)

\* What any of them does to the statuses at the parties ...
Drift ==
    \A x \in Copies :
        /\ ts[x] \in EndStatus => ts'[x] \in EndStatus
        /\ ts'[x] = None <=> ts[x] = None
        /\ ts'[x] = WAITING => ts[x] = WAITING

\* ... and to the threads that run tasks again.
Threaded ==
    \A th \in Threads :
        /\ \A row \in list'[th] :
              \/ row \in list[th]
              \/ /\ <<row.t, row.v>> \in Rows /\ row.s \in InterruptStatus
                 /\ Begun(<<row.t, row.v>>)
        /\ pc'[th] = "create" =>
              \/ pc[th] = "create" /\ at'[th] = at[th]
              \/ <<at'[th].t, at'[th].v>> \in Rows /\ Ended(<<at[th].t, at[th].v>>)'

LEMMA EndsAndBegins ==
    ASSUME Drift, NEW r \in Rows
    PROVE  (Ended(r) => Ended(r)') /\ (Begun(r) => Begun(r)')
  BY DEF Drift, Ended, Begun, Copies

LEMMA DriftKeeps ==
    ASSUME Orderly, Drift, Threaded, Together', Interrupted',
           \A r \in Rows : sv'[r] = None <=> sv[r] = None
    PROVE  Orderly'
<1>1. Agreed'
    <2>1. \A t \in Tasks : <<t, 0>> \in Rows
        BY RerunAssumption DEF Rows, Versions
    <2> QED
        BY <2>1 DEF Orderly, Agreed, Drift, Copies
<1>2. OlderEnded'
    <2>1. \A t \in Tasks, v \in Versions : <<t, v>> \in Rows
        BY DEF Rows
    <2> QED
        BY <2>1, EndsAndBegins DEF Orderly, OlderEnded
<1>3. Listed'
    BY EndsAndBegins DEF Orderly, Listed, Threaded
<1>4. Creating'
    BY EndsAndBegins DEF Orderly, Creating, Threaded
<1> QED
    BY <1>1, <1>2, <1>3, <1>4 DEF Orderly

\* Of a step that leaves tasks and rows alone.
LEMMA RestKeeps ==
    ASSUME VersionsInv, UNCHANGED <<sv, ts, list, at>>, DOMAIN pc' = DOMAIN pc,
           \A th \in Threads : pc'[th] = "create" => pc[th] = "create",
           lost' \in Nat, lost' = 0 => lost = 0, round'.then # "create"
    PROVE  VersionsInv'
<1>1. Types'
    BY DEF VersionsInv, Types
<1>2. CASE lost' = 0
    <2>1. Orderly
        BY <1>2 DEF VersionsInv
    <2>2. Drift /\ Threaded
        BY DEF Drift, Threaded
    <2>3. Together' /\ Interrupted'
        BY <2>1 DEF Orderly, Together, Interrupted, Begun
    <2> QED
        BY <1>1, <2>1, <2>2, <2>3, DriftKeeps DEF VersionsInv
<1> QED
    BY <1>1, <1>2 DEF VersionsInv

\* Of a step that stops copies of tasks.
LEMMA StopDrifts ==
    ASSUME Types, NEW X, NEW s \in InterruptStatus, ts' = Stopped(X, s)
    PROVE  /\ ts' \in [Copies -> TaskStatus \cup {None}] /\ Drift
           /\ \A x \in Copies : ts'[x] = WAITING <=> ts[x] = WAITING
<1>1. \A x \in Copies : ts'[x] = IF x \in X THEN TaskMoved(ts[x], s) ELSE ts[x]
    BY DEF Stopped
<1>2. \A x \in Copies : ts[x] \in TaskStatus \cup {None}
    BY DEF Types
<1>3. s # WAITING
    BY Statuses
<1>4. ASSUME NEW x \in Copies
      PROVE  /\ ts'[x] \in TaskStatus \cup {None}
             /\ ts[x] \in EndStatus => ts'[x] \in EndStatus
             /\ ts'[x] = None <=> ts[x] = None
             /\ ts'[x] = WAITING <=> ts[x] = WAITING
    BY <1>1, <1>2, <1>3, Moves
<1>5. ts' \in [Copies -> TaskStatus \cup {None}]
    BY <1>4 DEF Stopped
<1> QED
    BY <1>4, <1>5 DEF Drift

LEMMA StopKeeps ==
    ASSUME VersionsInv, NEW X, NEW s \in InterruptStatus, ts' = Stopped(X, s),
           UNCHANGED <<sv, list, at>>, DOMAIN pc' = DOMAIN pc,
           \A th \in Threads : pc'[th] = "create" => pc[th] = "create",
           lost' \in Nat, lost' = 0 => lost = 0, round'.then # "create"
    PROVE  VersionsInv'
<1>1. Types'
    BY StopDrifts DEF VersionsInv, Types
<1>2. CASE lost' = 0
    <2>1. Orderly /\ Types
        BY <1>2 DEF VersionsInv
    <2>2. Drift /\ Threaded /\ \A x \in Copies : ts'[x] = WAITING <=> ts[x] = WAITING
        BY <2>1, StopDrifts DEF Threaded
    <2>3. Together'
        BY <2>1, <2>2 DEF Orderly, Together, Copies
    <2>4. Interrupted'
        BY <2>1, <2>2, EndsAndBegins DEF Orderly, Interrupted
    <2> QED
        BY <1>1, <2>1, <2>2, <2>3, <2>4, DriftKeeps DEF VersionsInv
<1> QED
    BY <1>1, <1>2 DEF VersionsInv


-----------------------------------------------------------------------------
(* One lemma per action *)

LEMMA InitOrderly == Init => VersionsInv
<1> SUFFICES ASSUME Init PROVE VersionsInv
    OBVIOUS
<1>0. WAITING \in TaskStatus /\ WAITING # None /\ WAITING \notin InterruptStatus
    BY Statuses
<1>1. Types
    BY <1>0 DEF Init, Types
<1>2. Agreed
    <2>1. \A r \in Rows : sv[r] = IF r[2] = 0 THEN WAITING ELSE None
        BY DEF Init
    <2>2. \A p \in Parties, r \in Rows : ts[<<p, r>>] = IF r[2] = 0 THEN WAITING ELSE None
        BY DEF Init, Copies
    <2>3. \A t \in Tasks : <<t, 0>> \in Rows
        BY RerunAssumption DEF Rows, Versions
    <2> QED
        BY <1>0, <2>1, <2>2, <2>3 DEF Agreed
<1>3. Together
    BY <1>0 DEF Init, Together, Copies, Rows
<1>4. OlderEnded
    BY RerunAssumption DEF Init, OlderEnded, Rows, Versions
<1>5. Interrupted
    BY <1>0, Statuses DEF Init, Interrupted, Rows
<1>6. Listed /\ Creating
    BY DEF Init, Listed, Creating
<1> QED
    BY <1>1, <1>2, <1>3, <1>4, <1>5, <1>6 DEF VersionsInv, Orderly

LEMMA LostIsNat == VersionsInv => lost \in Nat
  BY DEF VersionsInv, Types

LEMMA LossOrNone ==
    ASSUME VersionsInv, NEW P \in Losses, Lose(P)
    PROVE  lost' \in Nat /\ (lost' = 0 => lost = 0 /\ P = {})
  BY LoseCounts, LostIsNat DEF Losses

LEMMA PartiesMove ==
    ASSUME VersionsInv, StartJob \/ CancelWaiting \/ WakeJob
    PROVE  VersionsInv'
<1>1. UNCHANGED <<sv, ts, list, at, round>>
    BY DEF StartJob, CancelWaiting, WakeJob, rows
<1>2. \E P \in Losses : Lose(P)
    BY DEF StartJob, CancelWaiting, WakeJob
<1>3. pc' = [pc EXCEPT !["scheduler"] = "running"] \/ pc' = [pc EXCEPT !["scheduler"] = "waiting"]
    BY DEF StartJob, CancelWaiting, WakeJob, Go
<1>4. DOMAIN pc' = DOMAIN pc /\ \A th \in Threads : pc'[th] = "create" => pc[th] = "create"
    BY <1>3 DEF VersionsInv, Types
<1>5. lost' \in Nat /\ (lost' = 0 => lost = 0)
    BY <1>2, LossOrNone
<1> QED
    BY <1>1, <1>4, <1>5, RestKeeps DEF VersionsInv, Types

LEMMA OthersMove ==
    ASSUME VersionsInv, Skip \/ (\E p \in Parties : ReturnUnused(p))
    PROVE  VersionsInv'
<1>1. UNCHANGED <<sv, ts, list, at, round, lost>>
    BY DEF Skip, ReturnUnused, rows, threadVars, counts, partyVars
<1>2. pc' = pc \/ \E phase \in {"running", "rerun", "waiting"} :
                      pc' = [pc EXCEPT !["scheduler"] = phase]
    BY DEF Skip, ReturnUnused, threadVars, Go
<1>3. DOMAIN pc' = DOMAIN pc /\ \A th \in Threads : pc'[th] = "create" => pc[th] = "create"
    BY <1>2 DEF VersionsInv, Types
<1> QED
    BY <1>1, <1>3, RestKeeps, LostIsNat DEF VersionsInv, Types

LEMMA SignalMoves ==
    ASSUME VersionsInv, NEW th \in Threads, SignalRerun(th)
    PROVE  VersionsInv'
<1>1. UNCHANGED <<sv, ts, list, at, round, lost>>
    BY DEF SignalRerun, rows, partyVars, counts
<1>2. round.then # "create" /\ DOMAIN pc = Threads
    BY DEF VersionsInv, Types
<1>3. DOMAIN pc' = DOMAIN pc /\ \A u \in Threads : pc'[u] = "create" => pc[u] = "create"
    BY <1>2 DEF SignalRerun, Over
<1> QED
    BY <1>1, <1>2, <1>3, RestKeeps, LostIsNat

LEMMA StopsMove ==
    ASSUME VersionsInv, Conclude \/ Cancel
    PROVE  VersionsInv'
<1>1. UNCHANGED <<sv, list, at, round>> /\ \E X : ts' = Stopped(X, FAILED)
    <2>1. CASE Conclude
        BY <2>1 DEF Conclude, rows
    <2>2. CASE Cancel
        BY <2>2 DEF Cancel, rows, threadVars
    <2> QED
        BY <2>1, <2>2
<1>2. DOMAIN pc' = DOMAIN pc /\ \A th \in Threads : pc'[th] = "create" => pc[th] = "create"
    <2>1. CASE Conclude
        BY <2>1 DEF Conclude, Go, VersionsInv, Types
    <2>2. CASE Cancel
        BY <2>2 DEF Cancel, threadVars
    <2> QED
        BY <2>1, <2>2
<1>3. lost' \in Nat /\ (lost' = 0 => lost = 0)
    <2>1. CASE Conclude
        <3>1. \E P, Q \in Losses : lost' = lost + Cardinality(P) + Cardinality(Q)
            BY <2>1 DEF Conclude
        <3>2. \A P \in Losses : Cardinality(P) \in Nat
            BY SubsetFinite DEF Losses
        <3> QED
            BY <3>1, <3>2, LostIsNat
    <2>2. CASE Cancel
        BY <2>2, LostIsNat DEF Cancel
    <2> QED
        BY <2>1, <2>2
<1>4. PICK X : ts' = Stopped(X, FAILED)
    BY <1>1
<1>5. FAILED \in InterruptStatus /\ round'.then # "create"
    BY <1>1, Statuses DEF VersionsInv, Types
<1> HIDE DEF VersionsInv
<1> QED
    BY <1>1, <1>2, <1>3, <1>4, <1>5, StopKeeps

LEMMA RequestMoves ==
    ASSUME VersionsInv, NEW u \in Users, RequestRerun(u)
    PROVE  VersionsInv'
<1>0. UNCHANGED <<sv, ts, at, round, lost>>
    BY DEF RequestRerun, rows, partyVars, counts
<1>1. DOMAIN list' = DOMAIN list /\ DOMAIN pc' = DOMAIN pc
    BY DEF RequestRerun
<1>2. Types'
    BY <1>0, <1>1 DEF VersionsInv, Types
<1>3. CASE lost' = 0
    <2>1. Orderly /\ Types
        BY <1>0, <1>3 DEF VersionsInv
    <2>2. Drift
        BY <1>0 DEF Drift
    <2>3. \A row \in list'[u] : <<row.t, row.v>> \in Rows /\ row.s \in InterruptStatus
                                /\ Begun(<<row.t, row.v>>)
        <3> SUFFICES ASSUME NEW row \in list'[u]
                     PROVE  /\ <<row.t, row.v>> \in Rows /\ row.s \in InterruptStatus
                            /\ Begun(<<row.t, row.v>>)
            OBVIOUS
        <3>1. u \in Threads
            BY DEF Threads
        <3>2. PICK t \in Tasks :
                 /\ \E v \in Versions : sv[<<t, v>>] \in InterruptStatus
                 /\ row = [t |-> t, v |-> Latest(t, InterruptStatus),
                           s |-> sv[<<t, Latest(t, InterruptStatus)>>],
                           retries |-> left[<<t, Latest(t, InterruptStatus)>>]]
            BY <2>1, <3>1 DEF RequestRerun, Types
        <3>3. /\ Latest(t, InterruptStatus) \in Versions
              /\ sv[<<t, Latest(t, InterruptStatus)>>] \in InterruptStatus
            BY <3>2, LatestFound
        <3>4. row.t = t /\ row.v = Latest(t, InterruptStatus)
              /\ row.s = sv[<<t, Latest(t, InterruptStatus)>>]
            BY <3>2
        <3>5. <<row.t, row.v>> \in Rows
            BY <3>3, <3>4 DEF Rows
        <3> QED
            BY <2>1, <3>3, <3>4, <3>5 DEF Orderly, Interrupted
    <2>4. \A th \in Threads : th # u => list'[th] = list[th] /\ pc'[th] = pc[th]
        BY <2>1 DEF RequestRerun, Types
    <2>5. u \in Threads /\ pc'[u] = "again"
        BY <2>1 DEF RequestRerun, Types, Threads
    <2>6. Threaded
        BY <1>0, <2>3, <2>4, <2>5 DEF Threaded
    <2>7. Together' /\ Interrupted'
        BY <1>0, <2>1 DEF Orderly, Together, Interrupted, Begun
    <2> QED
        BY <1>0, <1>2, <2>1, <2>2, <2>6, <2>7, DriftKeeps DEF VersionsInv
<1> QED
    BY <1>2, <1>3 DEF VersionsInv

LEMMA EndMoves ==
    ASSUME VersionsInv, NEW x \in Copies, NEW s \in {SUCCESS, FAILED}, EndTask(x, s)
    PROVE  VersionsInv'
<1>0. UNCHANGED <<sv, pc, list, at, round, lost>>
    BY DEF EndTask, rows, threadVars, counts
<1>1. /\ ts[x] = RUNNING /\ ts' = [ts EXCEPT ![x] = s] /\ ts \in [Copies -> TaskStatus \cup {None}]
      /\ s \in EndStatus /\ s \in TaskStatus
    BY Statuses DEF EndTask, VersionsInv, Types
<1>2. Types'
    BY <1>0, <1>1 DEF VersionsInv, Types
<1>3. CASE lost' = 0
    <2>1. Orderly
        BY <1>0, <1>3 DEF VersionsInv
    <2>2. Drift
        BY <1>1, Statuses DEF Drift
    <2>3. Threaded
        BY <1>0 DEF Threaded
    <2>4. \A y \in Copies : ts'[y] = WAITING <=> ts[y] = WAITING
        BY <1>1, Statuses
    <2>5. Together'
        BY <2>1, <2>4 DEF Orderly, Together, Copies
    <2>6. Interrupted'
        BY <1>0, <2>1, <2>2, EndsAndBegins DEF Orderly, Interrupted
    <2> QED
        BY <1>0, <1>2, <2>1, <2>2, <2>3, <2>5, <2>6, DriftKeeps DEF VersionsInv
<1> QED
    BY <1>2, <1>3 DEF VersionsInv

\* The version a thread stops has ended everywhere once the command has arrived: it is
\* the current one, which has begun, or an older one, which has ended before.
LEMMA StopMoves ==
    ASSUME VersionsInv, NEW th \in Threads, NEW row, StopOld(th, row)
    PROVE  VersionsInv'
<1>0. UNCHANGED <<sv, round>> /\ row \in list[th] /\ pc' = [pc EXCEPT ![th] = "create"]
    BY DEF StopOld, rows
<1>1. PICK P \in Losses :
         /\ ts' = Stopped((Parties \ P) \X {<<row.t, Current(row.t)>>}, row.s)
         /\ Lose(P)
    BY DEF StopOld
<1>2. /\ list' = [list EXCEPT ![th] = @ \ {row}]
      /\ at' = [at EXCEPT ![th] = [t |-> row.t, v |-> row.v, retries |-> row.retries, tries |-> 3]]
    BY DEF StopOld
<1>3. lost' \in Nat /\ (lost' = 0 => lost = 0 /\ P = {})
    BY <1>1, LossOrNone
<1>4. Types
    BY DEF VersionsInv
<1>5. Types'
    <2>1. ts' \in [Copies -> TaskStatus \cup {None}]
        <3>1. \A x \in Copies : ts[x] \in TaskStatus \cup {None}
            BY <1>4 DEF Types
        <3>2. \A x \in Copies : TaskMoved(ts[x], row.s) \in TaskStatus \cup {None}
            BY <3>1, Moves
        <3> QED
            BY <1>1, <3>1, <3>2 DEF Stopped
    <2> QED
        BY <1>0, <1>2, <1>3, <1>4, <2>1 DEF Types
<1>6. CASE lost' = 0
    <2>1. Orderly /\ P = {}
        BY <1>3, <1>6 DEF VersionsInv
    <2>2. <<row.t, row.v>> \in Rows /\ row.s \in InterruptStatus /\ Begun(<<row.t, row.v>>)
        BY <1>0, <2>1 DEF Orderly, Listed
    <2>3. ts' = Stopped(Parties \X {<<row.t, Current(row.t)>>}, row.s)
        BY <1>1, <2>1
    <2>4. Drift /\ \A x \in Copies : ts'[x] = WAITING <=> ts[x] = WAITING
        BY <1>4, <2>2, <2>3, StopDrifts
    <2>5. row.t \in Tasks /\ row.v \in Versions
        BY <2>2 DEF Rows
    <2>6. Ended(<<row.t, row.v>>)'
        <3>1. CASE row.v = Current(row.t)
            <4>1. ASSUME NEW p \in Parties PROVE ts'[<<p, <<row.t, row.v>>>>] \in EndStatus
                <5> DEFINE x == <<p, <<row.t, row.v>>>>
                <5>1. x \in Copies /\ x \in Parties \X {<<row.t, Current(row.t)>>}
                    BY <2>2, <3>1 DEF Copies
                <5>2. ts'[x] = TaskMoved(ts[x], row.s)
                    BY <2>3, <5>1 DEF Stopped
                <5>3. ts[x] \notin {None, WAITING} /\ ts[x] \in TaskStatus \cup {None}
                    BY <1>4, <2>2, <5>1 DEF Begun, Types
                <5>4. ts[x] = RUNNING \/ ts[x] \in EndStatus
                    BY <5>3 DEF TaskStatus, EndStatus
                <5>5. row.s \in EndStatus /\ row.s # WAITING
                    BY <2>2, Statuses
                <5> HIDE DEF x
                <5>6. ts'[x] \in EndStatus
                    BY <2>2, <5>2, <5>3, <5>4, <5>5, Moves
                <5> QED
                    BY <5>6 DEF x
            <4> QED
                BY <4>1 DEF Ended
        <3>2. CASE row.v # Current(row.t)
            <4>1. sv[<<row.t, row.v>>] # None
                <5>1. PICK p \in Parties : TRUE
                    BY RerunAssumption
                <5>2. ts[<<p, <<row.t, row.v>>>>] # None
                    BY <2>2 DEF Begun
                <5> QED
                    BY <2>1, <2>2, <5>2 DEF Orderly, Agreed
            <4>2. /\ Current(row.t) \in Versions /\ sv[<<row.t, Current(row.t)>>] # None
                  /\ row.v <= Current(row.t)
                BY <1>4, <2>1, <2>5, <4>1, CurrentFound DEF Orderly
            <4>3. row.v < Current(row.t)
                BY <2>5, <3>2, <4>2, RerunAssumption DEF Versions
            <4>4. Ended(<<row.t, row.v>>)
                BY <2>1, <2>5, <4>2, <4>3 DEF Orderly, OlderEnded
            <4> QED
                BY <2>2, <2>4, <4>4, EndsAndBegins
        <3> QED
            BY <3>1, <3>2
    <2>7. Threaded
        <3>1. \A u \in Threads : \A r \in list'[u] : r \in list[u]
            BY <1>2, <1>4 DEF Types
        <3>2. \A u \in Threads : u # th => pc'[u] = pc[u] /\ at'[u] = at[u]
            BY <1>0, <1>2, <1>4 DEF Types
        <3>3. at'[th].t = row.t /\ at'[th].v = row.v
            BY <1>2, <1>4 DEF Types
        <3>4. <<at'[th].t, at'[th].v>> \in Rows /\ Ended(<<at[th].t, at[th].v>>)'
            BY <2>2, <2>6, <3>3 DEF Ended
        <3> QED
            BY <3>1, <3>2, <3>4 DEF Threaded
    <2>8. Together'
        BY <2>1, <2>4 DEF Orderly, Together, Copies
    <2>9. Interrupted'
        BY <1>0, <2>1, <2>4, EndsAndBegins DEF Orderly, Interrupted
    <2> QED
        BY <1>0, <1>5, <2>1, <2>4, <2>7, <2>8, <2>9, DriftKeeps DEF VersionsInv
<1> QED
    BY <1>5, <1>6 DEF VersionsInv

\* The version that is made: none has it yet, all get it, and those before it have ended.
LEMMA CreateMoves ==
    ASSUME VersionsInv, NEW th \in Threads, CreateVersion(th)
    PROVE  VersionsInv'
<1> DEFINE t == at[th].t
           v == NextVersion(th)
           r == <<t, v>>
<1>0. pc[th] = "create" /\ v <= MaxVersion /\ UNCHANGED round
    BY DEF CreateVersion
<1>1. PICK P \in Losses, Q \in Losses :
         /\ Lose(P \cup Q)
         /\ ts' = [x \in Copies |->
                     IF x[1] \notin P /\ x[2] = r /\ ts[x] = None THEN WAITING ELSE ts[x]]
         /\ IF P \cup Q = {}
            THEN /\ sv' = IF sv[r] = None THEN [sv EXCEPT ![r] = WAITING] ELSE sv
                 /\ pc' = [pc EXCEPT ![th] = "again"]
                 /\ UNCHANGED <<at, list>>
            ELSE /\ UNCHANGED rows
                 /\ at' = [at EXCEPT ![th].v = v, ![th].tries = @ - 1]
                 /\ pc' = IF at[th].tries = 1 THEN Over(th) ELSE pc
                 /\ list' = IF at[th].tries = 1 THEN [list EXCEPT ![th] = {}] ELSE list
    BY DEF CreateVersion
<1>2. Types
    BY DEF VersionsInv
<1>3. lost' \in Nat /\ (lost' = 0 => lost = 0 /\ P \cup Q = {})
    <2>1. P \cup Q \in SUBSET Parties
        BY DEF Losses
    <2> QED
        BY <1>1, <2>1, LoseCounts, LostIsNat
<1>4. Types'
    <2>1. ts' \in [Copies -> TaskStatus \cup {None}]
        BY <1>1, <1>2, Statuses DEF Types
    <2>2. sv' \in [Rows -> TaskStatus \cup {None}]
        BY <1>1, <1>2, Statuses DEF Types, rows
    <2>3. DOMAIN pc' = Threads /\ DOMAIN list' = Threads /\ DOMAIN at' = Threads
        BY <1>1, <1>2 DEF Types, Over
    <2> QED
        BY <1>0, <1>2, <1>3, <2>1, <2>2, <2>3 DEF Types
<1>5. CASE lost' = 0
    <2>1. Orderly /\ P = {} /\ Q = {}
        BY <1>3, <1>5 DEF VersionsInv
    <2>2. /\ ts' = [x \in Copies |-> IF x[2] = r /\ ts[x] = None THEN WAITING ELSE ts[x]]
          /\ sv' = IF sv[r] = None THEN [sv EXCEPT ![r] = WAITING] ELSE sv
          /\ pc' = [pc EXCEPT ![th] = "again"]
          /\ UNCHANGED <<at, list>>
        BY <1>1, <2>1
    <2>3. <<t, at[th].v>> \in Rows /\ Ended(<<t, at[th].v>>)
        BY <1>0, <2>1 DEF Orderly, Creating
    <2>4. t \in Tasks /\ at[th].v \in Versions /\ v \in Versions /\ v = at[th].v + 1 /\ r \in Rows
        BY <1>0, <2>3, RerunAssumption DEF Rows, Versions, NextVersion
    <2> HIDE DEF t, v
    <2>5. \A x \in Copies : ts[x] # None => ts'[x] = ts[x]
        BY <2>2
    <2>6. \A q \in Rows : (Ended(q) => Ended(q)') /\ (Begun(q) => Begun(q)')
        BY <2>5, Statuses DEF Ended, Begun, Copies
    <2>7. Listed'
        BY <2>1, <2>2, <2>6 DEF Orderly, Listed
    <2>8. Creating'
        <3>1. \A u \in Threads : pc'[u] = "create" => pc[u] = "create"
            BY <1>2, <2>2 DEF Types
        <3> QED
            BY <2>1, <2>2, <2>6, <3>1 DEF Orderly, Creating
    <2>9. CASE sv[r] # None
        <3>1. sv' = sv
            BY <2>2, <2>9
        <3>2. ts' = ts
            <4>1. \A x \in Copies : x[2] = r => ts[x] # None
                BY <2>1, <2>4, <2>9 DEF Orderly, Agreed, Copies
            <4> QED
                BY <1>2, <2>2, <4>1 DEF Types
        <3>3. Agreed' /\ Together'
            BY <2>1, <3>1, <3>2 DEF Orderly, Agreed, Together
        <3>4. OlderEnded' /\ Interrupted'
            BY <2>1, <3>1, <3>2 DEF Orderly, OlderEnded, Interrupted, Ended, Begun
        <3> QED
            BY <1>4, <2>7, <2>8, <3>3, <3>4 DEF VersionsInv, Orderly
    <2>10. CASE sv[r] = None
        <3>1. \A p \in Parties : ts[<<p, r>>] = None /\ ts'[<<p, r>>] = WAITING
            BY <2>1, <2>2, <2>4, <2>10 DEF Orderly, Agreed, Copies
        <3>2. \A p \in Parties, q \in Rows : q # r => ts'[<<p, q>>] = ts[<<p, q>>]
            BY <2>2 DEF Copies
        <3>3. sv'[r] = WAITING /\ \A q \in Rows : q # r => sv'[q] = sv[q]
            BY <1>2, <2>2, <2>4, <2>10 DEF Types
        <3>4. WAITING # None /\ WAITING \notin InterruptStatus /\ None \notin EndStatus
            BY Statuses
        <3>5. Agreed'
            <4>1. ASSUME NEW p \in Parties, NEW q \in Rows
                  PROVE  ts'[<<p, q>>] = None <=> sv'[q] = None
                <5>1. CASE q = r
                    BY <3>1, <3>3, <3>4, <5>1
                <5>2. CASE q # r
                    <6>1. ts[<<p, q>>] = None <=> sv[q] = None
                        BY <2>1 DEF Orderly, Agreed
                    <6> QED
                        BY <3>2, <3>3, <5>2, <6>1
                <5> QED
                    BY <5>1, <5>2
            <4>2. \A u \in Tasks : <<u, 0>> \in Rows
                BY RerunAssumption DEF Rows, Versions
            <4>3. \A u \in Tasks : sv'[<<u, 0>>] # None
                BY <2>1, <3>3, <3>4, <4>2 DEF Orderly, Agreed
            <4> QED
                BY <4>1, <4>3 DEF Agreed
        <3>6. Together'
            BY <2>1, <3>1, <3>2 DEF Orderly, Together
        <3>7. Interrupted'
            BY <2>1, <2>6, <3>3, <3>4 DEF Orderly, Interrupted
        <3>8. OlderEnded'
            <4> SUFFICES ASSUME NEW u \in Tasks, NEW n \in Versions, NEW w \in Versions,
                                w < n, sv'[<<u, n>>] # None
                         PROVE  Ended(<<u, w>>)'
                BY DEF OlderEnded
            <4>1. <<u, n>> \in Rows /\ <<u, w>> \in Rows
                BY DEF Rows
            <4>2. CASE <<u, n>> = r
                <5>1. u = t /\ w <= at[th].v
                    BY <2>4, <4>2, RerunAssumption DEF Versions
                <5>2. CASE w = at[th].v
                    BY <2>3, <2>6, <5>1, <5>2
                <5>3. CASE w # at[th].v
                    <6>1. PICK p \in Parties : TRUE
                        BY RerunAssumption
                    <6>2. sv[<<t, at[th].v>>] # None
                        BY <2>1, <2>3, <3>4, <6>1 DEF Orderly, Agreed, Ended
                    <6>3. w < at[th].v
                        BY <2>4, <5>1, <5>3, RerunAssumption DEF Versions
                    <6>4. Ended(<<u, w>>)
                        BY <2>1, <2>4, <5>1, <6>2, <6>3 DEF Orderly, OlderEnded
                    <6> QED
                        BY <2>6, <4>1, <6>4
                <5> QED
                    BY <5>2, <5>3
            <4>3. CASE <<u, n>> # r
                <5>1. sv[<<u, n>>] # None
                    BY <3>3, <4>1, <4>3
                <5>2. Ended(<<u, w>>)
                    BY <2>1, <5>1 DEF Orderly, OlderEnded
                <5> QED
                    BY <2>6, <4>1, <5>2
            <4> QED
                BY <4>2, <4>3
        <3> QED
            BY <1>4, <2>7, <2>8, <3>5, <3>6, <3>7, <3>8 DEF VersionsInv, Orderly
    <2> QED
        BY <2>9, <2>10
<1> QED
    BY <1>4, <1>5 DEF VersionsInv

\* A task that is interrupted has begun everywhere.
LEMMA InterruptBegun ==
    ASSUME Types, Orderly, NEW t \in Tasks, Status(t) \in InterruptStatus
    PROVE  Begun(<<t, Current(t)>>)
<1> DEFINE r == <<t, Current(t)>>
<1>1. r \in Rows /\ sv[r] # None
    BY CurrentFound DEF Orderly
<1>2. \A p \in Parties : ts[<<p, r>>] # None
    BY <1>1 DEF Orderly, Agreed
<1>3. ASSUME NEW p \in Parties, ts[<<p, r>>] = WAITING PROVE FALSE
    <2>1. \A q \in Parties : ts[<<q, r>>] = WAITING
        BY <1>1, <1>3 DEF Orderly, Together
    <2>2. {ts[<<q, r>>] : q \in Parties} = {WAITING}
        BY <1>3, <2>1
    <2>3. Status(t) = WAITING
        BY <2>2, AllWaiting DEF Status
    <2> QED
        BY <2>3, Statuses
<1> QED
    BY <1>2, <1>3 DEF Begun

LEMMA ScheduleMoves ==
    ASSUME VersionsInv, NEW then, then # "create", Schedule(then)
    PROVE  VersionsInv'
<1> DEFINE cur == {<<u, Current(u)>> : u \in Tasks}
           toStart == {r \in cur : r[1] \in Startable}
           toStop == {r \in cur : Status(r[1]) \in InterruptStatus}
<1>0. /\ pc' = [pc EXCEPT !["scheduler"] = "conclude"] /\ at' = at
      /\ round'.then = then
      /\ list' = [list EXCEPT !["scheduler"] =
                  {[t |-> u, v |-> Current(u), s |-> Status(u),
                    retries |-> left[<<u, Current(u)>>] - 1] : u \in AutoRerun}]
    BY DEF Schedule, Go
<1>1. PICK P \in SUBSET Parties :
         /\ ts' = [x \in Copies |->
                     IF x[2] \in toStart THEN TaskMoved(ts[x], RUNNING)
                     ELSE IF x[2] \in toStop /\ x[1] \notin P
                          THEN TaskMoved(ts[x], Status(x[2][1])) ELSE ts[x]]
         /\ Lose(P)
    BY DEF Schedule, Losses
<1>2. sv' = [r \in Rows |->
                IF r \in toStart THEN RUNNING
                ELSE IF r \in cur THEN TaskMoved(sv[r], Status(r[1])) ELSE sv[r]]
    BY DEF Schedule
<1>3. lost' \in Nat /\ (lost' = 0 => lost = 0 /\ P = {})
    BY <1>1, LoseCounts, LostIsNat
<1>4. Types
    BY DEF VersionsInv
<1>5. \A x \in Copies :
        \/ x[2] \in toStart /\ ts'[x] = TaskMoved(ts[x], RUNNING)
        \/ /\ x[2] \notin toStart /\ x[2] \in toStop
           /\ ts'[x] = TaskMoved(ts[x], Status(x[2][1]))
        \/ x[2] \notin toStart /\ ts'[x] = ts[x]
    <2> HIDE DEF cur, toStart, toStop
    <2> SUFFICES ASSUME NEW x \in Copies
                 PROVE  \/ x[2] \in toStart /\ ts'[x] = TaskMoved(ts[x], RUNNING)
                        \/ /\ x[2] \notin toStart /\ x[2] \in toStop
                           /\ ts'[x] = TaskMoved(ts[x], Status(x[2][1]))
                        \/ x[2] \notin toStart /\ ts'[x] = ts[x]
        OBVIOUS
    <2>1. CASE x[2] \in toStart
        BY <1>1, <2>1
    <2>2. CASE x[2] \notin toStart /\ x[2] \in toStop /\ x[1] \notin P
        BY <1>1, <2>2
    <2>3. CASE x[2] \notin toStart /\ ~(x[2] \in toStop /\ x[1] \notin P)
        BY <1>1, <2>3
    <2> QED
        BY <2>1, <2>2, <2>3
<1>6. \A r \in Rows :
        \/ r \in toStart /\ sv'[r] = RUNNING
        \/ r \in cur /\ sv'[r] = TaskMoved(sv[r], Status(r[1]))
        \/ sv'[r] = sv[r]
    BY <1>2
<1>7. Types'
    <2>1. \A x \in Copies : ts[x] \in TaskStatus \cup {None}
        BY <1>4 DEF Types
    <2>2. ts' \in [Copies -> TaskStatus \cup {None}]
        <3>1. \A x \in Copies : ts'[x] \in TaskStatus \cup {None}
            BY <1>5, <2>1, Moves
        <3> QED
            BY <1>1, <3>1
    <2>3. \A r \in Rows : sv[r] \in TaskStatus \cup {None}
        BY <1>4 DEF Types
    <2>4. sv' \in [Rows -> TaskStatus \cup {None}]
        <3>1. \A r \in Rows : sv'[r] \in TaskStatus \cup {None}
            BY <1>6, <2>3, Moves, Statuses
        <3> QED
            BY <1>2, <3>1
    <2> QED
        BY <1>0, <1>3, <1>4, <2>2, <2>4 DEF Types
<1>8. CASE lost' = 0
    <2>1. Orderly
        BY <1>3, <1>8 DEF VersionsInv
    <2>2. \A x \in Copies : ts[x] \in TaskStatus \cup {None}
        BY <1>4 DEF Types
    <2>3. \A x \in Copies : x[2] \in toStop => Status(x[2][1]) \in InterruptStatus
                                               /\ Status(x[2][1]) # WAITING
        BY Statuses
    <2>4. Drift
        <3> SUFFICES ASSUME NEW x \in Copies
                     PROVE  /\ ts[x] \in EndStatus => ts'[x] \in EndStatus
                            /\ ts'[x] = None <=> ts[x] = None
                            /\ ts'[x] = WAITING => ts[x] = WAITING
            BY DEF Drift
        <3> HIDE DEF cur, toStart, toStop
        <3>1. CASE ts'[x] = TaskMoved(ts[x], RUNNING)
            BY <2>2, <3>1, Moves, Statuses
        <3>2. CASE x[2] \in toStop /\ ts'[x] = TaskMoved(ts[x], Status(x[2][1]))
            BY <2>2, <2>3, <3>2, Moves, Statuses
        <3> QED
            BY <1>5, <3>1, <3>2
    <2>5. Together'
        <3> SUFFICES ASSUME NEW p \in Parties, NEW q \in Parties, NEW r \in Rows,
                            ts'[<<p, r>>] = WAITING
                     PROVE  ts'[<<q, r>>] = WAITING
            BY DEF Together
        <3>1. <<p, r>> \in Copies /\ <<q, r>> \in Copies
            BY DEF Copies
        <3>2. ts[<<p, r>>] = WAITING
            BY <2>4, <3>1 DEF Drift
        <3>3. ts[<<q, r>>] = WAITING
            BY <2>1, <3>2 DEF Orderly, Together
        <3> HIDE DEF cur, toStart, toStop
        <3>4. r \notin toStart
            BY <1>5, <3>1, <3>2, Moves, Statuses
        <3> QED
            BY <1>5, <2>2, <2>3, <3>1, <3>3, <3>4, Moves
    <2>6. \A r \in Rows : sv'[r] = None <=> sv[r] = None
        <3>1. \A r \in toStart : sv[r] # None
            BY <1>4, <2>1, CurrentFound DEF Orderly
        <3>2. \A r \in Rows : sv[r] \in TaskStatus \cup {None}
            BY <1>4 DEF Types
        <3>3. RUNNING # None
            BY Statuses
        <3> HIDE DEF cur, toStart, toStop
        <3>4. \A r \in Rows : TaskMoved(sv[r], Status(r[1])) = None <=> sv[r] = None
            BY <3>2, Moves
        <3> QED
            BY <1>6, <3>1, <3>3, <3>4
    <2>7. Interrupted'
        <3> SUFFICES ASSUME NEW r \in Rows, sv'[r] \in InterruptStatus
                     PROVE  Begun(r)'
            BY DEF Interrupted
        <3>1. sv[r] \in TaskStatus \cup {None}
            BY <1>4 DEF Types
        <3>2. sv[r] \in InterruptStatus \/ (r \in cur /\ Status(r[1]) \in InterruptStatus)
            <4> HIDE DEF cur, toStart, toStop
            <4>1. RUNNING \notin InterruptStatus
                BY Statuses
            <4>2. TaskMoved(sv[r], Status(r[1])) \in {sv[r], Status(r[1])}
                BY <3>1, Moves
            <4> QED
                BY <1>6, <4>1, <4>2
        <3>3. Begun(r)
            <4>1. CASE sv[r] \in InterruptStatus
                BY <2>1, <4>1 DEF Orderly, Interrupted
            <4>2. CASE r \in cur /\ Status(r[1]) \in InterruptStatus
                <5>1. PICK u \in Tasks : r = <<u, Current(u)>>
                    BY <4>2
                <5> QED
                    BY <1>4, <2>1, <4>2, <5>1, InterruptBegun
            <4> QED
                BY <3>2, <4>1, <4>2
        <3> QED
            BY <2>4, <3>3, EndsAndBegins
    <2>8. Threaded
        <3>1. \A row \in list'["scheduler"] :
                /\ <<row.t, row.v>> \in Rows /\ row.s \in InterruptStatus
                /\ Begun(<<row.t, row.v>>)
            <4> SUFFICES ASSUME NEW row \in list'["scheduler"]
                         PROVE  /\ <<row.t, row.v>> \in Rows /\ row.s \in InterruptStatus
                                /\ Begun(<<row.t, row.v>>)
                OBVIOUS
            <4>1. list'["scheduler"] = {[t |-> u, v |-> Current(u), s |-> Status(u),
                    retries |-> left[<<u, Current(u)>>] - 1] : u \in AutoRerun}
                BY <1>0, <1>4 DEF Types, Threads
            <4>2. PICK u \in AutoRerun : row = [t |-> u, v |-> Current(u), s |-> Status(u),
                    retries |-> left[<<u, Current(u)>>] - 1]
                BY <4>1
            <4>3. row.t = u /\ row.v = Current(u) /\ row.s = Status(u)
                BY <4>2
            <4>4. u \in Tasks /\ Status(u) \in InterruptStatus
                BY Statuses DEF AutoRerun
            <4>5. <<u, Current(u)>> \in Rows
                BY <1>4, <2>1, <4>4, CurrentFound DEF Orderly
            <4> QED
                BY <1>4, <2>1, <4>3, <4>4, <4>5, InterruptBegun
        <3>2. \A th \in Threads : th # "scheduler" => list'[th] = list[th] /\ pc'[th] = pc[th]
            BY <1>0, <1>4 DEF Types
        <3>3. pc'["scheduler"] = "conclude"
            BY <1>0, <1>4 DEF Types, Threads
        <3> QED
            BY <1>0, <3>1, <3>2, <3>3 DEF Threaded
    <2> QED
        BY <1>7, <2>1, <2>4, <2>5, <2>6, <2>7, <2>8, DriftKeeps DEF VersionsInv
<1> QED
    BY <1>7, <1>8 DEF VersionsInv

LEMMA NextOrderly == VersionsInv /\ [Next]_vars => VersionsInv'
<1> SUFFICES ASSUME VersionsInv, [Next]_vars PROVE VersionsInv'
    OBVIOUS
<1>1. CASE Scheduler
    <2>1. CASE ScheduleRunning \/ ScheduleRerun
        <3>1. Schedule("rerun") \/ Schedule("waiting")
            BY <2>1 DEF ScheduleRunning, ScheduleRerun
        <3> QED
            BY <3>1, ScheduleMoves
    <2> QED
        BY <1>1, <2>1, PartiesMove, OthersMove, StopsMove DEF Scheduler
<1>2. CASE Cancel
    BY <1>2, StopsMove
<1>3. CASE \E p \in Parties : ReturnUnused(p)
    BY <1>3, OthersMove
<1>4. CASE \E th \in Threads : Rerunning(th)
    BY <1>4, StopMoves, CreateMoves, SignalMoves DEF Rerunning
<1>5. CASE \E u \in Users : RequestRerun(u)
    BY <1>5, RequestMoves
<1>6. CASE \E x \in Copies : EndTask(x, SUCCESS) \/ EndTask(x, FAILED)
    BY <1>6, EndMoves
<1>7. CASE UNCHANGED vars
    <2>1. UNCHANGED <<sv, ts, list, at, pc, lost, round>>
        BY <1>7 DEF vars, rows, partyVars, threadVars, counts
    <2> QED
        BY <2>1, RestKeeps, LostIsNat DEF VersionsInv, Types
<1> QED
    BY <1>1, <1>2, <1>3, <1>4, <1>5, <1>6, <1>7 DEF Next
-----------------------------------------------------------------------------
\* The versions of a task are made one after the other, each when those before it have
\* ended at every party, while no command of controller/task.py gets lost.
THEOREM VersionsInvariant == Spec => []VersionsInv
  BY InitOrderly, NextOrderly, PTL DEF Spec

LEMMA OneRuns == VersionsInv => OneVersionRuns
<1> SUFFICES ASSUME VersionsInv, lost = 0, NEW p \in Parties, NEW t \in Tasks
             PROVE  Cardinality({v \in Versions : ts[<<p, <<t, v>>>>] = RUNNING}) <= 1
    BY DEF OneVersionRuns
<1> DEFINE R == {v \in Versions : ts[<<p, <<t, v>>>>] = RUNNING}
<1>1. ASSUME NEW v \in R, NEW w \in R, w < v PROVE FALSE
    <2>1. <<t, v>> \in Rows /\ <<t, w>> \in Rows
        BY DEF Rows
    <2>2. sv[<<t, v>>] # None
        BY <2>1, Statuses DEF VersionsInv, Orderly, Agreed
    <2>3. Ended(<<t, w>>)
        BY <1>1, <2>2 DEF VersionsInv, Orderly, OlderEnded
    <2> QED
        BY <2>3, Statuses DEF Ended
<1>2. \A v, w \in R : v = w
    <2>1. \A v \in R : v \in Int
        BY RerunAssumption DEF Versions
    <2> QED
        BY <1>1, <2>1
<1> HIDE DEF R
<1>3. CASE R = {}
    <2>1. Cardinality(R) = 0
        BY <1>3, FS_EmptySet
    <2> QED
        BY <2>1 DEF R
<1>4. CASE R # {}
    <2>1. PICK v \in R : TRUE
        BY <1>4
    <2>2. R = {v}
        BY <1>2, <2>1
    <2>3. Cardinality(R) = 1
        BY <2>2, FS_Singleton
    <2> QED
        BY <2>3 DEF R
<1> QED
    BY <1>3, <1>4 DEF R

\* While nothing has got lost a party never runs two versions of a task: whoever asks
\* to run the job again, and whenever (rerun_job takes no lock, scheduler.py:232-262).
THEOREM OneVersionEach == Spec => []OneVersionRuns
  BY VersionsInvariant, OneRuns, PTL

-----------------------------------------------------------------------------
(* The rows of the tasks: types, retries and success *)

\* Where a thread can be, a row it has read, and the types of what the threads have in memory.
Places == {"idle", "waiting", "running", "rerun", "conclude", "again", "create", "done"}
ListedRow == [t : Tasks, v : Versions, s : InterruptStatus, retries : 0..AutoRetries]
Attempt == [t : Tasks \cup {None}, v : Versions, retries : 0..AutoRetries, tries : 0..3]
Round == [saw : JobStatus, canceled : BOOLEAN, next : BOOLEAN, then : {"rerun", "waiting"},
          mem : [Tasks -> TaskStatus \ {PASS}]]

Typed ==
    /\ TypeOK /\ ts \in [Copies -> (TaskStatus \ {PASS}) \cup {None}]
    /\ list \in [Threads -> SUBSET ListedRow]
    /\ at \in [Threads -> Attempt]
    /\ \A th \in Threads : pc[th] = "create" => at[th].t \in Tasks /\ at[th].tries # 0
    /\ round \in Round
    /\ lost \in Nat /\ cancels \in Nat

\* Every task has a first version, and the parties know every version the scheduler does.
Known ==
    /\ \A t \in Tasks : sv[<<t, 0>>] # None
    /\ \A p \in Parties, r \in Rows : sv[r] # None => ts[<<p, r>>] # None

\* While nobody has asked to run the job again: every new version of a task costs one of
\* its retries, and whoever makes one is at the latest version.
Idle == \A u \in Users : pc[u] = "idle"
Made(t) == {v \in Versions : sv[<<t, v>>] # None}
Retries(t) == left[<<t, Current(t)>>]

Counted == Idle =>
    /\ \A t \in Tasks : Cardinality(Made(t)) + Retries(t) <= 1 + AutoRetries
    /\ \A row \in list["scheduler"] : row.v = Current(row.t) /\ row.retries < Retries(row.t)
    /\ \A a, b \in list["scheduler"] : a.t = b.t => a = b
    /\ pc["scheduler"] = "create" =>
         /\ at["scheduler"].v >= Current(at["scheduler"].t)
         /\ at["scheduler"].retries < Retries(at["scheduler"].t)
         /\ \A row \in list["scheduler"] : row.t # at["scheduler"].t

\* A success is that of the latest versions, or someone is about to have the job run
\* again, or has given that up.
Fresh == \A t \in Tasks, p \in Parties : ts[<<p, <<t, Current(t)>>>>] = SUCCESS
Excused == rerun \/ \E u \in Users : pc[u] \in {"again", "create"} \/ GaveUp(u)

Succeeded ==
    /\ sjob = SUCCESS => Fresh \/ Excused
    /\ pc["scheduler"] = "conclude" =>
         /\ sjob # SUCCESS
         /\ (\A t \in Tasks : round.mem[t] = SUCCESS) => list["scheduler"] = {} /\ (Fresh \/ Excused)
    /\ pc["scheduler"] \in {"again", "create"} => sjob # SUCCESS

RowsInv == Typed /\ Known /\ Counted /\ Succeeded

LEMMA CurrentIsTop ==
    ASSUME NEW t
    PROVE  Current(t) = Top(sv, t, TaskStatus) /\ Current(t)' = Top(sv', t, TaskStatus)
  BY DEF Current, Latest, Top

LEMMA RowIsMade ==
    ASSUME NEW f \in [Rows -> TaskStatus \cup {None}], NEW t \in Tasks, NEW v \in Versions
    PROVE  f[<<t, v>>] # None <=> f[<<t, v>>] \in TaskStatus
  BY Statuses DEF Rows

LEMMA TopVersion ==
    ASSUME NEW f \in [Rows -> TaskStatus \cup {None}], NEW t \in Tasks, f[<<t, 0>>] # None
    PROVE  /\ Top(f, t, TaskStatus) \in Versions /\ <<t, Top(f, t, TaskStatus)>> \in Rows
           /\ f[<<t, Top(f, t, TaskStatus)>>] # None
           /\ \A w \in Versions : f[<<t, w>>] # None => w <= Top(f, t, TaskStatus)
<1>1. 0 \in Versions
    BY RerunAssumption DEF Versions
<1>2. f[<<t, 0>>] \in TaskStatus
    BY <1>1, RowIsMade
<1>3. /\ Top(f, t, TaskStatus) \in Versions /\ f[<<t, Top(f, t, TaskStatus)>>] \in TaskStatus
      /\ \A w \in Versions : f[<<t, w>>] \in TaskStatus => w <= Top(f, t, TaskStatus)
    BY <1>1, <1>2, TopFound
<1>4. \A w \in Versions : f[<<t, w>>] # None <=> f[<<t, w>>] \in TaskStatus
    BY RowIsMade
<1> QED
    BY <1>3, <1>4 DEF Rows

\* The latest version is known by what is known of it.
LEMMA TopIs ==
    ASSUME NEW f \in [Rows -> TaskStatus \cup {None}], NEW t \in Tasks, f[<<t, 0>>] # None,
           NEW v \in Versions, f[<<t, v>>] # None, \A w \in Versions : f[<<t, w>>] # None => w <= v
    PROVE  Top(f, t, TaskStatus) = v
<1> DEFINE u == Top(f, t, TaskStatus)
<1>1. u \in Versions /\ f[<<t, u>>] # None /\ \A w \in Versions : f[<<t, w>>] # None => w <= u
    BY TopVersion
<1> HIDE DEF u
<1>2. u <= v /\ v <= u /\ u \in Int /\ v \in Int
    BY <1>1, RerunAssumption DEF Versions
<1>3. u = v
    BY <1>2
<1> QED
    BY <1>3 DEF u

LEMMA LatestVersion ==
    ASSUME Typed, Known, NEW t \in Tasks
    PROVE  /\ Current(t) \in Versions /\ <<t, Current(t)>> \in Rows
           /\ sv[<<t, Current(t)>>] # None
           /\ \A w \in Versions : sv[<<t, w>>] # None => w <= Current(t)
<1>1. sv \in [Rows -> TaskStatus \cup {None}] /\ sv[<<t, 0>>] # None
    BY DEF Typed, TypeOK, Known
<1>2. Current(t) = Top(sv, t, TaskStatus)
    BY CurrentIsTop
<1> QED
    BY <1>1, <1>2, TopVersion

\* No version is made and none is forgotten.
Kept == \A r \in Rows : sv'[r] = None <=> sv[r] = None

LEMMA CurrentKept ==
    ASSUME Typed, Known, sv' \in [Rows -> TaskStatus \cup {None}], Kept, NEW t \in Tasks
    PROVE  Current(t)' = Current(t)
<1>1. \A w \in Versions : <<t, w>> \in Rows
    BY DEF Rows
<1> DEFINE v == Current(t)
<1>2. /\ v \in Versions /\ sv[<<t, v>>] # None /\ sv[<<t, 0>>] # None
      /\ \A w \in Versions : sv[<<t, w>>] # None => w <= v
    BY LatestVersion DEF Known
<1> HIDE DEF v
<1>3. 0 \in Versions
    BY RerunAssumption DEF Versions
<1>4. /\ sv'[<<t, v>>] # None /\ sv'[<<t, 0>>] # None
      /\ \A w \in Versions : sv'[<<t, w>>] # None => w <= v
    BY <1>1, <1>2, <1>3 DEF Kept
<1>5. Current(t)' = v
    BY <1>2, <1>4, TopIs, CurrentIsTop
<1> QED
    BY <1>5 DEF v

LEMMA MovesOn ==
    ASSUME NEW s \in (TaskStatus \ {PASS}) \cup {None}, NEW new \in TaskStatus \ {PASS}
    PROVE  /\ TaskMoved(s, new) \in (TaskStatus \ {PASS}) \cup {None}
           /\ TaskMoved(s, new) = None <=> s = None
           /\ s = SUCCESS => TaskMoved(s, new) = SUCCESS
  BY DEF TaskMoved, TaskMayBecome, TaskRules, TaskStatus, None, WAITING, RUNNING, CANCELED,
         TIMEOUT, FAILED, PASS, SUCCESS

LEMMA Unpassed ==
    /\ {WAITING, RUNNING, FAILED, SUCCESS} \subseteq TaskStatus \ {PASS}
    /\ InterruptStatus \subseteq TaskStatus \ {PASS}
    /\ AutoRerunStatus \subseteq InterruptStatus
    /\ TaskStatus \ {PASS} \subseteq JobStatus
    /\ CANCELED \in JobStatus /\ SUCCESS \notin InterruptStatus
    /\ SUCCESS \in EndStatus /\ RUNNING # SUCCESS /\ WAITING # SUCCESS /\ None \notin TaskStatus
  BY DEF TaskStatus, JobStatus, InterruptStatus, AutoRerunStatus, EndStatus, None, WAITING,
         RUNNING, CANCELED, TIMEOUT, FAILED, PASS, SUCCESS

LEMMA StatusOver ==
    ASSUME NEW S \in SUBSET (TaskStatus \ {PASS}), S # {}
    PROVE  /\ FederatedTaskStatus(S) \in TaskStatus \ {PASS}
           /\ FederatedTaskStatus(S) = SUCCESS => S = {SUCCESS}
<1>1. Merged(S) = S
    BY DEF Merged
<1>2. CASE \E s \in S : S = {s}
    <2>1. FederatedTaskStatus(S) = CHOOSE s \in S : TRUE
        BY <1>1, <1>2 DEF FederatedTaskStatus
    <2> QED
        BY <1>2, <2>1
<1>3. CASE ~ \E s \in S : S = {s}
    <2>1. FederatedTaskStatus(S) \in {CANCELED, TIMEOUT, FAILED, RUNNING}
        BY <1>1, <1>3 DEF FederatedTaskStatus, LowestInterrupt
    <2> QED
        BY <2>1 DEF TaskStatus, CANCELED, TIMEOUT, FAILED, RUNNING, PASS, SUCCESS
<1> QED
    BY <1>2, <1>3

LEMMA JobStatusOver ==
    ASSUME NEW S \in SUBSET (TaskStatus \ {PASS}), S # {}, NEW next
    PROVE  /\ FederatedJobStatus(next, S) \in JobStatus
           /\ FederatedJobStatus(next, S) = SUCCESS => S = {SUCCESS}
<1>1. Merged(S) = S
    BY DEF Merged
<1>2. CASE \E s \in S : S = {s}
    <2>1. FederatedJobStatus(next, S) = CHOOSE s \in S : TRUE
        BY <1>1, <1>2 DEF FederatedJobStatus
    <2> QED
        BY <1>2, <2>1, Unpassed
<1>3. CASE ~ \E s \in S : S = {s}
    <2>1. FederatedJobStatus(next, S) \in {CANCELED, TIMEOUT, FAILED, RUNNING}
        BY <1>1, <1>3 DEF FederatedJobStatus, HighestInterrupt
    <2> QED
        BY <2>1 DEF JobStatus, CANCELED, TIMEOUT, FAILED, RUNNING, SUCCESS
<1> QED
    BY <1>2, <1>3

\* The status of a task, of its latest version at the parties.
LEMMA StatusNow ==
    ASSUME Typed, Known, NEW t \in Tasks
    PROVE  /\ Status(t) \in TaskStatus \ {PASS}
           /\ Status(t) = SUCCESS => \A p \in Parties : ts[<<p, <<t, Current(t)>>>>] = SUCCESS
<1> DEFINE S == {ts[<<p, <<t, Current(t)>>>>] : p \in Parties}
<1>1. <<t, Current(t)>> \in Rows /\ sv[<<t, Current(t)>>] # None
    BY LatestVersion
<1>2. \A p \in Parties : ts[<<p, <<t, Current(t)>>>>] \in TaskStatus \ {PASS}
    BY <1>1 DEF Typed, Known, Copies
<1>3. S \in SUBSET (TaskStatus \ {PASS}) /\ S # {}
    BY <1>2, RerunAssumption
<1>4. Status(t) = FederatedTaskStatus(S)
    BY DEF Status
<1>5. S = {SUCCESS} => \A p \in Parties : ts[<<p, <<t, Current(t)>>>>] = SUCCESS
    OBVIOUS
<1> HIDE DEF S
<1> QED
    BY <1>3, <1>4, <1>5, StatusOver

LEMMA NewIs ==
    ASSUME Typed
    PROVE  /\ NewJobStatus \in JobStatus
           /\ NewJobStatus = SUCCESS => \A t \in Tasks : round.mem[t] = SUCCESS
<1> DEFINE S == {round.mem[t] : t \in Tasks}
<1>1. S \in SUBSET (TaskStatus \ {PASS}) /\ S # {}
    BY RerunAssumption DEF Typed, Round
<1>2. FederatedJobStatus(round.next, S) \in JobStatus
      /\ (FederatedJobStatus(round.next, S) = SUCCESS => S = {SUCCESS})
    BY <1>1, JobStatusOver
<1>3. NewJobStatus \in {CANCELED, FederatedJobStatus(round.next, S)} /\ CANCELED # SUCCESS
    BY DEF NewJobStatus, CANCELED, SUCCESS
<1>4. S = {SUCCESS} => \A t \in Tasks : round.mem[t] = SUCCESS
    OBVIOUS
<1> HIDE DEF S
<1> QED
    BY <1>2, <1>3, <1>4, Unpassed

LEMMA ToldTypes ==
    ASSUME NEW s \in JobStatus, NEW P, pjob \in [Parties -> JobStatus]
    PROVE  Told(P, s) \in [Parties -> JobStatus]
  BY DEF Told, JobMoved

LEMMA LossCounts ==
    ASSUME Typed, NEW P \in Losses
    PROVE  Cardinality(P) \in Nat
  BY SubsetFinite DEF Losses

\* What any step that makes no version does to the statuses at the parties.
Stays ==
    /\ ts' \in [Copies -> (TaskStatus \ {PASS}) \cup {None}]
    /\ \A x \in Copies : ts'[x] = None <=> ts[x] = None
    /\ \A x \in Copies : ts[x] = SUCCESS => ts'[x] = SUCCESS

LEMMA StopStays ==
    ASSUME Typed, NEW X, NEW s \in InterruptStatus, ts' = Stopped(X, s)
    PROVE  Stays
<1>1. s \in TaskStatus \ {PASS}
    BY Unpassed
<1>2. \A x \in Copies : ts[x] \in (TaskStatus \ {PASS}) \cup {None}
    BY DEF Typed
<1>3. \A x \in Copies : ts'[x] = IF x \in X THEN TaskMoved(ts[x], s) ELSE ts[x]
    BY DEF Stopped
<1>4. ASSUME NEW x \in Copies
      PROVE  /\ ts'[x] \in (TaskStatus \ {PASS}) \cup {None}
             /\ ts'[x] = None <=> ts[x] = None
             /\ ts[x] = SUCCESS => ts'[x] = SUCCESS
    BY <1>1, <1>2, <1>3, MovesOn
<1>5. ts' \in [Copies -> (TaskStatus \ {PASS}) \cup {None}]
    BY <1>4 DEF Stopped
<1> QED
    BY <1>4, <1>5 DEF Stays

\* A step that makes no version and of which the scheduler's thread reads nothing.
LEMMA RowsStay ==
    ASSUME Typed, Known, Counted, Stays, UNCHANGED rows, Idle' => Idle,
           list'["scheduler"] = list["scheduler"], at'["scheduler"] = at["scheduler"],
           pc'["scheduler"] = "create" => pc["scheduler"] = "create"
    PROVE  Known' /\ Counted' /\ (Fresh => Fresh')
<1>1. \A t \in Tasks : Current(t)' = Current(t) /\ <<t, Current(t)>> \in Rows
    BY CurrentKept, LatestVersion DEF rows, Kept, Typed, TypeOK
<1>2. Known'
    BY DEF Known, Stays, rows, Copies
<1>3. Fresh => Fresh'
    BY <1>1 DEF Fresh, Stays, Copies
<1>4. \A t \in Tasks : Made(t)' = Made(t) /\ Retries(t)' = Retries(t)
    BY <1>1 DEF Made, Retries, rows
<1>5. "scheduler" \in Threads
    BY DEF Threads
<1>6. \A row \in list["scheduler"] : row.t \in Tasks
    BY <1>5 DEF Typed, ListedRow
<1>7. pc["scheduler"] = "create" => at["scheduler"].t \in Tasks
    BY <1>5 DEF Typed
<1>8. ASSUME Idle'
      PROVE  /\ \A t \in Tasks : Cardinality(Made(t)) + Retries(t) <= 1 + AutoRetries
             /\ \A row \in list["scheduler"] : row.v = Current(row.t) /\ row.retries < Retries(row.t)
             /\ \A a, b \in list["scheduler"] : a.t = b.t => a = b
             /\ pc["scheduler"] = "create" =>
                  /\ at["scheduler"].v >= Current(at["scheduler"].t)
                  /\ at["scheduler"].retries < Retries(at["scheduler"].t)
                  /\ \A row \in list["scheduler"] : row.t # at["scheduler"].t
    BY <1>8 DEF Counted
<1>9. Counted'
    BY <1>1, <1>4, <1>6, <1>7, <1>8 DEF Counted
<1> QED
    BY <1>2, <1>3, <1>9

\* The types after a step that leaves the rows, what the threads hold, and the round.
LEMMA TypesRest ==
    ASSUME Typed, UNCHANGED <<rows, list, at, round>>, Stays,
           sjob' \in JobStatus, rerun' \in BOOLEAN, cancel' \in BOOLEAN,
           pjob' \in [Parties -> JobStatus], held' \subseteq Parties,
           pc' \in [Threads -> Places],
           \A th \in Threads : pc'[th] = "create" => pc[th] = "create",
           lost' \in Nat, cancels' \in Nat
    PROVE  Typed'
<1>1. ts' \in [Copies -> TaskStatus \cup {None}]
    BY DEF Stays
<1>2. UNCHANGED <<sv, left, list, at, round>>
    BY DEF rows
<1>3. TypeOK'
    BY <1>1, <1>2 DEF Typed, TypeOK, Places
<1> QED
    BY <1>2, <1>3 DEF Typed, Stays

\* A step that leaves the signals and what the round and the requests are at.
LEMMA SuccessStays ==
    ASSUME Succeeded, Fresh => Fresh', UNCHANGED <<sjob, rerun, round>>,
           list'["scheduler"] = list["scheduler"],
           \A u \in Users : pc'[u] = pc[u] /\ at'[u] = at[u],
           pc'["scheduler"] \in {"conclude", "again", "create"} => pc'["scheduler"] = pc["scheduler"]
    PROVE  Succeeded'
<1>1. Excused => Excused'
    BY DEF Excused, GaveUp
<1> QED
    BY <1>1 DEF Succeeded

LEMMA SchedulerIsThread == "scheduler" \in Threads /\ Users \subseteq Threads /\ "scheduler" \notin Users
  BY RerunAssumption DEF Threads

LEMMA NothingStays == Typed /\ UNCHANGED ts => Stays
  BY DEF Typed, Stays

LEMMA PartiesStep ==
    ASSUME RowsInv, StartJob \/ CancelWaiting \/ WakeJob
    PROVE  RowsInv'
<1>0. Typed /\ Known /\ Counted
    BY DEF RowsInv
<1>1. UNCHANGED <<rows, ts, list, at, round, cancels>>
    BY DEF StartJob, CancelWaiting, WakeJob
<1>2. \E P \in Losses : lost' = lost + Cardinality(P)
    BY DEF StartJob, CancelWaiting, WakeJob, Lose
<1>3. lost' \in Nat /\ cancels' \in Nat
    BY <1>0, <1>1, <1>2, LossCounts DEF Typed
<1>4. PICK phase \in {"running", "waiting"} : pc' = [pc EXCEPT !["scheduler"] = phase]
    BY DEF StartJob, CancelWaiting, WakeJob, Go
<1>5. /\ pc' \in [Threads -> Places]
      /\ pc'["scheduler"] = phase /\ \A th \in Threads : pc'[th] = "create" => pc[th] = "create"
      /\ \A u \in Users : pc'[u] = pc[u]
    BY <1>0, <1>4, SchedulerIsThread DEF Typed, TypeOK, Places
<1>6. {RUNNING, CANCELED, WAITING} \subseteq JobStatus /\ SUCCESS \notin {RUNNING, CANCELED, WAITING}
    BY DEF JobStatus, RUNNING, CANCELED, WAITING, SUCCESS
<1>7. sjob' \in {RUNNING, CANCELED, WAITING}
    BY DEF StartJob, CancelWaiting, WakeJob
<1>8. rerun' \in BOOLEAN /\ cancel' \in BOOLEAN
    BY <1>0 DEF StartJob, CancelWaiting, WakeJob, Typed, TypeOK
<1>9. \E s \in {RUNNING, CANCELED, WAITING}, P \in SUBSET Parties : pjob' = Told(P, s)
    BY DEF StartJob, CancelWaiting, WakeJob, JobSynced
<1>10. pjob' \in [Parties -> JobStatus]
    BY <1>0, <1>6, <1>9, ToldTypes DEF Typed, TypeOK
<1>11. held' \subseteq Parties
    BY <1>0 DEF StartJob, CancelWaiting, WakeJob, JobSynced, Typed, TypeOK
<1>12. Stays
    BY <1>0, <1>1, NothingStays
<1>13. Typed'
    BY <1>0, <1>1, <1>3, <1>5, <1>6, <1>7, <1>8, <1>10, <1>11, <1>12, TypesRest
<1>14. Known' /\ Counted'
    BY <1>0, <1>1, <1>5, <1>12, RowsStay, SchedulerIsThread DEF Idle
<1>15. Succeeded'
    BY <1>4, <1>5, <1>6, <1>7 DEF Succeeded
<1> QED
    BY <1>13, <1>14, <1>15 DEF RowsInv

LEMMA OthersStep ==
    ASSUME RowsInv, Skip \/ (\E p \in Parties : ReturnUnused(p))
    PROVE  RowsInv'
<1>0. Typed /\ Known /\ Counted /\ Succeeded
    BY DEF RowsInv
<1>1. UNCHANGED <<sjob, rerun, cancel, rows, ts, pjob, list, at, round, lost, cancels>>
    BY DEF Skip, ReturnUnused, partyVars, threadVars, counts
<1>2. held' \subseteq Parties
    BY <1>0 DEF Skip, ReturnUnused, partyVars, Typed, TypeOK
<1>3. pc' = pc \/ \E phase \in {"running", "rerun", "waiting"} : pc' = [pc EXCEPT !["scheduler"] = phase]
    BY DEF Skip, ReturnUnused, threadVars, Go
<1>4. /\ pc' \in [Threads -> Places]
      /\ pc'["scheduler"] \in {pc["scheduler"], "running", "rerun", "waiting"}
      /\ \A th \in Threads : pc'[th] = "create" => pc[th] = "create"
      /\ \A u \in Users : pc'[u] = pc[u]
    BY <1>0, <1>3, SchedulerIsThread DEF Typed, TypeOK, Places
<1>5. Stays
    BY <1>0, <1>1, NothingStays
<1>6. Typed'
    <2>1. /\ sjob' \in JobStatus /\ rerun' \in BOOLEAN /\ cancel' \in BOOLEAN
          /\ pjob' \in [Parties -> JobStatus] /\ lost' \in Nat /\ cancels' \in Nat
        BY <1>0, <1>1 DEF Typed, TypeOK
    <2> QED
        BY <1>0, <1>1, <1>2, <1>4, <1>5, <2>1, TypesRest
<1>7. Known' /\ Counted' /\ (Fresh => Fresh')
    BY <1>0, <1>1, <1>4, <1>5, RowsStay, SchedulerIsThread DEF Idle
<1>8. Succeeded'
    BY <1>0, <1>1, <1>4, <1>7, SuccessStays
<1> QED
    BY <1>6, <1>7, <1>8 DEF RowsInv

LEMMA CancelStep ==
    ASSUME RowsInv, Cancel
    PROVE  RowsInv'
<1>0. Typed /\ Known /\ Counted /\ Succeeded
    BY DEF RowsInv
<1>1. UNCHANGED <<sjob, rerun, rows, pc, list, at, round, lost>> /\ cancel' = TRUE /\ cancels' = cancels + 1
    BY DEF Cancel, threadVars
<1>2. FAILED \in JobStatus /\ FAILED \in InterruptStatus
    BY Statuses DEF JobStatus
<1>3. pjob' \in [Parties -> JobStatus] /\ held' \subseteq Parties
    BY <1>0, <1>2, ToldTypes DEF Cancel, JobSynced, Typed, TypeOK
<1>4. Stays
    BY <1>0, <1>2, StopStays DEF Cancel
<1>5. Typed'
    <2>1. /\ sjob' \in JobStatus /\ rerun' \in BOOLEAN /\ cancel' \in BOOLEAN
          /\ lost' \in Nat /\ cancels' \in Nat
          /\ pc' \in [Threads -> Places]
        BY <1>0, <1>1 DEF Typed, TypeOK, Places
    <2> QED
        BY <1>0, <1>1, <1>3, <1>4, <2>1, TypesRest
<1>6. Known' /\ Counted' /\ (Fresh => Fresh')
    BY <1>0, <1>1, <1>4, RowsStay DEF Idle
<1>7. Succeeded'
    BY <1>0, <1>1, <1>6, SuccessStays
<1> QED
    BY <1>5, <1>6, <1>7 DEF RowsInv

LEMMA EndTaskStep ==
    ASSUME RowsInv, NEW x \in Copies, NEW s \in {SUCCESS, FAILED}, EndTask(x, s)
    PROVE  RowsInv'
<1>0. Typed /\ Known /\ Counted /\ Succeeded
    BY DEF RowsInv
<1>1. UNCHANGED <<sjob, rerun, cancel, rows, pjob, held, pc, list, at, round, lost, cancels>>
    BY DEF EndTask, threadVars, counts
<1>2. Stays
    <2>1. ts[x] = RUNNING /\ ts' = [ts EXCEPT ![x] = s] /\ s \in TaskStatus \ {PASS}
        BY Unpassed DEF EndTask
    <2>2. RUNNING # SUCCESS /\ RUNNING # None /\ s # None
        BY <2>1, Unpassed, Statuses
    <2> QED
        BY <1>0, <2>1, <2>2 DEF Stays, Typed
<1>3. Typed'
    <2>1. /\ sjob' \in JobStatus /\ rerun' \in BOOLEAN /\ cancel' \in BOOLEAN
          /\ lost' \in Nat /\ cancels' \in Nat
          /\ pjob' \in [Parties -> JobStatus] /\ held' \subseteq Parties
          /\ pc' \in [Threads -> Places]
        BY <1>0, <1>1 DEF Typed, TypeOK, Places
    <2> QED
        BY <1>0, <1>1, <1>2, <2>1, TypesRest
<1>4. Known' /\ Counted' /\ (Fresh => Fresh')
    BY <1>0, <1>1, <1>2, RowsStay DEF Idle
<1>5. Succeeded'
    BY <1>0, <1>1, <1>4, SuccessStays
<1> QED
    BY <1>3, <1>4, <1>5 DEF RowsInv

\* The job becomes SUCCESS in a round that has found all tasks SUCCESS.
LEMMA ConcludeStep ==
    ASSUME RowsInv, Conclude
    PROVE  RowsInv'
<1>0. Typed /\ Known /\ Counted /\ Succeeded
    BY DEF RowsInv
<1>1. UNCHANGED <<rerun, rows, list, at, round, cancels>> /\ pc["scheduler"] = "conclude"
    BY DEF Conclude
<1>2. sjob' \in {sjob, NewJobStatus} /\ cancel' \in BOOLEAN
    BY <1>0 DEF Conclude, RowMoved, JobMoved, Typed, TypeOK
<1>3. NewJobStatus \in JobStatus /\ (NewJobStatus = SUCCESS => \A t \in Tasks : round.mem[t] = SUCCESS)
    BY <1>0, NewIs
<1>4. pc' = [pc EXCEPT !["scheduler"] = IF list["scheduler"] = {} THEN round.then ELSE "again"]
    BY DEF Conclude, Go
<1>5. /\ round.then \in {"rerun", "waiting"}
      /\ pc' \in [Threads -> Places]
      /\ pc'["scheduler"] = IF list["scheduler"] = {} THEN round.then ELSE "again"
      /\ \A u \in Users : pc'[u] = pc[u]
    BY <1>0, <1>4, SchedulerIsThread DEF Typed, TypeOK, Round, Places
<1>6. \A th \in Threads : pc'[th] = "create" => pc[th] = "create"
    BY <1>0, <1>4, <1>5 DEF Typed, TypeOK
<1>7. PICK missed \in Losses, deaf \in Losses :
        LET told == IF NewJobStatus # round.saw THEN Parties \ missed ELSE {}
            stop == IF NewJobStatus \in EndStatus THEN Parties \ deaf ELSE {}
            synced == Told(told, NewJobStatus)
        IN
        /\ pjob' = [p \in Parties |-> IF p \in stop THEN JobMoved(synced[p], FAILED) ELSE synced[p]]
        /\ \E after : held' = held \ Returned(after)
        /\ ts' = Stopped(RunningLatest(stop), FAILED)
        /\ lost' = lost + Cardinality(missed) + Cardinality(deaf)
    BY Zenon DEF Conclude
<1>8. FAILED \in JobStatus /\ FAILED \in InterruptStatus
    BY Statuses DEF JobStatus
<1>9. pjob' \in [Parties -> JobStatus]
    <2>1. \A P : Told(P, NewJobStatus) \in [Parties -> JobStatus]
        BY <1>0, <1>3, ToldTypes DEF Typed, TypeOK
    <2> QED
        BY <1>7, <1>8, <2>1 DEF JobMoved
<1>10. held' \subseteq Parties
    BY <1>0, <1>7 DEF Typed, TypeOK
<1>11. Stays
    BY <1>0, <1>7, <1>8, StopStays
<1>12. lost' \in Nat /\ cancels' \in Nat
    <2>1. Cardinality(missed) \in Nat /\ Cardinality(deaf) \in Nat /\ lost \in Nat
        BY <1>0, LossCounts DEF Typed
    <2>2. \A a, b, c \in Nat : a + b + c \in Nat
        OBVIOUS
    <2> QED
        BY <1>0, <1>1, <1>7, <2>1, <2>2 DEF Typed
<1>13. Typed'
    <2>1. rerun' \in BOOLEAN /\ sjob' \in JobStatus
        BY <1>0, <1>1, <1>2, <1>3 DEF Typed, TypeOK
    <2> QED
        BY <1>0, <1>1, <1>2, <1>5, <1>6, <1>9, <1>10, <1>11, <1>12, <2>1, TypesRest
<1>14. Known' /\ Counted' /\ (Fresh => Fresh')
    BY <1>0, <1>1, <1>5, <1>6, <1>11, RowsStay, SchedulerIsThread DEF Idle
<1>15. Succeeded'
    <2>1. Excused => Excused'
        BY <1>1, <1>5 DEF Excused, GaveUp
    <2>2. sjob # SUCCESS /\ ((\A t \in Tasks : round.mem[t] = SUCCESS) =>
                               list["scheduler"] = {} /\ (Fresh \/ Excused))
        BY <1>0, <1>1 DEF Succeeded
    <2>3. sjob' = SUCCESS => list["scheduler"] = {} /\ (Fresh \/ Excused)
        BY <1>2, <1>3, <2>2
    <2>4. pc'["scheduler"] = "again" => list["scheduler"] # {}
        BY <1>5
    <2>5. pc'["scheduler"] \notin {"conclude", "create"}
        BY <1>5
    <2> QED
        BY <1>14, <2>1, <2>3, <2>4, <2>5 DEF Succeeded
<1> QED
    BY <1>13, <1>14, <1>15 DEF RowsInv

-----------------------------------------------------------------------------
(* One lemma per action, again *)

LEMMA InitRows == Init => RowsInv
<1> SUFFICES ASSUME Init PROVE RowsInv
    OBVIOUS
<1>0. /\ WAITING \in TaskStatus \ {PASS} /\ WAITING \in JobStatus /\ WAITING # None
      /\ WAITING # SUCCESS /\ 0 \in Versions /\ AutoRetries \in Nat
    BY Unpassed, Statuses, RerunAssumption DEF Versions, JobStatus
<1>1. Typed
    <2>1. TypeOK
        <3>1. /\ sv \in [Rows -> TaskStatus \cup {None}] /\ left \in [Rows -> 0..AutoRetries]
              /\ ts \in [Copies -> TaskStatus \cup {None}] /\ pjob \in [Parties -> JobStatus]
            BY <1>0 DEF Init
        <3>2. \A th \in Threads : at[th].tries \in 0..3 /\ at[th].v \in Versions
            BY <1>0 DEF Init
        <3>3. /\ sjob \in JobStatus /\ rerun \in BOOLEAN /\ cancel \in BOOLEAN /\ held \subseteq Parties
              /\ pc \in [Threads -> Places]
            BY <1>0 DEF Init, Places
        <3> QED
            BY <3>1, <3>2, <3>3 DEF TypeOK, Places
    <2>2. round \in Round
        BY <1>0 DEF Init, Round
    <2>3. /\ ts \in [Copies -> (TaskStatus \ {PASS}) \cup {None}]
          /\ list \in [Threads -> SUBSET ListedRow] /\ at \in [Threads -> Attempt]
          /\ lost \in Nat /\ cancels \in Nat
        BY <1>0 DEF Init, Attempt
    <2>4. \A th \in Threads : pc[th] # "create"
        BY DEF Init
    <2> QED
        BY <2>1, <2>2, <2>3, <2>4 DEF Typed
<1>2. Known
    <2>1. \A t \in Tasks : <<t, 0>> \in Rows
        BY <1>0 DEF Rows
    <2>2. \A t \in Tasks : sv[<<t, 0>>] = WAITING
        BY <2>1 DEF Init
    <2>3. \A p \in Parties, r \in Rows : sv[r] = ts[<<p, r>>]
        BY DEF Init, Copies
    <2> QED
        BY <1>0, <2>2, <2>3 DEF Known
<1>3. Counted
    <2>1. list["scheduler"] = {} /\ pc["scheduler"] = "waiting"
        BY SchedulerIsThread DEF Init
    <2>2. ASSUME NEW t \in Tasks PROVE Cardinality(Made(t)) + Retries(t) <= 1 + AutoRetries
        <3>1. \A v \in Versions : sv[<<t, v>>] = IF v = 0 THEN WAITING ELSE None
            BY DEF Init, Rows
        <3>2. Made(t) = {0}
            BY <1>0, <3>1 DEF Made
        <3>3. Current(t) \in Versions /\ sv[<<t, Current(t)>>] # None
            BY <1>1, <1>2, LatestVersion
        <3>4. Current(t) = 0
            BY <3>1, <3>3
        <3>5. Retries(t) = AutoRetries
            BY <1>0, <3>4 DEF Retries, Init, Rows
        <3>6. Cardinality(Made(t)) = 1
            BY <3>2, FS_Singleton
        <3> QED
            BY <1>0, <3>5, <3>6
    <2> QED
        BY <2>1, <2>2 DEF Counted
<1>4. Succeeded
    BY <1>0, SchedulerIsThread DEF Init, Succeeded
<1> QED
    BY <1>1, <1>2, <1>3, <1>4 DEF RowsInv

LEMMA ScheduleStep ==
    ASSUME RowsInv, NEW then \in {"rerun", "waiting"}, Schedule(then), rerun' \in BOOLEAN,
           sjob # SUCCESS
    PROVE  RowsInv'
<1> DEFINE cur == {<<u, Current(u)>> : u \in Tasks}
           toStart == {r \in cur : r[1] \in Startable}
           toStop == {r \in cur : Status(r[1]) \in InterruptStatus}
           found == {[t |-> u, v |-> Current(u), s |-> Status(u),
                      retries |-> left[<<u, Current(u)>>] - 1] : u \in AutoRerun}
<1>0. Typed /\ Known /\ Counted /\ Succeeded
    BY DEF RowsInv
<1>1. /\ pc' = [pc EXCEPT !["scheduler"] = "conclude"]
      /\ UNCHANGED <<sjob, cancel, left, pjob, held, at, cancels>>
      /\ list' = [list EXCEPT !["scheduler"] = found]
    BY DEF Schedule, Go
<1>2. PICK P \in Losses :
         /\ ts' = [x \in Copies |->
                     IF x[2] \in toStart THEN TaskMoved(ts[x], RUNNING)
                     ELSE IF x[2] \in toStop /\ x[1] \notin P
                          THEN TaskMoved(ts[x], Status(x[2][1])) ELSE ts[x]]
         /\ lost' = lost + Cardinality(P)
    <2>1. \E P \in IF toStop = {} THEN {{}} ELSE Losses :
            /\ ts' = [x \in Copies |->
                        IF x[2] \in toStart THEN TaskMoved(ts[x], RUNNING)
                        ELSE IF x[2] \in toStop /\ x[1] \notin P
                             THEN TaskMoved(ts[x], Status(x[2][1])) ELSE ts[x]]
            /\ Lose(P)
        BY Zenon DEF Schedule
    <2> HIDE DEF cur, toStart, toStop
    <2>2. \A P \in {{}} : Lose(P) => P \in Losses
        BY DEF Losses, Lose
    <2> QED
        BY <2>1, <2>2 DEF Lose
<1>3. /\ sv' = [r \in Rows |->
                  IF r \in toStart THEN RUNNING
                  ELSE IF r \in cur THEN TaskMoved(sv[r], Status(r[1])) ELSE sv[r]]
      /\ round' = [saw |-> sjob, canceled |-> cancel, next |-> toStart # {}, then |-> then,
                   mem |-> [u \in Tasks |-> IF <<u, Current(u)>> \in toStart THEN RUNNING ELSE Status(u)]]
    BY DEF Schedule
<1>4. \A u \in Tasks : Status(u) \in TaskStatus \ {PASS}
    BY <1>0, StatusNow
<1>5. \A r \in cur : r \in Rows /\ sv[r] # None /\ Status(r[1]) \in TaskStatus \ {PASS}
    BY <1>0, <1>4, LatestVersion
<1>6. "scheduler" \in Threads /\ \A u \in Users : u \in Threads /\ u # "scheduler"
    BY SchedulerIsThread
<1>7. RUNNING \in TaskStatus \ {PASS} /\ RUNNING # None /\ RUNNING # SUCCESS
    BY Unpassed
<1>8. found \subseteq ListedRow
    <2> SUFFICES ASSUME NEW u \in AutoRerun
                 PROVE  [t |-> u, v |-> Current(u), s |-> Status(u),
                         retries |-> left[<<u, Current(u)>>] - 1] \in ListedRow
        OBVIOUS
    <2>1. u \in Tasks /\ Status(u) \in InterruptStatus /\ left[<<u, Current(u)>>] > 0
        BY Unpassed DEF AutoRerun
    <2>2. Current(u) \in Versions /\ <<u, Current(u)>> \in Rows
        BY <1>0, <2>1, LatestVersion
    <2>3. left[<<u, Current(u)>>] \in 0..AutoRetries
        BY <1>0, <2>2 DEF Typed, TypeOK
    <2>4. left[<<u, Current(u)>>] - 1 \in 0..AutoRetries
        BY <2>1, <2>3, RerunAssumption
    <2> QED
        BY <2>1, <2>2, <2>4 DEF ListedRow
<1>9. \A u \in Tasks : Status(u) = SUCCESS => u \notin AutoRerun
    BY Unpassed DEF AutoRerun
<1>10. \A u \in AutoRerun : u \in Tasks
    BY DEF AutoRerun
<1>11. \A u \in Tasks : <<u, Current(u)>> \in cur
    OBVIOUS
<1>12. cur \in SUBSET (Tasks \X Versions) /\ toStart \subseteq cur /\ toStop \subseteq cur
    BY <1>5 DEF Rows
<1>13. \A r \in toStop : Status(r[1]) \in TaskStatus \ {PASS}
    BY <1>5
<1>14. (toStart # {}) \in BOOLEAN
    OBVIOUS
<1>15. \A u \in Tasks : round'.mem[u] \in {RUNNING, Status(u)} /\ (round'.mem[u] = SUCCESS => Status(u) = SUCCESS)
    BY <1>3, <1>7
<1>16. round' \in Round
    BY <1>0, <1>3, <1>4, <1>7, <1>14 DEF Round, Typed, TypeOK
<1> HIDE DEF cur, toStart, toStop
<1>17. Stays
    <2>1. ASSUME NEW x \in Copies
          PROVE  /\ ts'[x] \in (TaskStatus \ {PASS}) \cup {None}
                 /\ ts'[x] = None <=> ts[x] = None
                 /\ ts[x] = SUCCESS => ts'[x] = SUCCESS
        <3>1. ts[x] \in (TaskStatus \ {PASS}) \cup {None}
            BY <1>0 DEF Typed
        <3>2. ts'[x] = IF x[2] \in toStart THEN TaskMoved(ts[x], RUNNING)
                       ELSE IF x[2] \in toStop /\ x[1] \notin P
                            THEN TaskMoved(ts[x], Status(x[2][1])) ELSE ts[x]
            BY <1>2
        <3>3. CASE x[2] \in toStart
            BY <1>7, <3>1, <3>2, <3>3, MovesOn
        <3>4. CASE x[2] \notin toStart /\ x[2] \in toStop /\ x[1] \notin P
            BY <1>13, <3>1, <3>2, <3>4, MovesOn
        <3>5. CASE x[2] \notin toStart /\ ~(x[2] \in toStop /\ x[1] \notin P)
            BY <3>1, <3>2, <3>5
        <3> QED
            BY <3>3, <3>4, <3>5
    <2>2. ts' \in [Copies -> (TaskStatus \ {PASS}) \cup {None}]
        BY <1>2, <2>1
    <2> QED
        BY <2>1, <2>2 DEF Stays
<1>18. sv' \in [Rows -> TaskStatus \cup {None}] /\ Kept
    <2>1. ASSUME NEW r \in Rows
          PROVE  sv'[r] \in TaskStatus \cup {None} /\ (sv'[r] = None <=> sv[r] = None)
        <3>1. sv[r] \in TaskStatus \cup {None}
            BY <1>0 DEF Typed, TypeOK
        <3>2. sv'[r] = IF r \in toStart THEN RUNNING
                       ELSE IF r \in cur THEN TaskMoved(sv[r], Status(r[1])) ELSE sv[r]
            BY <1>3
        <3>3. CASE r \in toStart
            BY <1>5, <1>7, <1>12, <3>2, <3>3
        <3>4. CASE r \notin toStart /\ r \in cur
            BY <3>1, <3>2, <3>4, Moves
        <3>5. CASE r \notin toStart /\ r \notin cur
            BY <3>1, <3>2, <3>5
        <3> QED
            BY <3>3, <3>4, <3>5
    <2> QED
        BY <1>3, <2>1 DEF Kept
<1>19. Typed'
    <2>1. lost' \in Nat /\ cancels' \in Nat
        BY <1>0, <1>1, <1>2, LossCounts DEF Typed
    <2>2. /\ pc' \in [Threads -> Places]
          /\ \A th \in Threads : pc'[th] = "create" => pc[th] = "create"
        BY <1>0, <1>1 DEF Typed, TypeOK, Places
    <2>3. list' \in [Threads -> SUBSET ListedRow]
        BY <1>0, <1>1, <1>8 DEF Typed
    <2>4. ts' \in [Copies -> TaskStatus \cup {None}]
        BY <1>17 DEF Stays
    <2>5. TypeOK'
        BY <1>0, <1>1, <1>18, <2>2, <2>4 DEF Typed, TypeOK
    <2> QED
        BY <1>0, <1>1, <1>16, <1>17, <2>1, <2>2, <2>3, <2>5 DEF Typed, Stays
<1>20. \A u \in Tasks : Current(u)' = Current(u) /\ <<u, Current(u)>> \in Rows
    BY <1>0, <1>18, CurrentKept, LatestVersion
<1>21. Known'
    <2>1. \A u \in Tasks : <<u, 0>> \in Rows
        BY RerunAssumption DEF Rows, Versions
    <2> QED
        BY <1>0, <1>17, <1>18, <2>1 DEF Known, Stays, Kept, Copies
<1>22. \A u \in Tasks : Made(u)' = Made(u) /\ Retries(u)' = Retries(u)
    BY <1>1, <1>18, <1>20 DEF Made, Retries, Kept, Rows
<1>23. list'["scheduler"] = found /\ pc'["scheduler"] = "conclude" /\ \A u \in Users : pc'[u] = pc[u]
    BY <1>0, <1>1, <1>6 DEF Typed, TypeOK
<1>24. ASSUME NEW row \in found
       PROVE  \E u \in AutoRerun : /\ row = [t |-> u, v |-> Current(u), s |-> Status(u),
                                             retries |-> Retries(u) - 1]
                                   /\ row.t = u /\ row.v = Current(u) /\ row.retries = Retries(u) - 1
                                   /\ Retries(u) \in Nat
    <2>1. PICK u \in AutoRerun : row = [t |-> u, v |-> Current(u), s |-> Status(u),
                                        retries |-> Retries(u) - 1]
        BY DEF Retries
    <2>2. Retries(u) \in 0..AutoRetries
        BY <1>0, <1>10, <1>20 DEF Typed, TypeOK, Retries
    <2>3. Retries(u) \in Nat
        BY <2>2, RerunAssumption
    <2> QED
        BY <2>1, <2>3
<1>25. Counted'
    <2>1. ASSUME Idle' PROVE \A u \in Tasks : Cardinality(Made(u)) + Retries(u) <= 1 + AutoRetries
        BY <1>0, <1>23, <2>1 DEF Counted, Idle
    <2>2. \A row \in found : row.v = Current(row.t) /\ row.retries < Retries(row.t) /\ row.t \in Tasks
        BY <1>10, <1>24
    <2>3. ASSUME NEW a \in found, NEW b \in found, a.t = b.t PROVE a = b
        <3>1. PICK u \in AutoRerun : /\ a = [t |-> u, v |-> Current(u), s |-> Status(u),
                                             retries |-> Retries(u) - 1]
                                     /\ a.t = u
            BY <1>24
        <3>2. PICK w \in AutoRerun : /\ b = [t |-> w, v |-> Current(w), s |-> Status(w),
                                             retries |-> Retries(w) - 1]
                                     /\ b.t = w
            BY <1>24
        <3> QED
            BY <2>3, <3>1, <3>2
    <2> HIDE DEF found
    <2>4. \A row \in found : row.v = Current(row.t)' /\ row.retries < Retries(row.t)'
        BY <1>20, <1>22, <2>2
    <2>5. Idle' => \A u \in Tasks : Cardinality(Made(u)') + Retries(u)' <= 1 + AutoRetries
        BY <1>22, <2>1
    <2> QED
        BY <1>23, <2>3, <2>4, <2>5 DEF Counted
<1>26. Succeeded'
    <2>1. sjob' # SUCCESS
        BY <1>1
    <2>2. ASSUME \A u \in Tasks : round'.mem[u] = SUCCESS PROVE found = {} /\ Fresh'
        <3>1. \A u \in Tasks : Status(u) = SUCCESS
            BY <1>15, <2>2
        <3>2. found = {}
            BY <1>9, <1>10, <3>1
        <3>3. \A u \in Tasks, p \in Parties : ts[<<p, <<u, Current(u)>>>>] = SUCCESS
            BY <1>0, <3>1, StatusNow
        <3>4. Fresh'
            BY <1>17, <1>20, <3>3 DEF Fresh, Stays, Copies
        <3> QED
            BY <3>2, <3>4
    <2> QED
        BY <1>23, <2>1, <2>2 DEF Succeeded
<1> QED
    BY <1>19, <1>21, <1>25, <1>26 DEF RowsInv

\* The types after a step of a thread that runs the job again.
LEMMA TypesAgain ==
    ASSUME Typed, UNCHANGED <<sjob, pjob, held, round, cancels>>,
           rerun' \in BOOLEAN, cancel' \in BOOLEAN,
           sv' \in [Rows -> TaskStatus \cup {None}], left' \in [Rows -> 0..AutoRetries],
           ts' \in [Copies -> (TaskStatus \ {PASS}) \cup {None}], pc' \in [Threads -> Places],
           list' \in [Threads -> SUBSET ListedRow], at' \in [Threads -> Attempt],
           \A th \in Threads : pc'[th] = "create" => at'[th].t \in Tasks /\ at'[th].tries # 0,
           lost' \in Nat
    PROVE  Typed'
<1>1. ts' \in [Copies -> TaskStatus \cup {None}]
    OBVIOUS
<1>2. \A th \in Threads : at'[th].tries \in 0..3 /\ at'[th].v \in Versions
    BY DEF Attempt
<1>3. TypeOK'
    BY <1>1, <1>2 DEF Typed, TypeOK, Places
<1> QED
    BY <1>3 DEF Typed

\* A request that goes on excuses what it leaves.
LEMMA RequestExcuses ==
    ASSUME Typed, Succeeded, NEW u \in Users, UNCHANGED <<sjob, round>>,
           list'["scheduler"] = list["scheduler"], pc'["scheduler"] = pc["scheduler"],
           pc'[u] \in {"again", "create"} \/ rerun' \/ GaveUp(u)', pc'[u] # "idle"
    PROVE  Counted' /\ Succeeded'
<1>1. ~Idle'
    BY DEF Idle
<1>2. Excused'
    BY DEF Excused
<1> QED
    BY <1>1, <1>2 DEF Counted, Succeeded

LEMMA RequestStep ==
    ASSUME RowsInv, NEW u \in Users, RequestRerun(u)
    PROVE  RowsInv'
<1> DEFINE found == {[t |-> t, v |-> Latest(t, InterruptStatus),
                      s |-> sv[<<t, Latest(t, InterruptStatus)>>],
                      retries |-> left[<<t, Latest(t, InterruptStatus)>>]] :
                        t \in {t \in Tasks : \E v \in Versions : sv[<<t, v>>] \in InterruptStatus}}
<1>0. Typed /\ Known /\ Succeeded /\ u \in Threads /\ u # "scheduler" /\ "scheduler" \in Threads
    BY SchedulerIsThread DEF RowsInv
<1>1. /\ UNCHANGED <<sjob, rerun, cancel, sv, left, ts, pjob, held, at, round, lost, cancels>>
      /\ pc' = [pc EXCEPT ![u] = "again"] /\ list' = [list EXCEPT ![u] = found]
    BY DEF RequestRerun, rows, partyVars, counts
<1>2. found \subseteq ListedRow
    <2> SUFFICES ASSUME NEW t \in Tasks, NEW v \in Versions, sv[<<t, v>>] \in InterruptStatus
                 PROVE  [t |-> t, v |-> Latest(t, InterruptStatus),
                         s |-> sv[<<t, Latest(t, InterruptStatus)>>],
                         retries |-> left[<<t, Latest(t, InterruptStatus)>>]] \in ListedRow
        OBVIOUS
    <2>1. /\ Latest(t, InterruptStatus) \in Versions
          /\ sv[<<t, Latest(t, InterruptStatus)>>] \in InterruptStatus
        BY LatestFound
    <2>2. <<t, Latest(t, InterruptStatus)>> \in Rows
        BY <2>1 DEF Rows
    <2>3. left[<<t, Latest(t, InterruptStatus)>>] \in 0..AutoRetries
        BY <1>0, <2>2 DEF Typed, TypeOK
    <2> QED
        BY <2>1, <2>3 DEF ListedRow
<1> HIDE DEF found
<1>3. pc' \in [Threads -> Places] /\ \A th \in Threads : pc'[th] = "create" => pc[th] = "create"
    BY <1>0, <1>1 DEF Typed, TypeOK, Places
<1>4. list' \in [Threads -> SUBSET ListedRow]
    BY <1>0, <1>1, <1>2 DEF Typed
<1>5. Typed'
    <2>1. /\ rerun' \in BOOLEAN /\ cancel' \in BOOLEAN
          /\ sv' \in [Rows -> TaskStatus \cup {None}] /\ left' \in [Rows -> 0..AutoRetries]
          /\ ts' \in [Copies -> (TaskStatus \ {PASS}) \cup {None}] /\ at' \in [Threads -> Attempt]
          /\ lost' \in Nat
        BY <1>0, <1>1 DEF Typed, TypeOK
    <2>2. \A th \in Threads : pc'[th] = "create" => at'[th].t \in Tasks /\ at'[th].tries # 0
        BY <1>0, <1>1, <1>3 DEF Typed
    <2> QED
        BY <1>0, <1>1, <1>3, <1>4, <2>1, <2>2, TypesAgain
<1>6. Known'
    BY <1>0, <1>1 DEF Known
<1>7. Counted' /\ Succeeded'
    <2>1. /\ pc'[u] = "again" /\ pc'["scheduler"] = pc["scheduler"]
          /\ list'["scheduler"] = list["scheduler"]
        BY <1>0, <1>1 DEF Typed, TypeOK
    <2> QED
        BY <1>0, <1>1, <2>1, RequestExcuses
<1> QED
    BY <1>5, <1>6, <1>7 DEF RowsInv

LEMMA StopOldStep ==
    ASSUME RowsInv, NEW th \in Threads, NEW row, StopOld(th, row)
    PROVE  RowsInv'
<1> DEFINE new == [t |-> row.t, v |-> row.v, retries |-> row.retries, tries |-> 3]
<1>0. Typed /\ Known /\ Counted /\ Succeeded
    BY DEF RowsInv
<1>1. /\ UNCHANGED <<sjob, rerun, cancel, sv, left, pjob, held, round, cancels>>
      /\ pc[th] = "again" /\ row \in list[th]
      /\ list' = [list EXCEPT ![th] = @ \ {row}]
      /\ at' = [at EXCEPT ![th] = new]
      /\ pc' = [pc EXCEPT ![th] = "create"]
    BY DEF StopOld, rows
<1>2. PICK P \in Losses :
         /\ ts' = Stopped((Parties \ P) \X {<<row.t, Current(row.t)>>}, row.s)
         /\ lost' = lost + Cardinality(P)
    BY DEF StopOld, Lose
<1>3. row \in ListedRow
    BY <1>0, <1>1 DEF Typed
<1>4. /\ row.t \in Tasks /\ row.v \in Versions /\ row.s \in InterruptStatus
      /\ row.retries \in 0..AutoRetries
    BY <1>3 DEF ListedRow
<1>5. Stays
    BY <1>0, <1>2, <1>4, StopStays
<1>6. new \in Attempt /\ new.t \in Tasks /\ new.tries # 0
    BY <1>4 DEF Attempt
<1>7. Typed'
    <2>1. list' \in [Threads -> SUBSET ListedRow]
        BY <1>0, <1>1 DEF Typed
    <2>2. pc' \in [Threads -> Places]
        BY <1>0, <1>1 DEF Typed, TypeOK, Places
    <2>3. at' \in [Threads -> Attempt]
        BY <1>0, <1>1, <1>6 DEF Typed
    <2>4. \A o \in Threads : pc'[o] = "create" => at'[o].t \in Tasks /\ at'[o].tries # 0
        BY <1>0, <1>1, <1>6 DEF Typed, TypeOK
    <2>5. lost' \in Nat
        BY <1>0, <1>2, LossCounts DEF Typed
    <2>6. /\ rerun' \in BOOLEAN /\ cancel' \in BOOLEAN
          /\ sv' \in [Rows -> TaskStatus \cup {None}] /\ left' \in [Rows -> 0..AutoRetries]
          /\ ts' \in [Copies -> (TaskStatus \ {PASS}) \cup {None}]
        BY <1>0, <1>1, <1>5 DEF Typed, TypeOK, Stays
    <2> QED
        BY <1>0, <1>1, <2>1, <2>2, <2>3, <2>4, <2>5, <2>6, TypesAgain
<1>8. Known'
    BY <1>0, <1>1, <1>5 DEF Known, Stays, Copies
<1>9. CASE th \in Users
    <2>1. /\ th # "scheduler" /\ "scheduler" \in Threads
          /\ pc'[th] = "create" /\ pc'["scheduler"] = pc["scheduler"]
          /\ list'["scheduler"] = list["scheduler"]
        BY <1>0, <1>1, <1>9, SchedulerIsThread DEF Typed, TypeOK
    <2>2. Counted' /\ Succeeded'
        BY <1>0, <1>1, <1>9, <2>1, RequestExcuses
    <2> QED
        BY <1>7, <1>8, <2>2 DEF RowsInv
<1>10. CASE th = "scheduler"
    <2>1. /\ list'[th] = list[th] \ {row} /\ at'[th] = new
          /\ pc'[th] = "create" /\ \A u \in Users : pc'[u] = pc[u]
        BY <1>0, <1>1, <1>10, SchedulerIsThread DEF Typed, TypeOK
    <2>2. \A t \in Tasks : Current(t)' = Current(t)
        BY <1>0, <1>1, <1>7, CurrentKept DEF Kept, Typed, TypeOK
    <2>3. \A t \in Tasks : Made(t)' = Made(t) /\ Retries(t)' = Retries(t)
        BY <1>1, <2>2 DEF Made, Retries
    <2>4. \A r \in list[th] : r.t \in Tasks
        BY <1>0 DEF Typed, ListedRow
    <2>5. ASSUME Idle'
          PROVE  /\ \A t \in Tasks : Cardinality(Made(t)) + Retries(t) <= 1 + AutoRetries
                 /\ \A r \in list[th] : r.v = Current(r.t) /\ r.retries < Retries(r.t)
                 /\ \A a, b \in list[th] : a.t = b.t => a = b
        BY <1>0, <1>10, <2>1, <2>5 DEF Counted, Idle
    <2>6. /\ new.t = row.t /\ new.v = row.v /\ new.retries = row.retries
          /\ Current(row.t) \in Versions
        BY <1>0, <1>4, LatestVersion
    <2>7. Idle' => /\ new.v >= Current(new.t) /\ new.retries < Retries(new.t)
                   /\ \A r \in list[th] \ {row} : r.t # new.t
        BY <1>1, <2>5, <2>6, RerunAssumption DEF Versions
    <2>8. Counted'
        BY <1>4, <1>10, <2>1, <2>2, <2>3, <2>4, <2>5, <2>6, <2>7 DEF Counted
    <2>9. Succeeded'
        BY <1>0, <1>1, <1>10, <2>1 DEF Succeeded
    <2> QED
        BY <1>7, <1>8, <2>8, <2>9 DEF RowsInv
<1> QED
    BY <1>9, <1>10 DEF Threads

LEMMA SignalStep ==
    ASSUME RowsInv, NEW th \in Threads, SignalRerun(th)
    PROVE  RowsInv'
<1>0. Typed /\ Known /\ Counted /\ Succeeded
    BY DEF RowsInv
<1>1. /\ UNCHANGED <<sjob, sv, left, ts, pjob, held, list, at, round, lost, cancels>>
      /\ rerun' = TRUE /\ cancel' = FALSE /\ pc' = Over(th) /\ pc[th] = "again"
    BY DEF SignalRerun, rows, partyVars, counts
<1>2. round.then \in {"rerun", "waiting"}
    BY <1>0 DEF Typed, Round
<1>3. /\ pc' \in [Threads -> Places] /\ pc'[th] \in {"done", "rerun", "waiting"}
      /\ \A o \in Threads : o # th => pc'[o] = pc[o]
    BY <1>0, <1>1, <1>2 DEF Over, Typed, TypeOK, Places
<1>4. Typed'
    <2>1. \A o \in Threads : pc'[o] = "create" => at'[o].t \in Tasks /\ at'[o].tries # 0
        BY <1>0, <1>1, <1>3 DEF Typed
    <2>2. /\ sv' \in [Rows -> TaskStatus \cup {None}] /\ left' \in [Rows -> 0..AutoRetries]
          /\ ts' \in [Copies -> (TaskStatus \ {PASS}) \cup {None}] /\ at' \in [Threads -> Attempt]
          /\ list' \in [Threads -> SUBSET ListedRow] /\ lost' \in Nat
        BY <1>0, <1>1 DEF Typed, TypeOK
    <2> QED
        BY <1>0, <1>1, <1>3, <2>1, <2>2, TypesAgain
<1>5. Known'
    BY <1>0, <1>1 DEF Known
<1>6. Stays
    BY <1>0, <1>1, NothingStays
<1>7. pc'["scheduler"] = "create" => pc["scheduler"] = "create"
    BY <1>3, SchedulerIsThread
<1>8. Idle' => Idle
    BY <1>1, <1>3, SchedulerIsThread DEF Idle
<1>9. Counted'
    BY <1>0, <1>1, <1>6, <1>7, <1>8, RowsStay DEF rows
<1>10. Succeeded'
    <2>1. Excused'
        BY <1>1 DEF Excused
    <2>2. pc'["scheduler"] \in {"conclude", "again", "create"} => pc'["scheduler"] = pc["scheduler"]
        BY <1>3, SchedulerIsThread
    <2> QED
        BY <1>0, <1>1, <2>1, <2>2 DEF Succeeded
<1> QED
    BY <1>4, <1>5, <1>9, <1>10 DEF RowsInv

\* A version that is made is the latest one when its number is above all others.
LEMMA VersionMade ==
    ASSUME Typed, Known, NEW t \in Tasks, NEW v \in Versions, sv[<<t, v>>] = None,
           sv' = [sv EXCEPT ![<<t, v>>] = WAITING], v > Current(t)
    PROVE  /\ Current(t)' = v
           /\ \A u \in Tasks \ {t} : Current(u)' = Current(u)
           /\ Cardinality(Made(t)') = Cardinality(Made(t)) + 1 /\ Cardinality(Made(t)) \in Nat
           /\ \A u \in Tasks \ {t} : Made(u)' = Made(u)
<1>0. /\ <<t, v>> \in Rows /\ WAITING # None /\ WAITING \in TaskStatus
      /\ sv \in [Rows -> TaskStatus \cup {None}] /\ 0 \in Versions /\ MaxVersion \in Nat
    BY Statuses, RerunAssumption DEF Rows, Typed, TypeOK, Versions
<1>1. /\ sv' \in [Rows -> TaskStatus \cup {None}] /\ sv'[<<t, v>>] # None
      /\ \A r \in Rows : r # <<t, v>> => sv'[r] = sv[r]
    BY <1>0
<1>2. \A u \in Tasks, w \in Versions : <<u, w>> \in Rows
    BY DEF Rows
<1>3. \A u \in Tasks : sv'[<<u, 0>>] # None
    BY <1>0, <1>1, <1>2 DEF Known
<1>4. \A w \in Versions : w \in Int
    BY <1>0 DEF Versions
<1>5. Current(t)' = v
    <2>1. Current(t) \in Versions /\ \A w \in Versions : sv[<<t, w>>] # None => w <= Current(t)
        BY LatestVersion
    <2>2. ASSUME NEW w \in Versions, sv'[<<t, w>>] # None PROVE w <= v
        <3>1. CASE w = v
            BY <1>4, <3>1
        <3>2. CASE w # v
            <4>1. sv[<<t, w>>] # None
                BY <1>1, <1>2, <2>2, <3>2
            <4> QED
                BY <1>4, <2>1, <4>1
        <3> QED
            BY <3>1, <3>2
    <2>3. Top(sv', t, TaskStatus) = v
        BY <1>1, <1>3, <2>2, TopIs
    <2> QED
        BY <2>3, CurrentIsTop
<1>6. ASSUME NEW u \in Tasks \ {t} PROVE Current(u)' = Current(u)
    <2>1. /\ Current(u) \in Versions /\ sv[<<u, Current(u)>>] # None
          /\ \A w \in Versions : sv[<<u, w>>] # None => w <= Current(u)
        BY LatestVersion
    <2>2. \A w \in Versions : sv'[<<u, w>>] = sv[<<u, w>>]
        BY <1>1, <1>2
    <2>3. /\ sv'[<<u, Current(u)>>] # None
          /\ \A w \in Versions : sv'[<<u, w>>] # None => w <= Current(u)
        BY <2>1, <2>2
    <2>4. Top(sv', u, TaskStatus) = Current(u)
        BY <1>1, <1>3, <2>1, <2>3, TopIs
    <2> QED
        BY <2>4, CurrentIsTop
<1>7. Made(t)' = Made(t) \cup {v} /\ v \notin Made(t)
    BY <1>1, <1>2 DEF Made
<1>8. IsFiniteSet(Made(t))
    <2>1. IsFiniteSet(0..MaxVersion)
        BY <1>0, FS_Interval
    <2> QED
        BY <2>1, FS_Subset DEF Made, Versions
<1>9. Cardinality(Made(t)') = Cardinality(Made(t)) + 1 /\ Cardinality(Made(t)) \in Nat
    BY <1>7, <1>8, FS_AddElement, FS_CardinalityType
<1>10. \A u \in Tasks \ {t} : Made(u)' = Made(u)
    BY <1>1, <1>2 DEF Made
<1> QED
    BY <1>5, <1>6, <1>9, <1>10

\* The two ends of an attempt to make a version: all parties have answered, or not.
LEMMA CreateCases ==
    ASSUME Typed, NEW th \in Threads, CreateVersion(th)
    PROVE  LET t == at[th].t
               v == at[th].v + 1
           IN
           /\ t \in Tasks /\ v \in Versions /\ pc[th] = "create" /\ at[th].tries \in 1..3
           /\ UNCHANGED <<sjob, rerun, cancel, pjob, held, round, cancels>> /\ lost' \in Nat
           /\ ts' \in [Copies -> (TaskStatus \ {PASS}) \cup {None}]
           /\ \A x \in Copies : ts[x] # None => ts'[x] = ts[x]
           /\ \/ /\ \A p \in Parties : ts'[<<p, <<t, v>>>>] # None
                 /\ sv' = IF sv[<<t, v>>] = None THEN [sv EXCEPT ![<<t, v>>] = WAITING] ELSE sv
                 /\ left' = IF sv[<<t, v>>] = None THEN [left EXCEPT ![<<t, v>>] = at[th].retries]
                            ELSE left
                 /\ pc' = [pc EXCEPT ![th] = "again"] /\ UNCHANGED <<at, list>>
              \/ /\ UNCHANGED <<sv, left>>
                 /\ at' = [at EXCEPT ![th].v = v, ![th].tries = @ - 1]
                 /\ pc' = IF at[th].tries = 1 THEN Over(th) ELSE pc
                 /\ list' = IF at[th].tries = 1 THEN [list EXCEPT ![th] = {}] ELSE list
<1> DEFINE t == at[th].t
           v == at[th].v + 1
<1>1. /\ pc[th] = "create" /\ v <= MaxVersion
      /\ UNCHANGED <<sjob, rerun, cancel, pjob, held, round, cancels>>
    BY DEF CreateVersion, NextVersion
<1>2. /\ t \in Tasks /\ at[th].v \in Versions /\ at[th].tries \in 0..3 /\ at[th].tries # 0
    BY <1>1 DEF Typed, Attempt
<1>3. v \in Versions /\ at[th].tries \in 1..3
    BY <1>1, <1>2, RerunAssumption DEF Versions
<1>4. PICK missed \in Losses, unanswered \in Losses :
        /\ lost' = lost + Cardinality(missed \cup unanswered)
        /\ ts' = [x \in Copies |->
                    IF x[1] \notin missed /\ x[2] = <<t, v>> /\ ts[x] = None THEN WAITING ELSE ts[x]]
        /\ IF missed \cup unanswered = {}
           THEN /\ sv' = IF sv[<<t, v>>] = None THEN [sv EXCEPT ![<<t, v>>] = WAITING] ELSE sv
                /\ left' = IF sv[<<t, v>>] = None THEN [left EXCEPT ![<<t, v>>] = at[th].retries]
                           ELSE left
                /\ pc' = [pc EXCEPT ![th] = "again"]
                /\ UNCHANGED <<at, list>>
           ELSE /\ UNCHANGED rows
                /\ at' = [at EXCEPT ![th].v = v, ![th].tries = @ - 1]
                /\ pc' = IF at[th].tries = 1 THEN Over(th) ELSE pc
                /\ list' = IF at[th].tries = 1 THEN [list EXCEPT ![th] = {}] ELSE list
    BY Zenon DEF CreateVersion, NextVersion, Lose
<1> HIDE DEF t, v
<1>5. lost' \in Nat
    <2>1. missed \cup unanswered \in SUBSET Parties
        BY DEF Losses
    <2>2. Cardinality(missed \cup unanswered) \in Nat /\ lost \in Nat
        BY <2>1, SubsetFinite DEF Typed
    <2> QED
        BY <1>4, <2>2
<1>6. /\ WAITING \in TaskStatus \ {PASS} /\ WAITING # None
      /\ \A x \in Copies : ts[x] \in (TaskStatus \ {PASS}) \cup {None}
    BY Unpassed DEF Typed
<1>7. /\ ts' \in [Copies -> (TaskStatus \ {PASS}) \cup {None}]
      /\ \A x \in Copies : ts[x] # None => ts'[x] = ts[x]
    BY <1>4, <1>6
<1>8. missed = {} => \A p \in Parties : ts'[<<p, <<t, v>>>>] # None
    <2>1. \A p \in Parties : <<p, <<t, v>>>> \in Copies
        BY <1>2, <1>3 DEF Copies, Rows, t
    <2> QED
        BY <1>4, <1>6, <2>1
<1>9. \/ /\ \A p \in Parties : ts'[<<p, <<t, v>>>>] # None
         /\ sv' = IF sv[<<t, v>>] = None THEN [sv EXCEPT ![<<t, v>>] = WAITING] ELSE sv
         /\ left' = IF sv[<<t, v>>] = None THEN [left EXCEPT ![<<t, v>>] = at[th].retries]
                    ELSE left
         /\ pc' = [pc EXCEPT ![th] = "again"] /\ UNCHANGED <<at, list>>
      \/ /\ UNCHANGED <<sv, left>>
         /\ at' = [at EXCEPT ![th].v = v, ![th].tries = @ - 1]
         /\ pc' = IF at[th].tries = 1 THEN Over(th) ELSE pc
         /\ list' = IF at[th].tries = 1 THEN [list EXCEPT ![th] = {}] ELSE list
    <2>1. CASE missed \cup unanswered = {}
        <3>1. missed = {}
            BY <2>1
        <3> QED
            BY <1>4, <1>8, <2>1, <3>1
    <2>2. CASE missed \cup unanswered # {}
        BY <1>4, <2>2 DEF rows
    <2> QED
        BY <2>1, <2>2
<1> QED
    BY <1>1, <1>2, <1>3, <1>5, <1>7, <1>9 DEF t, v

LEMMA CreateTyped ==
    ASSUME Typed, Known, NEW th \in Threads, CreateVersion(th)
    PROVE  Typed' /\ Known'
<1> DEFINE t == at[th].t
           v == at[th].v + 1
<1>1. /\ t \in Tasks /\ v \in Versions /\ pc[th] = "create" /\ at[th].tries \in 1..3
      /\ UNCHANGED <<sjob, rerun, cancel, pjob, held, round, cancels>> /\ lost' \in Nat
      /\ ts' \in [Copies -> (TaskStatus \ {PASS}) \cup {None}]
      /\ \A x \in Copies : ts[x] # None => ts'[x] = ts[x]
    BY CreateCases
<1>2. \/ /\ \A p \in Parties : ts'[<<p, <<t, v>>>>] # None
         /\ sv' = IF sv[<<t, v>>] = None THEN [sv EXCEPT ![<<t, v>>] = WAITING] ELSE sv
         /\ left' = IF sv[<<t, v>>] = None THEN [left EXCEPT ![<<t, v>>] = at[th].retries]
                    ELSE left
         /\ pc' = [pc EXCEPT ![th] = "again"] /\ UNCHANGED <<at, list>>
      \/ /\ UNCHANGED <<sv, left>>
         /\ at' = [at EXCEPT ![th].v = v, ![th].tries = @ - 1]
         /\ pc' = IF at[th].tries = 1 THEN Over(th) ELSE pc
         /\ list' = IF at[th].tries = 1 THEN [list EXCEPT ![th] = {}] ELSE list
    BY CreateCases
<1>3. /\ at[th] \in Attempt /\ at \in [Threads -> Attempt] /\ list \in [Threads -> SUBSET ListedRow]
      /\ pc \in [Threads -> Places] /\ round.then \in {"rerun", "waiting"}
      /\ sv \in [Rows -> TaskStatus \cup {None}] /\ left \in [Rows -> 0..AutoRetries]
      /\ rerun' \in BOOLEAN /\ cancel' \in BOOLEAN
      /\ \A o \in Threads : pc[o] = "create" => at[o].t \in Tasks /\ at[o].tries # 0
    BY <1>1 DEF Typed, TypeOK, Places, Round
<1>4. at[th].retries \in 0..AutoRetries /\ WAITING \in TaskStatus /\ <<t, v>> \in Rows
    BY <1>1, <1>3, Statuses DEF Attempt, Rows
<1>5. Over(th) \in [Threads -> Places] /\ Over(th)[th] # "create"
      /\ \A o \in Threads : o # th => Over(th)[o] = pc[o]
    BY <1>3 DEF Over, Places
<1>6. at[th].tries - 1 \in 0..3 /\ (at[th].tries # 1 => at[th].tries - 1 # 0)
    BY <1>1
<1> HIDE DEF t, v
<1>7. /\ sv' \in [Rows -> TaskStatus \cup {None}] /\ left' \in [Rows -> 0..AutoRetries]
      /\ list' \in [Threads -> SUBSET ListedRow] /\ pc' \in [Threads -> Places]
    BY <1>2, <1>3, <1>4, <1>5 DEF Places
<1>8. /\ at' \in [Threads -> Attempt]
      /\ \A o \in Threads : pc'[o] = "create" => at'[o].t \in Tasks /\ at'[o].tries # 0
    <2>1. CASE UNCHANGED at /\ pc' = [pc EXCEPT ![th] = "again"]
        BY <1>3, <2>1
    <2>2. CASE /\ at' = [at EXCEPT ![th].v = v, ![th].tries = @ - 1]
               /\ pc' = IF at[th].tries = 1 THEN Over(th) ELSE pc
        <3>1. [at[th] EXCEPT !.v = v, !.tries = @ - 1] \in Attempt
            BY <1>1, <1>3, <1>6 DEF Attempt
        <3>2. /\ at'[th] = [at[th] EXCEPT !.v = v, !.tries = @ - 1]
              /\ at'[th].t = at[th].t /\ at'[th].tries = at[th].tries - 1
              /\ \A o \in Threads : o # th => at'[o] = at[o]
            BY <1>3, <2>2 DEF Attempt
        <3>3. at' \in [Threads -> Attempt]
            BY <1>3, <2>2, <3>1, <3>2
        <3> QED
            BY <1>1, <1>3, <1>5, <1>6, <2>2, <3>2, <3>3 DEF t
    <2> QED
        BY <1>2, <2>1, <2>2
<1>9. Typed'
    BY <1>1, <1>3, <1>7, <1>8, TypesAgain
<1>10. Known'
    <2>1. \A r \in Rows : sv'[r] # None => sv[r] # None \/ (r = <<t, v>> /\ \A p \in Parties : ts'[<<p, r>>] # None)
        BY <1>2, <1>3
    <2>2. \A r \in Rows : sv[r] # None => sv'[r] # None
        BY <1>2, <1>3, Statuses
    <2>3. \A u \in Tasks : <<u, 0>> \in Rows
        BY RerunAssumption DEF Rows, Versions
    <2>4. \A p \in Parties, r \in Rows : ts[<<p, r>>] # None => ts'[<<p, r>>] # None
        BY <1>1 DEF Copies
    <2> QED
        BY <2>1, <2>2, <2>3, <2>4 DEF Known
<1> QED
    BY <1>9, <1>10

LEMMA CreateStep ==
    ASSUME RowsInv, NEW th \in Threads, CreateVersion(th)
    PROVE  RowsInv'
<1>0. Typed /\ Known /\ Counted /\ Succeeded
    BY DEF RowsInv
<1>1. PICK t \in Tasks, v \in Versions : t = at[th].t /\ v = at[th].v + 1
    BY <1>0, CreateCases
<1>2. Typed' /\ Known'
    BY <1>0, CreateTyped
<1>3. /\ pc[th] = "create" /\ at[th].tries \in 1..3
      /\ UNCHANGED <<sjob, rerun, cancel, pjob, held, round, cancels>>
      /\ ts' \in [Copies -> (TaskStatus \ {PASS}) \cup {None}]
      /\ \A x \in Copies : ts[x] # None => ts'[x] = ts[x]
    BY <1>0, <1>1, CreateCases
<1>4. \/ /\ sv' = IF sv[<<t, v>>] = None THEN [sv EXCEPT ![<<t, v>>] = WAITING] ELSE sv
         /\ left' = IF sv[<<t, v>>] = None THEN [left EXCEPT ![<<t, v>>] = at[th].retries]
                    ELSE left
         /\ pc' = [pc EXCEPT ![th] = "again"] /\ UNCHANGED <<at, list>>
      \/ /\ UNCHANGED <<sv, left>>
         /\ at' = [at EXCEPT ![th].v = v, ![th].tries = @ - 1]
         /\ pc' = IF at[th].tries = 1 THEN Over(th) ELSE pc
         /\ list' = IF at[th].tries = 1 THEN [list EXCEPT ![th] = {}] ELSE list
    BY <1>0, <1>1, CreateCases
<1>5. /\ at[th] \in Attempt /\ at \in [Threads -> Attempt] /\ list \in [Threads -> SUBSET ListedRow]
      /\ DOMAIN pc = Threads /\ round.then \in {"rerun", "waiting"}
      /\ left \in [Rows -> 0..AutoRetries] /\ <<t, v>> \in Rows
      /\ at[th].v \in Int /\ at[th].tries \in Int
    BY <1>0, <1>3, RerunAssumption DEF Typed, TypeOK, Round, Rows, Versions, Attempt
<1>6. /\ \A o \in Threads : o # th => pc'[o] = pc[o] /\ list'[o] = list[o] /\ at'[o] = at[o]
      /\ list'[th] \in {list[th], {}}
      /\ \/ pc'[th] = "again" /\ at'[th] = at[th]
         \/ /\ at'[th] = [at[th] EXCEPT !.v = v, !.tries = @ - 1]
            /\ \/ at[th].tries # 1 /\ pc'[th] = "create"
               \/ at[th].tries = 1 /\ pc'[th] = IF th \in Users THEN "done" ELSE round.then
    BY <1>3, <1>4, <1>5 DEF Over
<1>7. CASE th \in Users
    <2>1. th # "scheduler" /\ "scheduler" \in Threads
        BY <1>7, SchedulerIsThread
    <2>2. pc'[th] \in {"again", "create"} \/ GaveUp(th)'
        <3>1. CASE pc'[th] = "again" \/ pc'[th] = "create"
            BY <3>1
        <3>2. CASE at[th].tries = 1 /\ pc'[th] = "done" /\ at'[th] = [at[th] EXCEPT !.v = v, !.tries = @ - 1]
            BY <1>5, <3>2 DEF GaveUp, Attempt
        <3> QED
            BY <1>6, <1>7, <3>1, <3>2
    <2>3. pc'[th] # "idle"
        BY <2>2 DEF GaveUp
    <2>4. Counted' /\ Succeeded'
        BY <1>0, <1>3, <1>6, <1>7, <2>1, <2>2, <2>3, RequestExcuses
    <2> QED
        BY <1>2, <2>4 DEF RowsInv
<1>8. CASE th = "scheduler"
    <2>1. /\ \A u \in Users : pc'[u] = pc[u] /\ "scheduler" \notin Users
          /\ pc'[th] \in {"again", "create", "rerun", "waiting"}
        BY <1>5, <1>6, <1>8, SchedulerIsThread
    <2>2. Succeeded'
        BY <1>0, <1>3, <1>8, <2>1 DEF Succeeded
    <2>3. ASSUME Idle'
          PROVE  /\ \A u \in Tasks : Cardinality(Made(u)) + Retries(u) <= 1 + AutoRetries
                 /\ \A r \in list[th] : r.v = Current(r.t) /\ r.retries < Retries(r.t)
                 /\ \A a, b \in list[th] : a.t = b.t => a = b
                 /\ at[th].v >= Current(t) /\ at[th].retries < Retries(t)
                 /\ \A r \in list[th] : r.t # t
        BY <1>0, <1>3, <1>8, <1>1, <2>1, <2>3 DEF Counted, Idle
    <2>4. \A r \in list[th] : r.t \in Tasks
        BY <1>5 DEF ListedRow
    <2>5. \A u \in Tasks : Current(u) \in Int
        <3>1. \A w \in Versions : w \in Int
            BY RerunAssumption DEF Versions
        <3> QED
            BY <1>0, <3>1, LatestVersion
    <2>6. CASE sv' = sv /\ left' = left
        <3>1. \A u \in Tasks : Current(u)' = Current(u)
            BY <1>0, <2>6, CurrentKept DEF Kept, Typed, TypeOK
        <3>2. \A u \in Tasks : Made(u)' = Made(u) /\ Retries(u)' = Retries(u)
            BY <2>6, <3>1 DEF Made, Retries
        <3>3. pc'[th] = "create" => at'[th].t = t /\ at'[th].v = v /\ at'[th].retries = at[th].retries
            BY <1>5, <1>6, <1>8, <1>1, <2>1 DEF Attempt
        <3>4. Idle' => v >= Current(t)
            BY <1>5, <1>1, <2>3, <2>5
        <3>5. Counted'
            BY <1>3, <1>6, <1>8, <2>3, <2>4, <3>1, <3>2, <3>3, <3>4 DEF Counted
        <3> QED
            BY <1>2, <2>2, <3>5 DEF RowsInv
    <2>7. CASE ~(sv' = sv /\ left' = left)
        <3>1. /\ sv[<<t, v>>] = None /\ sv' = [sv EXCEPT ![<<t, v>>] = WAITING]
              /\ left' = [left EXCEPT ![<<t, v>>] = at[th].retries]
              /\ pc'[th] = "again" /\ list'[th] = list[th]
            BY <1>4, <1>5, <2>7
        <3>2. ASSUME Idle'
              PROVE  /\ \A u \in Tasks : Cardinality(Made(u)') + Retries(u)' <= 1 + AutoRetries
                     /\ \A r \in list[th] : r.v = Current(r.t)' /\ r.retries < Retries(r.t)'
            <4>1. v > Current(t)
                BY <1>5, <1>1, <2>3, <2>5, <3>2
            <4>2. /\ Current(t)' = v /\ \A u \in Tasks \ {t} : Current(u)' = Current(u)
                  /\ Cardinality(Made(t)') = Cardinality(Made(t)) + 1 /\ Cardinality(Made(t)) \in Nat
                  /\ \A u \in Tasks \ {t} : Made(u)' = Made(u)
                BY <1>0, <1>3, <3>1, <4>1, VersionMade
            <4>3. Retries(t)' = at[th].retries
                BY <1>5, <3>1, <4>2 DEF Retries
            <4>4. \A u \in Tasks \ {t} : Retries(u)' = Retries(u)
                BY <1>5, <3>1, <4>2 DEF Retries
            <4>5. Retries(t) \in Int /\ at[th].retries \in Int /\ AutoRetries \in Int
                <5>1. <<t, Current(t)>> \in Rows
                    BY <1>0, <1>3, LatestVersion
                <5> QED
                    BY <1>5, <5>1, RerunAssumption DEF Retries, Attempt
            <4>6. Cardinality(Made(t)') + Retries(t)' <= 1 + AutoRetries
                <5>1. Cardinality(Made(t)) + Retries(t) <= 1 + AutoRetries /\ at[th].retries < Retries(t)
                    BY <1>3, <2>3, <3>2
                <5>2. \A c \in Nat : \A a, b, k \in Int :
                         c + b <= 1 + k /\ a < b => (c + 1) + a <= 1 + k
                    OBVIOUS
                <5> QED
                    BY <4>2, <4>3, <4>5, <5>1, <5>2
            <4>7. ASSUME NEW u \in Tasks PROVE Cardinality(Made(u)') + Retries(u)' <= 1 + AutoRetries
                BY <2>3, <3>2, <4>2, <4>4, <4>6
            <4> QED
                BY <2>3, <2>4, <3>2, <4>2, <4>4, <4>7
        <3>3. Idle' => \A a, b \in list[th] : a.t = b.t => a = b
            BY <2>3
        <3>4. Counted'
            BY <1>8, <3>1, <3>2, <3>3 DEF Counted
        <3> QED
            BY <1>2, <2>2, <3>4 DEF RowsInv
    <2> QED
        BY <2>6, <2>7
<1> QED
    BY <1>7, <1>8 DEF Threads

LEMMA NextRows == RowsInv /\ [Next]_vars => RowsInv'
<1> SUFFICES ASSUME RowsInv, [Next]_vars PROVE RowsInv'
    OBVIOUS
<1>1. CASE Scheduler
    <2>1. CASE ScheduleRunning
        <3>1. Schedule("rerun") /\ rerun' \in BOOLEAN /\ sjob # SUCCESS
            BY <2>1 DEF ScheduleRunning, RowsInv, Typed, TypeOK, RUNNING, SUCCESS
        <3> QED
            BY <3>1, ScheduleStep
    <2>2. CASE ScheduleRerun
        <3>1. Schedule("waiting") /\ rerun' \in BOOLEAN /\ sjob # SUCCESS
            BY <2>2, Unpassed DEF ScheduleRerun
        <3> QED
            BY <3>1, ScheduleStep
    <2> QED
        BY <1>1, <2>1, <2>2, PartiesStep, OthersStep, ConcludeStep DEF Scheduler
<1>2. CASE Cancel
    BY <1>2, CancelStep
<1>3. CASE \E p \in Parties : ReturnUnused(p)
    BY <1>3, OthersStep
<1>4. CASE \E th \in Threads : Rerunning(th)
    BY <1>4, StopOldStep, CreateStep, SignalStep DEF Rerunning
<1>5. CASE \E u \in Users : RequestRerun(u)
    BY <1>5, RequestStep
<1>6. CASE \E x \in Copies : EndTask(x, SUCCESS) \/ EndTask(x, FAILED)
    BY <1>6, EndTaskStep
<1>7. CASE UNCHANGED vars
    <2>1. UNCHANGED <<sjob, rerun, cancel, sv, left, ts, pjob, held, pc, list, at, round, lost, cancels>>
        BY <1>7 DEF vars, rows, partyVars, threadVars, counts
    <2>2. Typed /\ Known /\ Counted /\ Succeeded
        BY DEF RowsInv
    <2>3. Typed' /\ Known'
        BY <2>1, <2>2 DEF Typed, TypeOK, Known
    <2>4. Stays
        BY <2>1, <2>2, NothingStays
    <2>5. Counted' /\ (Fresh => Fresh')
        BY <2>1, <2>2, <2>4, RowsStay DEF rows, Idle
    <2>6. Succeeded'
        BY <2>1, <2>2, <2>5, SuccessStays
    <2> QED
        BY <2>3, <2>5, <2>6 DEF RowsInv
<1> QED
    BY <1>1, <1>2, <1>3, <1>4, <1>5, <1>6, <1>7 DEF Next

LEMMA RowsAreRight == RowsInv => RerunInv
<1> SUFFICES ASSUME RowsInv PROVE RerunInv
    OBVIOUS
<1>0. Typed /\ Known /\ Counted /\ Succeeded
    BY DEF RowsInv
<1>1. TypeOK
    BY <1>0 DEF Typed
<1>2. RetriesAreCounted
    <2> SUFFICES ASSUME Idle, NEW t \in Tasks
                 PROVE  Cardinality({v \in Versions : sv[<<t, v>>] # None}) <= 1 + AutoRetries
        BY DEF RetriesAreCounted, Idle
    <2>1. Cardinality(Made(t)) + Retries(t) <= 1 + AutoRetries
        BY <1>0 DEF Counted
    <2>2. Retries(t) \in Nat
        BY <1>0, LatestVersion, RerunAssumption DEF Retries, Typed, TypeOK
    <2>3. Cardinality(Made(t)) \in Nat
        <3>1. IsFiniteSet(0..MaxVersion)
            BY RerunAssumption, FS_Interval
        <3>2. IsFiniteSet(Made(t))
            BY <3>1, FS_Subset DEF Made, Versions
        <3> QED
            BY <3>2, FS_CardinalityType
    <2>4. AutoRetries \in Nat
        BY RerunAssumption
    <2> QED
        BY <2>1, <2>2, <2>3, <2>4 DEF Made
<1>3. SuccessIsCurrent
    <2> SUFFICES ASSUME sjob = SUCCESS, ~rerun, Quiet, \A u \in Users : ~GaveUp(u)
                 PROVE  Fresh
        BY DEF SuccessIsCurrent, Fresh
    <2>1. ~Excused
        BY SchedulerIsThread DEF Excused, Quiet
    <2> QED
        BY <1>0, <2>1 DEF Succeeded
<1> QED
    BY <1>1, <1>2, <1>3 DEF RerunInv

-----------------------------------------------------------------------------
\* The rows of the tasks are what they are taken for: every new version the scheduler makes
\* of its own costs one of the task's retries, and a job that is SUCCESS has succeeded in
\* the latest version of every task.
THEOREM RowsHold == Spec => []RerunInv
  BY InitRows, NextRows, RowsAreRight, PTL DEF Spec

=============================================================================
