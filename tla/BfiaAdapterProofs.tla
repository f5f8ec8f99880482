-------------------------- MODULE BfiaAdapterProofs --------------------------
(***************************************************************************)
(* What the BFIA adapter promises, for any job, any number of parties and  *)
(* any number of lost calls, failed containers and requests to stop: a     *)
(* task that the scheduler counts as SUCCESS is done at every role and its *)
(* outputs are stored, a component starts only with its inputs in the      *)
(* store, and a job that ends by itself leaves nothing running behind.     *)
(*                                                                         *)
(* The scheduler acts on what it has in memory, on rows of its own that    *)
(* polls fill in, and through calls that are made one by one, some of them *)
(* twice.  So the invariant says what each of these is worth: what the     *)
(* scheduler knows of a task is true at the parties, the calls under way   *)
(* are still the right ones to make, and those of the round fit where the  *)
(* round is.                                                               *)
(***************************************************************************)
EXTENDS BfiaAdapter, FiniteSetTheorems, SequenceTheorems, TLAPS

(* The inductive invariant *)

\* The container has not ended yet.
Alive == {"work", "push", "ok", "failed"}

\* Every role has its row of the task; has stored its outputs; has also reported it.
Begun(t) == \A x \in Runs : x[1] = t => row[x] # None
Stored(t) == \A r \in RolesOf[t] : <<t, r>> \in outs
Real(t) == \A r \in RolesOf[t] : row[<<t, r>>] = "SUCCESS" /\ <<t, r>> \in outs

\* A role at a time: no container and no thread that kills it without a row, no success
\* without outputs, and no component at work without its inputs.
RunsFit ==
    \A x \in Runs :
        /\ row[x] \in {None, "RUNNING", "SUCCESS", "FAILED"}
        /\ row[x] = None => box[x] = None /\ x \notin killing
        /\ row[x] = "SUCCESS" \/ box[x] = "ok" => x \in outs
        /\ box[x] = "work" => \A d \in Inputs(x) : <<d, x[2]>> \in outs

\* What the scheduler has of a task, in its rows and in the memory of the round, is true
\* at the parties.
KnownTask(t) ==
    /\ sstat[t] = "RUNNING" \/ mem[t] = "RUNNING" => Begun(t)
    /\ sstat[t] = "SUCCESS" \/ mem[t] = "SUCCESS" => Real(t)
    /\ \A p \in Parties :
         /\ srow[<<t, p>>] \notin {None, "READY"} => Begun(t)
         /\ srow[<<t, p>>] = "SUCCESS" => \A x \in Runs : x[1] = t /\ PartyOf[x[2]] = p => row[x] = "SUCCESS"
TasksKnown == \A t \in Tasks : KnownTask(t)

\* All tasks are created together, and before the first round.
Created == \A t \in Tasks : sstat[t] # None /\ \A p \in PartiesOf(t) : srow[<<t, p>>] # None
TasksCreated ==
    /\ Created \/ \A t \in Tasks : sstat[t] = None
    /\ at \notin {"idle", "starting"} => Created

\* A call under way, or still to be made, is right to make, also the second time: a task
\* that is polled has begun, one that is started has its inputs.
Sound(c) ==
    /\ c.op = "poll" => c.t \in Tasks /\ Begun(c.t)
    /\ c.op = "start task" => c.t \in Tasks /\ \A d \in Deps[c.t] : Stored(d)
CallsSound ==
    /\ \A th \in Threads : \A i \in DOMAIN calls[th] : Sound(calls[th][i])
    /\ \A i \in DOMAIN calls["create"] : calls["create"][i].op = "create"
    /\ \A i \in DOMAIN calls["stop"] : calls["stop"][i].op = "stop"

\* The calls of the round are those of the place it is at.  While a task is started and no
\* party has failed to, each has the rows of it or is still to be called.
Open(th, p) == \E i \in DOMAIN calls[th] : calls[th][i].p = p
OfPhase(c) ==
    /\ at = "starting" => c.op = "start job"
    /\ at \in {"tasks", "start"} => c.op = "stop"
    /\ at = "sync" => c.op = "poll"
    /\ at = "started" => c.op = "start task" /\ c.t = Head(left)
    /\ at = "finish" => c.op = "stop" /\ c.t = All
RoundFits ==
    /\ at = "idle" => calls["round"] = <<>>
    /\ at \in {"sync", "started"} => left # <<>>
    /\ \A i \in DOMAIN calls["round"] : OfPhase(calls["round"][i])
    /\ at = "started" /\ ~bad["round"] =>
         \A x \in Runs : x[1] = Head(left) => row[x] # None \/ Open("round", PartyOf[x[2]])

\* While nothing was lost and nobody asked to stop: a row that is RUNNING has a container
\* that runs, so that no detector stops the job, the status of the job goes with the round,
\* and a container that runs when the job ends is being killed or is about to be.
Calm == faults = 0 /\ stops = 0
CalmFits ==
    Calm =>
    /\ ~stopping /\ calls["stop"] = <<>>
    /\ \A x \in Runs : row[x] = "RUNNING" => box[x] \in Alive
    /\ at = "starting" => sjob = "READY"
    /\ at \notin {"idle", "starting"} => sjob = "RUNNING"
    /\ sjob = "FINISHED" => \A x \in Runs : box[x] \in Alive => x \in killing
    /\ at = "finish" => \A x \in Runs : box[x] \in Alive => x \in killing \/ Open("round", PartyOf[x[2]])

\* BfiaInv alone is not inductive: a poll, a start or a stop that is still to be made would
\* be the next step to break it.
BfiaInductive == TypeOK /\ RunsFit /\ TasksKnown /\ TasksCreated /\ CallsSound /\ RoundFits /\ CalmFits
-----------------------------------------------------------------------------
(* Lemmas about sets of parties, sequences of calls and statuses *)

\* The order a set of nodes is called in: each once.
LEMMA OrderOfSet ==
    ASSUME NEW S, IsFiniteSet(S)
    PROVE  /\ SetToSeq(S) \in Seq(S)
           /\ DOMAIN SetToSeq(S) = 1..Cardinality(S)
           /\ \A s \in S : \E i \in DOMAIN SetToSeq(S) : SetToSeq(S)[i] = s
<1> DEFINE D == 1..Cardinality(S)
<1>1. Cardinality(S) \in Nat /\ ExistsBijection(D, S)
    BY FS_CardinalityType
<1>2. PICK g : g \in Bijection(D, S)
    BY <1>1 DEF ExistsBijection
<1>3. g \in [D -> S] /\ IsInjective(g)
    BY <1>2 DEF Bijection, Injection
<1>4. SetToSeq(S) \in [D -> S] /\ IsInjective(SetToSeq(S))
    BY <1>3, Zenon DEF SetToSeq
<1>5. SetToSeq(S) \in Injection(D, S)
    BY <1>4 DEF Injection
<1>6. Cardinality(D) = Cardinality(S)
    BY <1>1, FS_Interval
<1>7. SetToSeq(S) \in Surjection(D, S)
    BY <1>5, <1>6, FS_Injection
<1>8. \A s \in S : \E i \in D : SetToSeq(S)[i] = s
    BY <1>7 DEF Surjection
<1> QED
    BY <1>1, <1>4, <1>8

\* What a job consists of is finite, and a task runs at one party at least.
LEMMA FiniteParts ==
    /\ IsFiniteSet(Parties) /\ IsFiniteSet(Tasks) /\ IsFiniteSet(Runs)
    /\ \A t \in Tasks : IsFiniteSet(PartiesOf(t)) /\ PartiesOf(t) \subseteq Parties /\ PartiesOf(t) # {}
<1>1. IsFiniteSet(Parties)
  <2>1. [r \in Roles |-> PartyOf[r]] \in Surjection(Roles, Parties)
      BY DEF Surjection, Parties
  <2> QED
      BY <2>1, FS_Surjection, BfiaAssumption
<1>2. IsFiniteSet(Tasks)
  <2>1. DOMAIN TaskSeq = 1..Len(TaskSeq) /\ Len(TaskSeq) \in Nat
      BY BfiaAssumption, LenProperties
  <2>2. IsFiniteSet(DOMAIN TaskSeq)
      BY <2>1, FS_Interval
  <2>3. TaskSeq \in Surjection(DOMAIN TaskSeq, Tasks)
    <3>1. TaskSeq \in [DOMAIN TaskSeq -> Tasks]
        BY BfiaAssumption, LenProperties, <2>1
    <3> QED
        BY <3>1 DEF Surjection, Tasks, Range
  <2> QED
      BY <2>2, <2>3, FS_Surjection
<1>3. IsFiniteSet(Runs)
  <2>1. IsFiniteSet(Tasks \X Roles)
      BY <1>2, BfiaAssumption, FS_Product
  <2>2. Runs \subseteq Tasks \X Roles
      BY DEF Runs
  <2> QED
      BY <2>1, <2>2, FS_Subset
<1>4. ASSUME NEW t \in Tasks
      PROVE  IsFiniteSet(PartiesOf(t)) /\ PartiesOf(t) \subseteq Parties /\ PartiesOf(t) # {}
  <2>1. RolesOf[t] \subseteq Roles /\ RolesOf[t] # {}
      BY BfiaAssumption
  <2>2. PartiesOf(t) \subseteq Parties /\ PartiesOf(t) # {}
      BY <2>1 DEF PartiesOf, Parties
  <2> QED
      BY <2>2, <1>1, FS_Subset
<1> QED
    BY <1>1, <1>2, <1>3, <1>4

\* A run is a task at one of the roles that run it, at the party of the role.
LEMMA RunParts ==
    ASSUME NEW x \in Runs
    PROVE  /\ x = <<x[1], x[2]>> /\ x[1] \in Tasks /\ x[2] \in Roles /\ x[2] \in RolesOf[x[1]]
           /\ PartyOf[x[2]] \in PartiesOf(x[1]) /\ PartyOf[x[2]] \in Parties
  BY DEF Runs, PartiesOf, Parties

LEMMA RunOf ==
    ASSUME NEW t \in Tasks, NEW r \in RolesOf[t]
    PROVE  <<t, r>> \in Runs
  BY BfiaAssumption DEF Runs

\* A function on 1..n is a sequence.
LEMMA FunIsSeq ==
    ASSUME NEW S, NEW n \in Nat, NEW f \in [1..n -> S]
    PROVE  f \in Seq(S) /\ DOMAIN f = 1..n
  OBVIOUS

\* The kinds of call, and what they may name.
Kinds == {"create", "start job", "start task", "poll", "stop"}
Named == Tasks \cup {All}

\* Calls of one kind, to each of the nodes.
CallsTo(cs, op, nodes, t) ==
    /\ cs \in Seq(Call)
    /\ \A i \in DOMAIN cs : cs[i].op = op /\ cs[i].t = t
    /\ \A p \in nodes : \E i \in DOMAIN cs : cs[i].p = p

\* To makes just these calls.
LEMMA ToNodes ==
    ASSUME NEW op \in Kinds, NEW nodes \in SUBSET Parties, NEW t \in Named
    PROVE  CallsTo(To(op, nodes, t), op, nodes, t)
<1> DEFINE order == SetToSeq(nodes)
           call(i) == [op |-> op, p |-> order[i], t |-> t]
<1>1. IsFiniteSet(nodes)
    BY FiniteParts, FS_Subset
<1>2. /\ order \in Seq(nodes) /\ DOMAIN order = 1..Cardinality(nodes)
      /\ \A s \in nodes : \E i \in DOMAIN order : order[i] = s
    BY <1>1, OrderOfSet
<1>3. Cardinality(nodes) \in Nat
    BY <1>1, FS_CardinalityType
<1>4. To(op, nodes, t) = [i \in 1..Cardinality(nodes) |-> call(i)]
    BY <1>2 DEF To
<1>5. \A i \in 1..Cardinality(nodes) : order[i] \in nodes
    BY <1>2, ElementOfSeq, LenProperties
<1>6. \A i \in 1..Cardinality(nodes) : call(i) \in Call
    BY <1>5 DEF Call, Kinds, Named
<1>7. To(op, nodes, t) \in Seq(Call)
  <2>1. To(op, nodes, t) \in [1..Cardinality(nodes) -> Call]
      BY <1>4, <1>6, Zenon
  <2> HIDE DEF To, order
  <2> QED
      BY <2>1, <1>3, FunIsSeq
<1>8. \A i \in 1..Cardinality(nodes) :
        To(op, nodes, t)[i].op = op /\ To(op, nodes, t)[i].t = t /\ To(op, nodes, t)[i].p = order[i]
  <2> SUFFICES ASSUME NEW i \in 1..Cardinality(nodes)
               PROVE  /\ To(op, nodes, t)[i].op = op /\ To(op, nodes, t)[i].t = t
                      /\ To(op, nodes, t)[i].p = order[i]
      BY Zenon
  <2>1. To(op, nodes, t)[i] = call(i)
      BY <1>4, Zenon
  <2>2. call(i).op = op /\ call(i).t = t /\ call(i).p = order[i]
      OBVIOUS
  <2> QED
      BY <2>1, <2>2, Zenon
<1>9. DOMAIN To(op, nodes, t) = 1..Cardinality(nodes)
    BY <1>4
<1>10. \A p \in nodes : \E i \in DOMAIN To(op, nodes, t) : To(op, nodes, t)[i].p = p
    BY <1>2, <1>8, <1>9, Zenon
<1> QED
    BY <1>7, <1>8, <1>9, <1>10, Zenon DEF CallsTo

\* What remains of the calls of a thread when one has been made.
LEMMA TailCalls ==
    ASSUME NEW s \in Seq(Call), s # <<>>
    PROVE  /\ Head(s) \in Call /\ Tail(s) \in Seq(Call) /\ Head(s) = s[1] /\ 1 \in DOMAIN s
           /\ \A i \in DOMAIN Tail(s) : i + 1 \in DOMAIN s /\ Tail(s)[i] = s[i + 1]
           /\ \A i \in DOMAIN s : s[i] = Head(s) \/ \E j \in DOMAIN Tail(s) : Tail(s)[j] = s[i]
<1>1. /\ Head(s) \in Call /\ Tail(s) \in Seq(Call)
      /\ Len(Tail(s)) = Len(s) - 1
      /\ \A i \in 1..Len(Tail(s)) : Tail(s)[i] = s[i + 1]
    BY HeadTailProperties
<1>2. DOMAIN s = 1..Len(s) /\ Len(s) \in Nat /\ DOMAIN Tail(s) = 1..Len(Tail(s)) /\ Len(s) # 0 /\ Head(s) = s[1]
    BY <1>1, LenProperties, EmptySeq
<1>3. ASSUME NEW i \in DOMAIN s PROVE s[i] = Head(s) \/ \E j \in DOMAIN Tail(s) : Tail(s)[j] = s[i]
  <2>1. CASE i = 1
      BY <2>1, <1>2
  <2>2. CASE i # 1
    <3>1. i - 1 \in 1..Len(Tail(s)) /\ (i - 1) + 1 = i
        BY <2>2, <1>1, <1>2
    <3> QED
        BY <3>1, <1>1, <1>2
  <2> QED
      BY <2>1, <2>2
<1> QED
    BY <1>1, <1>2, <1>3

\* What the status over several is: one of theirs, and SUCCESS when it is that of all.
LEMMA StatusOver ==
    ASSUME NEW S \in SUBSET (TaskStatus), S # {}
    PROVE  /\ TaskStatusOver(S) \in S
           /\ TaskStatusOver(S) = "SUCCESS" => S = {"SUCCESS"}
<1> DEFINE Prefer == <<"FAILED", "RUNNING", "READY", "PENDING", "SUCCESS">>
           I == {i \in DOMAIN Prefer : Prefer[i] \in S}
<1>1. DOMAIN Prefer = 1..5
    OBVIOUS
<1>2. I \subseteq 1..5 /\ I # {}
  <2>1. I \subseteq 1..5
      BY <1>1
  <2>2. PICK s \in S : s \in TaskStatus
      OBVIOUS
  <2>3. \E i \in 1..5 : Prefer[i] = s
    <3>1. Prefer[1] = "FAILED" /\ Prefer[2] = "RUNNING" /\ Prefer[3] = "READY" /\ Prefer[4] = "PENDING" /\ Prefer[5] = "SUCCESS"
        OBVIOUS
    <3> QED
        BY <2>2, <3>1 DEF TaskStatus
  <2> QED
      BY <2>1, <2>2, <2>3, <1>1
<1>3. \E m \in I : \A y \in I : m =< y
  <2> HIDE DEF I
  <2>1. CASE 1 \in I BY <2>1, <1>2
  <2>2. CASE 1 \notin I /\ 2 \in I BY <2>2, <1>2
  <2>3. CASE 1 \notin I /\ 2 \notin I /\ 3 \in I BY <2>3, <1>2
  <2>4. CASE 1 \notin I /\ 2 \notin I /\ 3 \notin I /\ 4 \in I BY <2>4, <1>2
  <2>5. CASE 1 \notin I /\ 2 \notin I /\ 3 \notin I /\ 4 \notin I
    <3>1. \A y \in I : y = 5
        BY <2>5, <1>2
    <3>2. 5 \in I
        BY <3>1, <1>2, Zenon
    <3> QED
        BY <3>1, <3>2
  <2> QED BY <2>1, <2>2, <2>3, <2>4, <2>5
<1>4. Min(I) \in I /\ \A y \in I : Min(I) =< y
    BY <1>3, Zenon DEF Min
<1>5. TaskStatusOver(S) = Prefer[Min(I)]
    BY DEF TaskStatusOver
<1>6. TaskStatusOver(S) \in S
    BY <1>4, <1>5
<1>7. ASSUME TaskStatusOver(S) = "SUCCESS" PROVE S = {"SUCCESS"}
  <2>1. Min(I) = 5
    <3>1. Min(I) \in 1..5 /\ Prefer[Min(I)] = "SUCCESS"
        BY <1>2, <1>4, <1>5, <1>7
    <3>2. Prefer[1] = "FAILED" /\ Prefer[2] = "RUNNING" /\ Prefer[3] = "READY" /\ Prefer[4] = "PENDING"
        OBVIOUS
    <3> QED
        BY <3>1, <3>2
  <2>2. 1 \notin I /\ 2 \notin I /\ 3 \notin I /\ 4 \notin I
    <3> HIDE DEF I
    <3> QED
        BY <2>1, <1>4
  <2>3. "FAILED" \notin S /\ "RUNNING" \notin S /\ "READY" \notin S /\ "PENDING" \notin S
      BY <2>2, <1>1
  <2> QED
      BY <2>3 DEF TaskStatus
<1> QED
    BY <1>6, <1>7

\* Statuses move by the rules.
LEMMA Moved ==
    ASSUME NEW old \in TaskStatus \cup {None}, NEW new \in TaskStatus
    PROVE  /\ TaskMoved(old, new) \in {old, new}
           /\ old = None => TaskMoved(old, new) = None
           /\ old = "SUCCESS" => TaskMoved(old, new) = "SUCCESS"
           /\ old = "FAILED" => TaskMoved(old, new) = "FAILED"
           /\ old = "RUNNING" /\ new \in {"SUCCESS", "FAILED"} => TaskMoved(old, new) = new
  BY DEF TaskMoved, TaskRules, TaskStatus, None

LEMMA JobMovedType ==
    ASSUME NEW old \in JobStatus \cup {None}, NEW new \in JobStatus
    PROVE  /\ JobMoved(old, new) \in {old, new}
           /\ old = "READY" /\ new = "RUNNING" => JobMoved(old, new) = "RUNNING"
           /\ old = "FINISHED" => JobMoved(old, new) = "FINISHED"
           /\ old = None => JobMoved(old, new) = None
  BY DEF JobMoved, JobRules, JobStatus, None
-----------------------------------------------------------------------------
(* The types and what a step of the parties keeps *)

Boxes == {None, "work", "push", "ok", "failed", "dead"}
SchedulerTypes ==
    /\ sjob \in JobStatus \cup {None} /\ sstat \in [Tasks -> TaskStatus \cup {None}]
    /\ srow \in [Tasks \X Parties -> TaskStatus \cup {None}]
PartyTypes ==
    /\ pjob \in [Roles -> JobStatus \cup {None}] /\ row \in [Runs -> TaskStatus \cup {None}]
    /\ box \in [Runs -> Boxes] /\ outs \subseteq Runs /\ killing \subseteq Runs
RoundTypes ==
    /\ at \in {"idle", "starting", "tasks", "sync", "start", "started", "finish"}
    /\ left \in Seq(Tasks) /\ mem \in [Tasks -> TaskStatus \cup {None}]
    /\ code \in {"no next", "have next", "failed"}
CallTypes ==
    /\ calls \in [Threads -> Seq(Call)] /\ try \in [Threads -> 1..TryTimes]
    /\ bad \in [Threads -> BOOLEAN] /\ stopping \in BOOLEAN
BoundTypes == faults \in 0..MaxFaults /\ stops \in 0..MaxStops

LEMMA TypeParts ==
    TypeOK <=> SchedulerTypes /\ PartyTypes /\ RoundTypes /\ CallTypes /\ BoundTypes
  BY Zenon DEF TypeOK, SchedulerTypes, PartyTypes, RoundTypes, CallTypes, BoundTypes, Boxes

LEMMA TypePartsNext ==
    TypeOK' <=> SchedulerTypes' /\ PartyTypes' /\ RoundTypes' /\ CallTypes' /\ BoundTypes'
  BY Zenon DEF TypeOK, SchedulerTypes, PartyTypes, RoundTypes, CallTypes, BoundTypes, Boxes

\* What the parties know only grows.
PartyGrows ==
    /\ outs \subseteq outs'
    /\ \A x \in Runs : (row[x] # None => row'[x] # None) /\ (row[x] = "SUCCESS" => row'[x] = "SUCCESS")

\* What a step of the parties leaves alone: no container that runs appears, other than
\* those that are being killed, and a row that is RUNNING has one that runs.
PartyCalms ==
    \A x \in Runs :
        /\ row'[x] = "RUNNING" => box'[x] \in Alive
        /\ box'[x] \in Alive /\ x \notin killing' => box[x] \in Alive /\ x \notin killing

LEMMA SamePartyGrows == UNCHANGED partyVars => PartyGrows
  BY DEF PartyGrows, partyVars

\* A task that has begun at all parties, or is done, stays so.
LEMMA FactsStay ==
    ASSUME PartyGrows, NEW t \in Tasks
    PROVE  (Begun(t) => Begun(t)') /\ (Stored(t) => Stored(t)') /\ (Real(t) => Real(t)')
<1>1. Begun(t) => Begun(t)'
    BY DEF PartyGrows, Begun
<1>2. Stored(t) => Stored(t)'
    BY DEF PartyGrows, Stored
<1>3. Real(t) => Real(t)'
    BY RunOf DEF PartyGrows, Real
<1> QED
    BY <1>1, <1>2, <1>3

\* A call that is sound stays so.
LEMMA SoundStays ==
    ASSUME PartyGrows, NEW c, Sound(c)
    PROVE  Sound(c)'
<1>1. c.op = "poll" => c.t \in Tasks /\ Begun(c.t)'
    BY FactsStay DEF Sound
<1>2. c.op = "start task" => c.t \in Tasks /\ \A d \in Deps[c.t] : Stored(d)'
    BY FactsStay, BfiaAssumption DEF Sound
<1> QED
    BY <1>1, <1>2, Zenon DEF Sound

\* What does not touch a part of the invariant keeps it.
LEMMA RunsFitSame ==
    ASSUME RunsFit, UNCHANGED <<row, box, outs, killing>>
    PROVE  RunsFit'
  BY DEF RunsFit, Inputs

LEMMA TasksKnownSame ==
    ASSUME TasksKnown, PartyGrows, UNCHANGED <<sstat, mem, srow>>
    PROVE  TasksKnown'
<1> SUFFICES ASSUME NEW t \in Tasks
             PROVE  (/\ sstat[t] = "RUNNING" \/ mem[t] = "RUNNING" => Begun(t)
                     /\ sstat[t] = "SUCCESS" \/ mem[t] = "SUCCESS" => Real(t)
                     /\ \A p \in Parties :
                          /\ srow[<<t, p>>] \notin {None, "READY"} => Begun(t)
                          /\ srow[<<t, p>>] = "SUCCESS" =>
                               \A x \in Runs : x[1] = t /\ PartyOf[x[2]] = p => row[x] = "SUCCESS")'
    BY Zenon DEF TasksKnown, KnownTask
<1>1. sstat' = sstat /\ mem' = mem /\ srow' = srow
    OBVIOUS
<1>2. (Begun(t) => Begun(t)') /\ (Real(t) => Real(t)')
    BY FactsStay
<1>3. \A x \in Runs : row[x] = "SUCCESS" => row'[x] = "SUCCESS"
    BY DEF PartyGrows
<1> QED
    BY <1>1, <1>2, <1>3 DEF TasksKnown, KnownTask

LEMMA CallsSoundSame ==
    ASSUME CallsSound, PartyGrows, UNCHANGED calls
    PROVE  CallsSound'
<1>1. \A th \in Threads : \A i \in DOMAIN calls[th] : Sound(calls[th][i])'
    BY SoundStays DEF CallsSound
<1> QED
    BY <1>1 DEF CallsSound

LEMMA RoundFitsSame ==
    ASSUME RoundFits, PartyGrows, UNCHANGED <<at, left, calls>>, bad'["round"] = bad["round"]
    PROVE  RoundFits'
<1>1. \A x \in Runs : row[x] # None => row'[x] # None
    BY DEF PartyGrows
<1>2. \A c : OfPhase(c)' <=> OfPhase(c)
    BY DEF OfPhase
<1>3. \A p : Open("round", p)' <=> Open("round", p)
    BY DEF Open
<1> QED
    BY <1>1, <1>2, <1>3 DEF RoundFits

\* A step of the containers and the threads that kill them.
LEMMA PartyStep ==
    ASSUME BfiaInductive, UNCHANGED <<schedulerVars, roundVars, callVars, stops>>,
           PartyTypes', RunsFit', PartyGrows, faults' \in 0..MaxFaults, faults' >= faults,
           Calm' => PartyCalms
    PROVE  BfiaInductive'
<1> USE DEF schedulerVars, roundVars, callVars
<1>1. TypeOK'
    BY TypeParts, TypePartsNext DEF BfiaInductive, SchedulerTypes, RoundTypes, CallTypes, BoundTypes
<1>2. TasksKnown'
    BY TasksKnownSame DEF BfiaInductive
<1>3. TasksCreated'
    BY DEF BfiaInductive, TasksCreated, Created
<1>4. CallsSound'
    BY CallsSoundSame DEF BfiaInductive
<1>5. RoundFits'
    BY RoundFitsSame DEF BfiaInductive
<1>6. CalmFits'
  <2> SUFFICES ASSUME Calm' PROVE CalmFits'
      BY DEF CalmFits
  <2>1. Calm
    <3>1. faults \in Nat
        BY TypeParts, BfiaAssumption DEF BfiaInductive, BoundTypes
    <3> QED
        BY <3>1 DEF Calm
  <2>2. PartyCalms
      OBVIOUS
  <2>3. \A p : Open("round", p)' <=> Open("round", p)
      BY DEF Open
  <2>4. stopping' = stopping /\ calls' = calls /\ at' = at /\ sjob' = sjob
      OBVIOUS
  <2> QED
      BY <2>1, <2>2, <2>3, <2>4 DEF BfiaInductive, CalmFits, PartyCalms
<1> QED
    BY <1>1, <1>2, <1>3, <1>4, <1>5, <1>6 DEF BfiaInductive

\* One run moves: its row by the rules, its container to to.
LEMMA OneRun ==
    ASSUME BfiaInductive, NEW x \in Runs, NEW to \in Boxes,
           box' = [box EXCEPT ![x] = to], NEW s \in {"SUCCESS", "FAILED"},
           row' \in {row, [row EXCEPT ![x] = TaskMoved(@, s)]},
           outs \subseteq outs', outs' \subseteq Runs, UNCHANGED pjob, killing' \subseteq killing,
           killing \ killing' \subseteq {x},
           row[x] # None, s = "SUCCESS" => x \in outs', to = "ok" => x \in outs', to # "work",
           faults' >= faults, faults' \in 0..MaxFaults,
           Calm' => /\ row' = [row EXCEPT ![x] = TaskMoved(@, s)] \/ to \in Alive
                    /\ to \in Alive => box[x] \in Alive /\ killing' = killing,
           UNCHANGED <<schedulerVars, roundVars, callVars, stops>>
    PROVE  BfiaInductive'
<1> PICK rowAt : rowAt = row[x]
    OBVIOUS
<1>1. /\ PartyTypes /\ RunsFit /\ CalmFits
    BY TypeParts DEF BfiaInductive
<1>2. rowAt \in {"RUNNING", "SUCCESS", "FAILED"}
    BY <1>1 DEF RunsFit
<1>3. /\ TaskMoved(rowAt, s) \in {rowAt, s}
      /\ rowAt = "SUCCESS" => TaskMoved(rowAt, s) = "SUCCESS"
      /\ rowAt = "RUNNING" => TaskMoved(rowAt, s) = s
    BY <1>2, Moved DEF TaskStatus
<1> PICK new : new = TaskMoved(rowAt, s)
    OBVIOUS
<1>4. /\ row' = row \/ row' = [row EXCEPT ![x] = new]
      /\ new \in {"SUCCESS", "FAILED"}
    BY <1>2, <1>3
<1>5. /\ \A y \in Runs : y # x => row'[y] = row[y] /\ box'[y] = box[y]
      /\ box'[x] = to /\ row'[x] \in {rowAt, new}
      /\ row' \in [Runs -> TaskStatus \cup {None}] /\ box' \in [Runs -> Boxes]
    BY <1>1, <1>4 DEF PartyTypes, TaskStatus
<1>6. PartyTypes'
    BY <1>1, <1>5 DEF PartyTypes
<1>7. PartyGrows
    BY <1>2, <1>3, <1>4, <1>5 DEF PartyGrows, None
<1>8. RunsFit'
  <2> SUFFICES ASSUME NEW y \in Runs
               PROVE  /\ row'[y] \in {None, "RUNNING", "SUCCESS", "FAILED"}
                      /\ row'[y] = None => box'[y] = None /\ y \notin killing'
                      /\ row'[y] = "SUCCESS" \/ box'[y] = "ok" => y \in outs'
                      /\ box'[y] = "work" => \A d \in Inputs(y) : <<d, y[2]>> \in outs'
      BY DEF RunsFit, Inputs
  <2>1. CASE y # x
      BY <2>1, <1>1, <1>5 DEF RunsFit
  <2>2. CASE y = x
    <3>1. row'[x] = "SUCCESS" => x \in outs'
        BY <1>1, <1>2, <1>3, <1>5 DEF RunsFit
    <3> QED
        BY <2>2, <3>1, <1>2, <1>4, <1>5 DEF None
  <2> QED
      BY <2>1, <2>2
<1>9. ASSUME Calm' PROVE PartyCalms
  <2> SUFFICES ASSUME NEW y \in Runs
               PROVE  /\ row'[y] = "RUNNING" => box'[y] \in Alive
                      /\ box'[y] \in Alive /\ y \notin killing' => box[y] \in Alive /\ y \notin killing
      BY DEF PartyCalms
  <2>1. \A z \in Runs : row[z] = "RUNNING" => box[z] \in Alive
    <3>1. faults \in Nat
        BY TypeParts, BfiaAssumption DEF BfiaInductive, BoundTypes
    <3>2. Calm
        BY <1>9, <3>1 DEF Calm
    <3> QED
        BY <1>1, <3>2 DEF CalmFits
  <2>2. CASE y # x
      BY <2>1, <2>2, <1>5
  <2>3. CASE y = x
    <3>1. to \in Alive \/ row'[x] = new
        BY <1>1, <1>4, <1>9 DEF PartyTypes
    <3> QED
        BY <2>3, <3>1, <1>4, <1>5, <1>9
  <2> QED
      BY <2>2, <2>3
<1> HIDE DEF PartyGrows, PartyCalms, BfiaInductive
<1> QED
    BY <1>6, <1>7, <1>8, <1>9, PartyStep, Zenon
-----------------------------------------------------------------------------
(* The containers and the threads that kill them *)

\* What the invariant says of one run.
LEMMA KnownRun ==
    ASSUME BfiaInductive, NEW x \in Runs
    PROVE  /\ row[x] \in {None, "RUNNING", "SUCCESS", "FAILED"} /\ box[x] \in Boxes
           /\ row[x] = None => box[x] = None /\ x \notin killing
           /\ box[x] = "ok" => x \in outs
           /\ outs \subseteq Runs /\ faults \in 0..MaxFaults /\ faults \in Int /\ MaxFaults \in Int
  BY TypeParts, BfiaAssumption DEF BfiaInductive, RunsFit, PartyTypes, BoundTypes

\* A thread of stop_task: the row becomes FAILED, and the container is gone.
LEMMA KillStep ==
    ASSUME BfiaInductive, NEW x \in Runs, Kill(x)
    PROVE  BfiaInductive'
<1>1. None \in Boxes /\ None # "ok" /\ None # "work" /\ None \notin Alive
    BY DEF Boxes, Alive, None
<1>2. row[x] # None
    BY KnownRun DEF Kill
<1>3. /\ box' = [box EXCEPT ![x] = None] /\ row' = [row EXCEPT ![x] = TaskMoved(@, "FAILED")]
      /\ killing' = killing \ {x} /\ outs' = outs /\ pjob' = pjob /\ faults' = faults
      /\ UNCHANGED <<schedulerVars, roundVars, callVars, stops>>
    BY DEF Kill
<1>4. outs \subseteq Runs /\ faults \in 0..MaxFaults /\ faults >= faults
    BY KnownRun
<1> QED
    BY <1>1, <1>2, <1>3, <1>4, OneRun

\* The container gets on; only a push adds outputs.
LEMMA RunComponentStep ==
    ASSUME BfiaInductive, NEW x \in Runs, RunComponent(x)
    PROVE  BfiaInductive'
<1>1. box[x] = "work"
    BY DEF RunComponent
<1>2. PICK to \in {"push", "failed"} : box' = [box EXCEPT ![x] = to]
    BY DEF RunComponent, Moves
<1>3. to \in Boxes /\ to # "ok" /\ to # "work" /\ to \in Alive /\ box[x] \in Alive
    BY <1>1, <1>2 DEF Boxes, Alive
<1>4. row[x] # None
    BY <1>1, KnownRun DEF None
<1>5. /\ row' = row /\ killing' = killing /\ outs' = outs /\ pjob' = pjob /\ faults' = faults
      /\ UNCHANGED <<schedulerVars, roundVars, callVars, stops>>
    BY DEF RunComponent
<1>6. outs \subseteq Runs /\ faults \in 0..MaxFaults /\ faults >= faults
    BY KnownRun
<1> QED
    BY <1>2, <1>3, <1>4, <1>5, <1>6, OneRun

LEMMA PushOutputStep ==
    ASSUME BfiaInductive, NEW x \in Runs, PushOutput(x)
    PROVE  BfiaInductive'
<1>1. box[x] = "push"
    BY DEF PushOutput
<1>2. PICK to \in {"ok", "failed"} :
        /\ box' = [box EXCEPT ![x] = to]
        /\ to = "ok" => x \in outs' /\ outs' \subseteq outs \cup {x} /\ outs \subseteq outs'
    BY DEF PushOutput, Moves
<1>3. to \in Boxes /\ to # "work" /\ to \in Alive /\ box[x] \in Alive
    BY <1>1, <1>2 DEF Boxes, Alive
<1>4. row[x] # None
    BY <1>1, KnownRun DEF None
<1>5. /\ row' = row /\ killing' = killing /\ pjob' = pjob /\ faults' = faults
      /\ UNCHANGED <<schedulerVars, roundVars, callVars, stops>>
    BY DEF PushOutput
<1>6. outs \subseteq Runs /\ faults \in 0..MaxFaults /\ faults >= faults
    BY KnownRun
<1>7. outs \subseteq outs' /\ outs' \subseteq Runs
    BY <1>6 DEF PushOutput
<1> QED
    BY <1>2, <1>3, <1>4, <1>5, <1>6, <1>7, OneRun

\* The report: SUCCESS comes from a container that has pushed its outputs.
LEMMA ReportStatusStep ==
    ASSUME BfiaInductive, NEW x \in Runs, ReportStatus(x)
    PROVE  BfiaInductive'
<1> DEFINE s == IF box[x] = "ok" THEN "SUCCESS" ELSE "FAILED"
<1>1. box[x] \in {"ok", "failed"} /\ box' = [box EXCEPT ![x] = "dead"]
    BY DEF ReportStatus, Moves
<1>2. "dead" \in Boxes /\ "dead" \notin Alive
    BY DEF Boxes, Alive
<1>3. row[x] # None
    BY <1>1, KnownRun DEF None
<1>4. /\ killing' = killing /\ pjob' = pjob /\ outs' = outs
      /\ UNCHANGED <<schedulerVars, roundVars, callVars, stops>>
    BY DEF ReportStatus
<1>5. /\ outs \subseteq Runs /\ faults \in 0..MaxFaults /\ faults \in Int /\ MaxFaults \in Int
      /\ s \in {"SUCCESS", "FAILED"} /\ s = "SUCCESS" => x \in outs
    BY KnownRun
<1>6. \/ row' = [row EXCEPT ![x] = TaskMoved(@, s)] /\ faults' = faults
      \/ row' = row /\ faults < MaxFaults /\ faults' = faults + 1
    BY DEF ReportStatus
<1>7. faults' >= faults /\ faults' \in 0..MaxFaults
    BY <1>5, <1>6
<1>8. Calm' => row' = [row EXCEPT ![x] = TaskMoved(@, s)]
    BY <1>5, <1>6 DEF Calm
<1>9. row' \in {row, [row EXCEPT ![x] = TaskMoved(@, s)]}
    BY <1>6
<1>10. "dead" # "ok" /\ "dead" # "work" /\ outs \subseteq outs' /\ outs' \subseteq Runs
    BY <1>4, <1>5
<1>11. PICK end \in {"SUCCESS", "FAILED"} : end = s
    BY <1>5, Zenon
<1>12. /\ end = "SUCCESS" => x \in outs'
       /\ Calm' => row' = [row EXCEPT ![x] = TaskMoved(@, end)]
       /\ row' \in {row, [row EXCEPT ![x] = TaskMoved(@, end)]}
    BY <1>4, <1>5, <1>8, <1>9, <1>11, Zenon
<1> HIDE DEF s
<1> QED
    BY <1>1, <1>2, <1>3, <1>4, <1>7, <1>10, <1>12, OneRun
-----------------------------------------------------------------------------
(* What a party does when it is called *)

\* The handlers that are about jobs leave the tasks of the party alone.
LEMMA JobHandler ==
    ASSUME PartyTypes, NEW p \in Parties, CreateJob(p) \/ StartJob(p)
    PROVE  PartyTypes' /\ UNCHANGED <<row, box, outs, killing>>
<1>1. UNCHANGED <<row, box, outs, killing>>
    BY DEF CreateJob, StartJob
<1>2. "RUNNING" \in JobStatus /\ "READY" \in JobStatus
    BY DEF JobStatus
<1>3. pjob' \in [Roles -> JobStatus \cup {None}]
  <2>1. CASE CreateJob(p)
      BY <2>1, <1>2 DEF CreateJob, PartyTypes
  <2>2. CASE StartJob(p)
    <3>1. \A r \in Roles : JobMoved(pjob[r], "RUNNING") \in JobStatus \cup {None}
        BY <1>2, JobMovedType DEF PartyTypes
    <3> QED
        BY <2>2, <3>1 DEF StartJob, PartyTypes
  <2> QED
      BY <2>1, <2>2
<1> QED
    BY <1>1, <1>3 DEF PartyTypes

\* A stop kills what has a row, all tasks or the one it names.
LEMMA StopHandler ==
    ASSUME PartyTypes, NEW p \in Parties, NEW t, StopJob(p, t)
    PROVE  /\ PartyTypes' /\ UNCHANGED <<row, box, outs>> /\ killing \subseteq killing'
           /\ \A x \in Runs : x \in killing' /\ x \notin killing => row[x] # None
           /\ t = All => \A x \in Runs : PartyOf[x[2]] = p /\ row[x] # None => x \in killing'
<1>1. UNCHANGED <<row, box, outs>> /\ killing' = killing \cup ToStop(p, t)
    BY DEF StopJob
<1>2. pjob' \in [Roles -> JobStatus \cup {None}]
  <2>1. "FINISHED" \in JobStatus
      BY DEF JobStatus
  <2>2. \A r \in Roles : JobMoved(pjob[r], "FINISHED") \in JobStatus \cup {None}
      BY <2>1, JobMovedType DEF PartyTypes
  <2>3. PICK over : pjob' = [r \in Roles |-> IF r \in over THEN JobMoved(pjob[r], "FINISHED") ELSE pjob[r]]
      BY Zenon DEF StopJob
  <2> QED
      BY <2>2, <2>3 DEF PartyTypes
<1> QED
    BY <1>1, <1>2 DEF ToStop, PartyTypes

\* A task that is started has a row at every role there, and a container unless one of its
\* name is there still or it does not start; its inputs are in the store.
LEMMA StartHandler ==
    ASSUME PartyTypes, RunsFit, NEW p \in Parties, NEW t \in Tasks, NEW ok, NEW broken,
           \A d \in Deps[t] : Stored(d), StartTask(p, t, ok, broken)
    PROVE  /\ PartyTypes' /\ RunsFit' /\ PartyGrows /\ UNCHANGED <<outs, killing>> /\ broken \subseteq Runs
           /\ \A x \in Runs : x[1] = t /\ PartyOf[x[2]] = p => row'[x] # None
           /\ broken = {} => \A x \in Runs :
                row'[x] = "RUNNING" => box'[x] = "work" \/ (row[x] = "RUNNING" /\ box'[x] = box[x])
<1> DEFINE here == {x \in Runs : x[1] = t /\ PartyOf[x[2]] = p}
           free == {x \in here : box[x] = None}
           started(x) == TaskMoved(IF row[x] = None THEN "READY" ELSE row[x], "RUNNING")
<1>1. /\ broken \subseteq free
      /\ row' = [x \in Runs |-> IF x \notin here THEN row[x] ELSE started(x)]
      /\ box' = [x \in Runs |-> IF x \in free \ broken THEN "work" ELSE box[x]]
      /\ UNCHANGED <<pjob, outs, killing>>
    BY Zenon DEF StartTask
<1>2. \A x \in Runs : row[x] \in {None, "RUNNING", "SUCCESS", "FAILED"}
    BY DEF RunsFit
<1>3. \A x \in Runs : started(x) = IF row[x] = None THEN "RUNNING" ELSE row[x]
  <2> SUFFICES ASSUME NEW x \in Runs PROVE started(x) = IF row[x] = None THEN "RUNNING" ELSE row[x]
      BY Zenon
  <2>1. CASE row[x] = None
    <3>1. TaskMoved("READY", "RUNNING") = "RUNNING"
        BY DEF TaskMoved, TaskRules
    <3> QED
        BY <2>1, <3>1
  <2>2. CASE row[x] \in {"RUNNING", "SUCCESS", "FAILED"}
    <3>1. \A s \in {"RUNNING", "SUCCESS", "FAILED"} : TaskMoved(s, "RUNNING") = s /\ s # None
        BY DEF TaskMoved, TaskRules, None
    <3> QED
        BY <2>2, <3>1
  <2> QED
      BY <1>2, <2>1, <2>2
<1>4. \A x \in Runs : row'[x] = IF x \in here /\ row[x] = None THEN "RUNNING" ELSE row[x]
    BY <1>1, <1>3
<1>5. \A x \in Runs : box'[x] = IF x \in free \ broken THEN "work" ELSE box[x]
    BY <1>1
<1>6. \A x \in Runs : x \in here <=> x[1] = t /\ PartyOf[x[2]] = p
    OBVIOUS
<1>7. \A x \in Runs : x \in free => x \in here /\ box[x] = None
    OBVIOUS
<1>8. broken \subseteq Runs /\ UNCHANGED <<pjob, outs, killing>>
    BY <1>1
<1>9. PartyTypes'
  <2>1. row' \in [Runs -> TaskStatus \cup {None}]
    <3>1. \A x \in Runs : started(x) \in TaskStatus \cup {None}
        BY <1>2, <1>3 DEF TaskStatus
    <3> HIDE DEF started, here
    <3> QED
        BY <1>1, <3>1 DEF PartyTypes
  <2>2. box' \in [Runs -> Boxes]
    <3> HIDE DEF free
    <3> QED
        BY <1>1 DEF PartyTypes, Boxes
  <2> QED
      BY <1>8, <2>1, <2>2 DEF PartyTypes
<1> HIDE DEF here, free, started
<1>10. PartyGrows
    BY <1>2, <1>4, <1>8 DEF PartyGrows, None
<1>11. RunsFit'
  <2> SUFFICES ASSUME NEW x \in Runs
               PROVE  /\ row'[x] \in {None, "RUNNING", "SUCCESS", "FAILED"}
                      /\ row'[x] = None => box'[x] = None /\ x \notin killing'
                      /\ row'[x] = "SUCCESS" \/ box'[x] = "ok" => x \in outs'
                      /\ box'[x] = "work" => \A d \in Inputs(x) : <<d, x[2]>> \in outs'
      BY DEF RunsFit, Inputs
  <2>1. row'[x] \in {None, "RUNNING", "SUCCESS", "FAILED"}
      BY <1>2, <1>4
  <2>2. row'[x] = None => box'[x] = None /\ x \notin killing'
      BY <1>4, <1>5, <1>7, <1>8 DEF RunsFit, None
  <2>3. row'[x] = "SUCCESS" \/ box'[x] = "ok" => x \in outs'
      BY <1>4, <1>5, <1>8 DEF RunsFit
  <2>4. ASSUME box'[x] = "work" PROVE \A d \in Inputs(x) : <<d, x[2]>> \in outs'
    <3>1. CASE box[x] = "work"
        BY <3>1, <1>8 DEF RunsFit
    <3>2. CASE x \in here
      <4>1. x[1] = t /\ \A d \in Inputs(x) : d \in Deps[t] /\ x[2] \in RolesOf[d]
          BY <3>2, <1>6 DEF Inputs
      <4> QED
          BY <4>1, <1>8 DEF Stored
    <3> QED
        BY <2>4, <3>1, <3>2, <1>5, <1>7
  <2> QED
      BY <2>1, <2>2, <2>3, <2>4
<1>12. \A x \in Runs : x[1] = t /\ PartyOf[x[2]] = p => row'[x] # None
    BY <1>4, <1>6 DEF None
<1>13. ASSUME broken = {}, NEW x \in Runs, row'[x] = "RUNNING"
       PROVE  box'[x] = "work" \/ (row[x] = "RUNNING" /\ box'[x] = box[x])
  <2>1. CASE x \in here /\ row[x] = None
    <3>1. box[x] = None
        BY <2>1 DEF RunsFit
    <3>2. x \in free
        BY <2>1, <3>1 DEF free
    <3> QED
        BY <3>2, <1>5, <1>13
  <2>2. CASE ~(x \in here /\ row[x] = None)
      BY <2>2, <1>4, <1>5, <1>13
  <2> QED
      BY <2>1, <2>2
<1> QED
    BY <1>8, <1>9, <1>10, <1>11, <1>12, <1>13

\* What a call does at the party.
LEMMA HandleParty ==
    ASSUME BfiaInductive, NEW c \in Call, Sound(c), NEW ok, NEW broken, Handle(c, ok, broken)
    PROVE  /\ PartyTypes' /\ RunsFit' /\ PartyGrows /\ outs' = outs /\ killing \subseteq killing'
           /\ broken \subseteq Runs
           /\ c.op # "start task" => row' = row /\ box' = box
           /\ c.op = "start task" => \A x \in Runs : x[1] = c.t /\ PartyOf[x[2]] = c.p => row'[x] # None
           /\ c.op = "stop" /\ c.t = All =>
                \A x \in Runs : PartyOf[x[2]] = c.p /\ row[x] # None => x \in killing'
           /\ Calm /\ broken = {} => \A x \in Runs : row'[x] = "RUNNING" => box'[x] \in Alive
<1>1. PartyTypes /\ RunsFit /\ CalmFits /\ c.p \in Parties
    BY TypeParts DEF BfiaInductive, Call
<1>2. Calm => \A x \in Runs : row[x] = "RUNNING" => box[x] \in Alive
    BY <1>1 DEF CalmFits
<1>3. CASE c.op = "start task" /\ StartTask(c.p, c.t, ok, broken)
  <2>1. c.t \in Tasks /\ \A d \in Deps[c.t] : Stored(d)
      BY <1>3 DEF Sound
  <2>2. /\ PartyTypes' /\ RunsFit' /\ PartyGrows /\ UNCHANGED <<outs, killing>> /\ broken \subseteq Runs
        /\ \A x \in Runs : x[1] = c.t /\ PartyOf[x[2]] = c.p => row'[x] # None
        /\ broken = {} => \A x \in Runs :
             row'[x] = "RUNNING" => box'[x] = "work" \/ (row[x] = "RUNNING" /\ box'[x] = box[x])
      BY <1>1, <1>3, <2>1, StartHandler, Zenon
  <2>3. "work" \in Alive
      BY DEF Alive
  <2>4. Calm /\ broken = {} => \A x \in Runs : row'[x] = "RUNNING" => box'[x] \in Alive
      BY <1>2, <2>2, <2>3
  <2> QED
      BY <1>3, <2>2, <2>4
<1>4. CASE c.op \in {"create", "start job"} /\ (CreateJob(c.p) \/ StartJob(c.p)) /\ broken = {}
  <2>1. PartyTypes' /\ UNCHANGED <<row, box, outs, killing>>
      BY <1>1, <1>4, JobHandler
  <2>2. RunsFit' /\ PartyGrows
      BY <1>1, <2>1, RunsFitSame DEF PartyGrows
  <2> QED
      BY <1>2, <1>4, <2>1, <2>2
<1>5. CASE c.op = "stop" /\ StopJob(c.p, c.t) /\ broken = {}
  <2>1. /\ PartyTypes' /\ UNCHANGED <<row, box, outs>> /\ killing \subseteq killing'
        /\ \A x \in Runs : x \in killing' /\ x \notin killing => row[x] # None
        /\ c.t = All => \A x \in Runs : PartyOf[x[2]] = c.p /\ row[x] # None => x \in killing'
      BY <1>1, <1>5, StopHandler
  <2>2. PartyGrows
      BY <2>1 DEF PartyGrows
  <2>3. RunsFit'
      BY <1>1, <2>1 DEF RunsFit, Inputs
  <2> QED
      BY <1>2, <1>5, <2>1, <2>2, <2>3
<1>6. CASE c.op = "poll" /\ UNCHANGED partyVars /\ broken = {}
  <2>1. UNCHANGED <<pjob, row, box, outs, killing>>
      BY <1>6 DEF partyVars
  <2>2. PartyTypes' /\ RunsFit' /\ PartyGrows
      BY <1>1, <2>1, RunsFitSame DEF PartyGrows, PartyTypes
  <2> QED
      BY <1>2, <1>6, <2>1, <2>2
<1> QED
    BY <1>3, <1>4, <1>5, <1>6 DEF Handle
-----------------------------------------------------------------------------
(* The calls that a thread has still to make *)

\* The call a thread makes next, and what is left of its calls.
LEMMA NextCall ==
    ASSUME BfiaInductive, NEW th \in Threads, calls[th] # <<>>
    PROVE  /\ calls \in [Threads -> Seq(Call)] /\ Head(calls[th]) \in Call /\ Sound(Head(calls[th]))
           /\ Tail(calls[th]) \in Seq(Call)
           /\ 1 \in DOMAIN calls[th] /\ Head(calls[th]) = calls[th][1]
           /\ \A i \in DOMAIN Tail(calls[th]) : \E j \in DOMAIN calls[th] : Tail(calls[th])[i] = calls[th][j]
           /\ \A i \in DOMAIN calls[th] :
                calls[th][i] = Head(calls[th]) \/ \E j \in DOMAIN Tail(calls[th]) : Tail(calls[th])[j] = calls[th][i]
<1>1. calls \in [Threads -> Seq(Call)] /\ calls[th] \in Seq(Call)
    BY TypeParts DEF BfiaInductive, CallTypes
<1> PICK s \in Seq(Call) : s = calls[th]
    BY <1>1
<1>2. /\ Head(s) \in Call /\ Tail(s) \in Seq(Call) /\ Head(s) = s[1] /\ 1 \in DOMAIN s
      /\ \A i \in DOMAIN Tail(s) : i + 1 \in DOMAIN s /\ Tail(s)[i] = s[i + 1]
      /\ \A i \in DOMAIN s : s[i] = Head(s) \/ \E j \in DOMAIN Tail(s) : Tail(s)[j] = s[i]
    BY TailCalls
<1>3. Sound(Head(s))
    BY <1>2, Zenon DEF BfiaInductive, CallsSound
<1>4. \A i \in DOMAIN Tail(s) : \E j \in DOMAIN s : Tail(s)[i] = s[j]
    BY <1>2, Zenon
<1> QED
    BY <1>1, <1>2, <1>3, <1>4, Zenon

\* The calls a thread has after one was made are among those before.
FewerCalls(th) == calls' = calls \/ calls' = [calls EXCEPT ![th] = Tail(@)]

\* A call that has been made is taken off, or is tried again.
LEMMA CallsAmong ==
    ASSUME BfiaInductive, NEW th \in Threads, calls[th] # <<>>, FewerCalls(th)
    PROVE  /\ calls' \in [Threads -> Seq(Call)]
           /\ \A h \in Threads : h # th => calls'[h] = calls[h]
           /\ \A h \in Threads : \A i \in DOMAIN calls'[h] : \E j \in DOMAIN calls[h] : calls'[h][i] = calls[h][j]
           /\ calls' = calls \/ calls'[th] = Tail(calls[th])
<1>1. /\ calls \in [Threads -> Seq(Call)] /\ Tail(calls[th]) \in Seq(Call)
      /\ \A i \in DOMAIN Tail(calls[th]) : \E j \in DOMAIN calls[th] : Tail(calls[th])[i] = calls[th][j]
    BY NextCall
<1>2. CASE calls' = calls
    BY <1>1, <1>2, Zenon
<1>3. CASE calls' = [calls EXCEPT ![th] = Tail(@)]
  <2>1. calls' \in [Threads -> Seq(Call)] /\ calls'[th] = Tail(calls[th])
        /\ \A h \in Threads : h # th => calls'[h] = calls[h]
      BY <1>1, <1>3
  <2>2. \A h \in Threads : \A i \in DOMAIN calls'[h] : \E j \in DOMAIN calls[h] : calls'[h][i] = calls[h][j]
    <3> SUFFICES ASSUME NEW h \in Threads, NEW i \in DOMAIN calls'[h]
                 PROVE  \E j \in DOMAIN calls[h] : calls'[h][i] = calls[h][j]
        BY Zenon
    <3>1. CASE h = th
        BY <3>1, <1>1, <2>1
    <3>2. CASE h # th
        BY <3>2, <2>1
    <3> QED
        BY <3>1, <3>2
  <2> QED
      BY <2>1, <2>2, Zenon
<1> QED
    BY <1>2, <1>3 DEF FewerCalls

LEMMA CallsSoundAmong ==
    ASSUME BfiaInductive, PartyGrows, NEW th \in Threads, calls[th] # <<>>, FewerCalls(th)
    PROVE  CallsSound'
<1>1. \A h \in Threads : \A i \in DOMAIN calls'[h] : \E j \in DOMAIN calls[h] : calls'[h][i] = calls[h][j]
    BY CallsAmong
<1>2. CallsSound /\ "create" \in Threads /\ "stop" \in Threads
    BY DEF BfiaInductive, Threads
<1>3. ASSUME NEW h \in Threads, NEW i \in DOMAIN calls'[h] PROVE Sound(calls[h][i])'
  <2>1. PICK j \in DOMAIN calls[h] : calls'[h][i] = calls[h][j]
      BY <1>1
  <2>2. PICK c : c = calls[h][j]
      OBVIOUS
  <2>3. Sound(c)
      BY <1>2, <2>2 DEF CallsSound
  <2>4. Sound(c)'
      BY <2>3, SoundStays
  <2>5. calls'[h][i] = c
      BY <2>1, <2>2
  <2> QED
      BY <2>4, <2>5 DEF Sound, Begun, Stored
<1>4. /\ \A i \in DOMAIN calls'["create"] : calls'["create"][i].op = "create"
      /\ \A i \in DOMAIN calls'["stop"] : calls'["stop"][i].op = "stop"
    BY <1>1, <1>2 DEF CallsSound
<1> QED
    BY <1>3, <1>4 DEF CallsSound

\* A call of the round that is made has left its row, or the round knows it failed.
LEMMA RoundFitsAmong ==
    ASSUME BfiaInductive, PartyGrows, NEW th \in Threads, calls[th] # <<>>, FewerCalls(th),
           UNCHANGED roundVars, bad' \in [Threads -> BOOLEAN], bad["round"] => bad'["round"],
           calls' = calls \/ th # "round" \/ bad'["round"] \/
             (Head(calls[th]).op = "start task" =>
                \A x \in Runs : x[1] = Head(calls[th]).t /\ PartyOf[x[2]] = Head(calls[th]).p => row'[x] # None)
    PROVE  RoundFits'
<1>1. /\ RoundFits /\ "round" \in Threads
    BY DEF BfiaInductive, Threads
<1>2. at' = at /\ left' = left
    BY DEF roundVars
<1>3. \A i \in DOMAIN calls'["round"] : \E j \in DOMAIN calls["round"] : calls'["round"][i] = calls["round"][j]
    BY <1>1, CallsAmong
<1>5. at = "idle" => th # "round" /\ calls'["round"] = <<>>
    BY <1>1, CallsAmong DEF RoundFits
<1>6. ASSUME NEW i \in DOMAIN calls'["round"] PROVE OfPhase(calls["round"][i])'
  <2>1. PICK j \in DOMAIN calls["round"] : calls'["round"][i] = calls["round"][j]
      BY <1>3
  <2>2. PICK c : c = calls["round"][j]
      OBVIOUS
  <2>3. OfPhase(c)
      BY <1>1, <2>2 DEF RoundFits
  <2>4. calls'["round"][i] = c
      BY <2>1, <2>2
  <2> QED
      BY <1>2, <2>3, <2>4 DEF OfPhase
<1>7. ASSUME at = "started", ~bad'["round"], NEW x \in Runs, x[1] = Head(left)
      PROVE  row'[x] # None \/ Open("round", PartyOf[x[2]])'
  <2>1. row[x] # None \/ Open("round", PartyOf[x[2]])
      BY <1>1, <1>7 DEF RoundFits
  <2>2. CASE row[x] # None
      BY <2>2 DEF PartyGrows
  <2>3. CASE \E i \in DOMAIN calls["round"] : calls["round"][i].p = PartyOf[x[2]]
    <3>1. CASE calls' = calls \/ th # "round"
      <4>1. calls'["round"] = calls["round"]
          BY <1>1, <3>1, CallsAmong
      <4> QED
          BY <2>3, <4>1 DEF Open
    <3>2. CASE calls' # calls /\ th = "round"
      <4>1. PICK i \in DOMAIN calls["round"] : calls["round"][i].p = PartyOf[x[2]]
          BY <2>3
      <4>2. calls["round"][i] = Head(calls["round"])
            \/ \E j \in DOMAIN Tail(calls["round"]) : Tail(calls["round"])[j] = calls["round"][i]
          BY <3>2, NextCall
      <4>3. calls'["round"] = Tail(calls["round"])
          BY <3>2, CallsAmong
      <4>4. CASE calls["round"][i] = Head(calls["round"])
        <5>1. OfPhase(calls["round"][i])
            BY <1>1 DEF RoundFits
        <5>2. Head(calls["round"]).op = "start task" /\ Head(calls["round"]).t = x[1]
            BY <1>7, <4>4, <5>1 DEF OfPhase
        <5> QED
            BY <1>7, <3>2, <4>1, <4>4, <5>2
      <4>5. CASE \E j \in DOMAIN Tail(calls["round"]) : Tail(calls["round"])[j] = calls["round"][i]
          BY <4>1, <4>3, <4>5 DEF Open
      <4> QED
          BY <4>2, <4>4, <4>5
    <3> QED
        BY <3>1, <3>2
  <2> QED
      BY <2>1, <2>2, <2>3 DEF Open
<1>8. at \in {"sync", "started"} => left # <<>>
    BY <1>1 DEF RoundFits
<1> QED
    BY <1>2, <1>5, <1>6, <1>7, <1>8 DEF RoundFits

LEMMA ReturnTypes ==
    ASSUME BfiaInductive, NEW th \in Threads, calls[th] # <<>>, NEW ok \in BOOLEAN, Return(th, ok), UNCHANGED stopping
    PROVE  CallTypes' /\ FewerCalls(th) /\ (bad["round"] => bad'["round"])
           /\ (~ok => bad'[th])
<1>1. CallTypes /\ "round" \in Threads
    BY TypeParts DEF BfiaInductive, Threads
<1>2. FewerCalls(th)
    BY DEF Return, FewerCalls
<1>3. calls' \in [Threads -> Seq(Call)]
    BY <1>2, CallsAmong
<1>4. 1 \in 1..TryTimes
    BY BfiaAssumption
<1>5. try' \in [Threads -> 1..TryTimes]
    BY <1>1, <1>4 DEF Return, CallTypes
<1>6. bad' \in [Threads -> BOOLEAN] /\ (bad["round"] => bad'["round"]) /\ (~ok => bad'[th])
    BY <1>1, Zenon DEF Return, CallTypes
<1> QED
    BY <1>1, <1>2, <1>3, <1>5, <1>6 DEF CallTypes
-----------------------------------------------------------------------------
(* Answers *)

\* The status a party answers with is that of its tasks, when they have begun.
LEMMA AnswerIsRows ==
    ASSUME BfiaInductive, NEW t \in Tasks, NEW p \in PartiesOf(t), Begun(t)
    PROVE  /\ Answer(p, t) \in TaskStatus
           /\ Answer(p, t) = "SUCCESS" => \A x \in Runs : x[1] = t /\ PartyOf[x[2]] = p => row[x] = "SUCCESS"
<1> DEFINE here == {y \in Runs : y[1] = t /\ PartyOf[y[2]] = p}
           S == {row[x] : x \in here}
<1>1. PICK r \in RolesOf[t] : PartyOf[r] = p
    BY DEF PartiesOf
<1>2. <<t, r>> \in Runs /\ <<t, r>>[1] = t /\ <<t, r>>[2] = r
    BY RunOf
<1>3. S # {}
    BY <1>1, <1>2
<1>4. \A x \in here : row[x] \in TaskStatus
    BY DEF BfiaInductive, RunsFit, Begun, TaskStatus
<1>5. S \in SUBSET TaskStatus
    BY <1>4
<1>6. Answer(p, t) = TaskStatusOver(S)
    BY DEF Answer
<1>7. TaskStatusOver(S) \in S /\ (TaskStatusOver(S) = "SUCCESS" => S = {"SUCCESS"})
  <2> HIDE DEF S
  <2> QED
      BY <1>3, <1>5, StatusOver
<1>8. S = {"SUCCESS"} => \A x \in here : row[x] = "SUCCESS"
  <2>1. \A x \in here : row[x] \in S
      OBVIOUS
  <2> QED
      BY <2>1
<1>9. TaskStatusOver(S) \in TaskStatus
    BY <1>5, <1>7
<1> QED
    BY <1>6, <1>7, <1>8, <1>9

LEMMA TasksKnownBy == (TasksKnown <=> \A t \in Tasks : KnownTask(t)) /\ (TasksKnown' <=> \A t \in Tasks : KnownTask(t)')
  BY Zenon DEF TasksKnown

\* A poll that is answered tells the scheduler nothing that is not true.
LEMMA CollectKnown ==
    ASSUME BfiaInductive, PartyGrows, NEW c \in Call, Sound(c), NEW ok, Collect(c, ok),
           UNCHANGED <<sjob, sstat, mem>>, c.op = "poll" => row' = row
    PROVE  /\ TasksKnown' /\ SchedulerTypes'
           /\ \A x \in Tasks \X Parties : srow[x] # None => srow'[x] # None
<1>1. SchedulerTypes /\ TasksKnown
    BY TypeParts DEF BfiaInductive
<1>2. CASE ~(c.op = "poll" /\ ok /\ c.p \in PartiesOf(c.t))
  <2>1. srow' = srow
      BY <1>2 DEF Collect
  <2> QED
      BY <1>1, <2>1, TasksKnownSame DEF SchedulerTypes
<1>3. CASE c.op = "poll" /\ ok /\ c.p \in PartiesOf(c.t)
  <2> DEFINE at0 == <<c.t, c.p>>
  <2>1. c.t \in Tasks /\ Begun(c.t) /\ c.p \in Parties /\ at0 \in Tasks \X Parties
      BY <1>3 DEF Sound, Call
  <2> PICK a : a = Answer(c.p, c.t)
      OBVIOUS
  <2>2. /\ a \in TaskStatus
        /\ a = "SUCCESS" => \A x \in Runs : x[1] = c.t /\ PartyOf[x[2]] = c.p => row[x] = "SUCCESS"
      BY <1>3, <2>1, AnswerIsRows
  <2> PICK old : old = srow[at0]
      OBVIOUS
  <2>3. old \in TaskStatus \cup {None}
      BY <1>1, <2>1 DEF SchedulerTypes
  <2> PICK new : new = TaskMoved(old, a)
      OBVIOUS
  <2>4. new \in {old, a} /\ (old = None => new = None)
      BY <2>2, <2>3, Moved
  <2>5. srow' = [srow EXCEPT ![at0] = new]
      BY <1>3 DEF Collect
  <2>6. /\ srow'[at0] = new
        /\ \A x \in Tasks \X Parties : x # at0 => srow'[x] = srow[x]
        /\ srow' \in [Tasks \X Parties -> TaskStatus \cup {None}]
      BY <1>1, <2>1, <2>2, <2>3, <2>4, <2>5 DEF SchedulerTypes
  <2>7. SchedulerTypes'
      BY <1>1, <2>6 DEF SchedulerTypes
  <2>8. None \notin TaskStatus
      BY DEF TaskStatus, None
  <2>9. ASSUME NEW x \in Tasks \X Parties, srow[x] # None PROVE srow'[x] # None
      BY <2>2, <2>4, <2>6, <2>8, <2>9
  <2>10. ASSUME NEW t \in Tasks PROVE KnownTask(t)'
    <3>1. KnownTask(t)
        BY <1>1, TasksKnownBy
    <3>2. sstat' = sstat /\ mem' = mem /\ row' = row
        BY <1>3
    <3>3. (Begun(t) => Begun(t)') /\ (Real(t) => Real(t)')
        BY FactsStay
    <3>4. ASSUME NEW p \in Parties
          PROVE  /\ srow'[<<t, p>>] \notin {None, "READY"} => Begun(t)'
                 /\ srow'[<<t, p>>] = "SUCCESS" => \A x \in Runs : x[1] = t /\ PartyOf[x[2]] = p => row'[x] = "SUCCESS"
      <4>1. CASE <<t, p>> = at0
        <5>1. t = c.t /\ p = c.p /\ srow'[<<t, p>>] = new /\ old = srow[<<t, p>>]
            BY <4>1, <2>6
        <5>2. new = "SUCCESS" => \A x \in Runs : x[1] = t /\ PartyOf[x[2]] = p => row[x] = "SUCCESS"
            BY <5>1, <2>2, <2>4, <3>1 DEF KnownTask
        <5> QED
            BY <5>1, <5>2, <2>1, <3>2, <3>3
      <4>2. CASE <<t, p>> # at0
        <5>1. srow'[<<t, p>>] = srow[<<t, p>>]
            BY <4>2, <2>6
        <5> QED
            BY <5>1, <3>1, <3>2, <3>3 DEF KnownTask
      <4> QED
          BY <4>1, <4>2
    <3> QED
        BY <3>1, <3>2, <3>3, <3>4 DEF KnownTask
  <2> QED
      BY <2>7, <2>9, <2>10, TasksKnownBy
<1> QED
    BY <1>2, <1>3

LEMMA CreatedStays ==
    ASSUME TasksCreated, UNCHANGED <<sstat, at>>, \A x \in Tasks \X Parties : srow[x] # None => srow'[x] # None
    PROVE  TasksCreated'
<1>1. ASSUME Created PROVE Created'
  <2> SUFFICES ASSUME NEW t \in Tasks PROVE sstat'[t] # None /\ \A p \in PartiesOf(t) : srow'[<<t, p>>] # None
      BY Zenon DEF Created
  <2>1. PartiesOf(t) \subseteq Parties
      BY FiniteParts
  <2> QED
      BY <1>1, <2>1 DEF Created
<1> QED
    BY <1>1 DEF TasksCreated

\* A call is made and answered.
LEMMA AnsweredStep ==
    ASSUME BfiaInductive, NEW th \in Threads, Answered(th)
    PROVE  BfiaInductive'
<1> PICK c : c = Head(calls[th])
    OBVIOUS
<1>1. calls[th] # <<>> /\ UNCHANGED <<sjob, sstat, roundVars, stopping, stops>>
    BY DEF Answered, Ready
<1>2. PICK ok \in BOOLEAN, broken \in SUBSET Runs :
        Handle(c, ok, broken) /\ Spend(Cardinality(broken)) /\ Collect(c, ok) /\ Return(th, ok)
    BY Zenon DEF Answered
<1>3. c \in Call /\ Sound(c)
    BY <1>1, NextCall
<1>4. /\ PartyTypes' /\ RunsFit' /\ PartyGrows /\ outs' = outs /\ killing \subseteq killing'
      /\ c.op # "start task" => row' = row /\ box' = box
      /\ c.op = "start task" => \A x \in Runs : x[1] = c.t /\ PartyOf[x[2]] = c.p => row'[x] # None
      /\ c.op = "stop" /\ c.t = All =>
           \A x \in Runs : PartyOf[x[2]] = c.p /\ row[x] # None => x \in killing'
      /\ Calm /\ broken = {} => \A x \in Runs : row'[x] = "RUNNING" => box'[x] \in Alive
    BY <1>2, <1>3, HandleParty, Zenon
<1>5. IsFiniteSet(broken) /\ Cardinality(broken) \in Nat /\ (Cardinality(broken) = 0 => broken = {})
    BY FiniteParts, FS_Subset, FS_CardinalityType, FS_EmptySet
<1>6. faults \in Nat /\ MaxFaults \in Nat /\ stops \in 0..MaxStops
    BY TypeParts, BfiaAssumption DEF BfiaInductive, BoundTypes
<1>7. faults' = faults + Cardinality(broken) /\ faults + Cardinality(broken) =< MaxFaults
    BY <1>2 DEF Spend
<1>8. BoundTypes' /\ (Calm' => Calm /\ broken = {})
    BY <1>1, <1>5, <1>6, <1>7 DEF BoundTypes, Calm
<1>9. CallTypes' /\ FewerCalls(th) /\ (bad["round"] => bad'["round"])
    BY <1>1, <1>2, ReturnTypes
<1>10. mem' = mem /\ at' = at /\ UNCHANGED roundVars
    BY <1>1 DEF roundVars
<1>11. /\ TasksKnown' /\ SchedulerTypes'
       /\ \A x \in Tasks \X Parties : srow[x] # None => srow'[x] # None
    BY <1>1, <1>2, <1>3, <1>4, <1>10, CollectKnown
<1>12. RoundTypes'
    BY <1>10, TypeParts DEF BfiaInductive, RoundTypes, roundVars
<1>13. TypeOK'
    BY <1>4, <1>8, <1>9, <1>11, <1>12, TypePartsNext
<1>14. TasksCreated'
    BY <1>1, <1>10, <1>11, CreatedStays DEF BfiaInductive
<1>15. CallsSound'
    BY <1>1, <1>4, <1>9, CallsSoundAmong
<1>16. RoundFits'
  <2>1. bad' \in [Threads -> BOOLEAN]
      BY <1>9 DEF CallTypes
  <2> QED
      BY <1>1, <1>4, <1>9, <1>10, <2>1, RoundFitsAmong
<1>17. CalmFits'
  <2> SUFFICES ASSUME Calm' PROVE CalmFits'
      BY DEF CalmFits
  <2>1. CalmFits /\ RoundFits /\ CallsSound /\ RunsFit
      BY DEF BfiaInductive
  <2>2. Calm /\ broken = {}
      BY <1>8
  <2>3. /\ ~stopping' /\ calls["stop"] = <<>> /\ th # "stop" /\ at' = at /\ sjob' = sjob
        /\ \A x \in Runs : row'[x] = "RUNNING" => box'[x] \in Alive
      BY <1>1, <1>4, <1>10, <2>1, <2>2 DEF CalmFits
  <2>4. calls'["stop"] = <<>>
      BY <1>1, <1>9, <2>3, CallsAmong DEF Threads
  <2>5. /\ at = "starting" => sjob = "READY"
        /\ at \notin {"idle", "starting"} => sjob = "RUNNING"
        /\ sjob = "FINISHED" => \A x \in Runs : box[x] \in Alive => x \in killing
        /\ at = "finish" => \A x \in Runs : box[x] \in Alive => x \in killing \/ Open("round", PartyOf[x[2]])
      BY <2>1, <2>2 DEF CalmFits
  <2>6. th = "create" => c.op = "create"
      BY <1>1, <2>1, NextCall DEF CallsSound
  <2>7. th = "round" => OfPhase(c) /\ at # "idle"
      BY <1>1, <2>1, NextCall DEF RoundFits
  <2>8. th \in {"create", "round"}
      BY <2>3 DEF Threads
  <2>9. ASSUME sjob = "FINISHED", NEW x \in Runs, box'[x] \in Alive PROVE x \in killing'
    <3>1. th = "create"
        BY <2>5, <2>7, <2>8, <2>9
    <3> QED
        BY <3>1, <1>4, <2>5, <2>6, <2>9
  <2>10. ASSUME at = "finish", NEW x \in Runs, box'[x] \in Alive
         PROVE  x \in killing' \/ \E i \in DOMAIN calls'["round"] : calls'["round"][i].p = PartyOf[x[2]]
    <3>1. box' = box
        BY <1>4, <2>6, <2>7, <2>8, <2>10 DEF OfPhase
    <3>2. x \in killing \/ \E i \in DOMAIN calls["round"] : calls["round"][i].p = PartyOf[x[2]]
        BY <2>5, <2>10, <3>1 DEF Open
    <3>3. row[x] # None
        BY <2>1, <2>10, <3>1 DEF RunsFit, Alive, None
    <3>4. CASE x \in killing
        BY <3>4, <1>4
    <3>5. CASE th = "create"
      <4>1. calls'["round"] = calls["round"]
          BY <1>1, <1>9, <3>5, CallsAmong DEF Threads
      <4> QED
          BY <3>2, <4>1, <1>4
    <3>6. CASE th = "round" /\ x \notin killing
      <4>1. PICK i \in DOMAIN calls["round"] : calls["round"][i].p = PartyOf[x[2]]
          BY <3>2, <3>6
      <4>2. calls["round"][i] = c
            \/ \E j \in DOMAIN Tail(calls["round"]) : Tail(calls["round"])[j] = calls["round"][i]
          BY <1>1, <3>6, NextCall
      <4>3. CASE calls["round"][i] = c
          BY <3>3, <3>6, <4>1, <4>3, <1>4, <2>7, <2>10 DEF OfPhase
      <4>4. CASE \E j \in DOMAIN Tail(calls["round"]) : Tail(calls["round"])[j] = calls["round"][i]
        <5>1. calls'["round"] = calls["round"] \/ calls'["round"] = Tail(calls["round"])
            BY <1>1, <1>9, <3>6, CallsAmong
        <5> QED
            BY <4>1, <4>4, <5>1
      <4> QED
          BY <4>2, <4>3, <4>4
    <3> QED
        BY <2>8, <3>4, <3>5, <3>6
  <2> QED
      BY <2>3, <2>4, <2>5, <2>9, <2>10 DEF CalmFits, Open
<1> QED
    BY <1>4, <1>11, <1>13, <1>14, <1>15, <1>16, <1>17 DEF BfiaInductive

\* A call is made or lost, and the answer does not come.
LEMMA UnansweredStep ==
    ASSUME BfiaInductive, NEW th \in Threads, Unanswered(th)
    PROVE  BfiaInductive'
<1> PICK c : c = Head(calls[th])
    OBVIOUS
<1>1. calls[th] # <<>> /\ UNCHANGED <<schedulerVars, roundVars, stopping, stops>>
    BY DEF Unanswered, Ready
<1>2. c \in Call /\ Sound(c)
    BY <1>1, NextCall
<1>3. faults \in Nat /\ MaxFaults \in Nat /\ stops \in 0..MaxStops /\ TryTimes \in Nat
    BY TypeParts, BfiaAssumption DEF BfiaInductive, BoundTypes
<1>4. PartyTypes' /\ RunsFit' /\ PartyGrows /\ faults' \in 0..MaxFaults /\ faults' > faults
  <2>1. CASE UNCHANGED partyVars /\ Spend(1)
    <3>1. PartyTypes /\ RunsFit
        BY TypeParts DEF BfiaInductive
    <3> QED
        BY <2>1, <3>1, <1>3, RunsFitSame, SamePartyGrows DEF partyVars, PartyTypes, Spend
  <2>2. CASE \E ok \in BOOLEAN, broken \in SUBSET Runs : Handle(c, ok, broken) /\ Spend(1 + Cardinality(broken))
    <3>1. PICK ok \in BOOLEAN, broken \in SUBSET Runs : Handle(c, ok, broken) /\ Spend(1 + Cardinality(broken))
        BY <2>2
    <3>2. Cardinality(broken) \in Nat
        BY FiniteParts, FS_Subset, FS_CardinalityType
    <3>3. PartyTypes' /\ RunsFit' /\ PartyGrows
        BY <1>2, <3>1, HandleParty, Zenon
    <3>4. faults' \in 0..MaxFaults /\ faults' > faults
        BY <1>3, <3>1, <3>2 DEF Spend
    <3> QED
        BY <3>3, <3>4
  <2> QED
      BY <2>1, <2>2, Zenon DEF Unanswered
<1>5. ~Calm' /\ BoundTypes'
    BY <1>1, <1>3, <1>4 DEF Calm, BoundTypes
<1>6. \/ UNCHANGED <<calls, bad>> /\ try[th] < TryTimes /\ try' = [try EXCEPT ![th] = @ + 1]
      \/ Return(th, FALSE)
    BY Zenon DEF Unanswered
<1>7. CallTypes' /\ FewerCalls(th) /\ (bad["round"] => bad'["round"]) /\ (calls' = calls \/ bad'[th])
  <2>1. CASE UNCHANGED <<calls, bad>> /\ try[th] < TryTimes /\ try' = [try EXCEPT ![th] = @ + 1]
    <3>1. CallTypes
        BY TypeParts DEF BfiaInductive
    <3>2. try[th] \in 1..TryTimes /\ try[th] + 1 \in 1..TryTimes
        BY <1>3, <2>1, <3>1 DEF CallTypes
    <3>3. try' \in [Threads -> 1..TryTimes]
        BY <2>1, <3>1, <3>2 DEF CallTypes
    <3> QED
        BY <1>1, <2>1, <3>1, <3>3 DEF CallTypes, FewerCalls
  <2>2. CASE Return(th, FALSE)
      BY <1>1, <2>2, ReturnTypes
  <2> QED
      BY <1>6, <2>1, <2>2
<1>8. mem' = mem /\ at' = at /\ sjob' = sjob /\ sstat' = sstat /\ srow' = srow /\ UNCHANGED roundVars
    BY <1>1 DEF roundVars, schedulerVars
<1>9. TasksKnown'
    BY <1>4, <1>8, TasksKnownSame DEF BfiaInductive
<1>10. RoundTypes' /\ SchedulerTypes'
    BY <1>8, TypeParts DEF BfiaInductive, RoundTypes, SchedulerTypes, roundVars
<1>11. TypeOK'
    BY <1>4, <1>5, <1>7, <1>10, TypePartsNext
<1>12. TasksCreated'
    BY <1>8, CreatedStays DEF BfiaInductive
<1>13. CallsSound'
    BY <1>1, <1>4, <1>7, CallsSoundAmong
<1>14. RoundFits'
  <2>1. bad' \in [Threads -> BOOLEAN]
      BY <1>7 DEF CallTypes
  <2>2. calls' = calls \/ th # "round" \/ bad'["round"]
      BY <1>7
  <2> QED
      BY <1>1, <1>4, <1>7, <1>8, <2>1, <2>2, RoundFitsAmong
<1>15. CalmFits'
    BY <1>5 DEF CalmFits
<1> QED
    BY <1>4, <1>9, <1>11, <1>12, <1>13, <1>14, <1>15 DEF BfiaInductive
-----------------------------------------------------------------------------
(* What the steps of the scheduler have in common *)

LEMMA SchedulerStep ==
    ASSUME BfiaInductive, UNCHANGED partyVars,
           SchedulerTypes', RoundTypes', CallTypes', BoundTypes',
           TasksKnown', TasksCreated', CallsSound', RoundFits', CalmFits'
    PROVE  BfiaInductive'
<1>1. PartyTypes' /\ RunsFit'
    BY TypeParts, RunsFitSame DEF BfiaInductive, PartyTypes, partyVars
<1>2. TypeOK'
    BY <1>1, TypePartsNext
<1> QED
    BY <1>1, <1>2 DEF BfiaInductive

\* What stays when its variables do.
LEMMA SchedulerKept ==
    ASSUME BfiaInductive
    PROVE  /\ UNCHANGED schedulerVars => SchedulerTypes'
           /\ UNCHANGED roundVars => RoundTypes'
           /\ UNCHANGED callVars => CallTypes'
           /\ UNCHANGED <<faults, stops>> => BoundTypes'
           /\ UNCHANGED <<sstat, srow, mem>> /\ UNCHANGED partyVars => TasksKnown'
           /\ UNCHANGED <<sstat, srow>> /\ (at' \in {"idle", "starting"} \/ at \notin {"idle", "starting"}) => TasksCreated'
           /\ UNCHANGED calls /\ UNCHANGED partyVars => CallsSound'
           /\ UNCHANGED <<at, left, calls, bad>> /\ UNCHANGED partyVars => RoundFits'
<1>1. SchedulerTypes /\ RoundTypes /\ CallTypes /\ BoundTypes
    BY TypeParts DEF BfiaInductive
<1>2. TasksKnown /\ TasksCreated /\ CallsSound /\ RoundFits
    BY DEF BfiaInductive
<1>3. /\ UNCHANGED schedulerVars => SchedulerTypes'
      /\ UNCHANGED roundVars => RoundTypes'
      /\ UNCHANGED callVars => CallTypes'
      /\ UNCHANGED <<faults, stops>> => BoundTypes'
    BY <1>1 DEF SchedulerTypes, RoundTypes, CallTypes, BoundTypes, schedulerVars, roundVars, callVars
<1>4. /\ UNCHANGED <<sstat, srow, mem>> /\ UNCHANGED partyVars => TasksKnown'
      /\ UNCHANGED calls /\ UNCHANGED partyVars => CallsSound'
      /\ UNCHANGED <<at, left, calls, bad>> /\ UNCHANGED partyVars => RoundFits'
    BY <1>2, SamePartyGrows, TasksKnownSame, CallsSoundSame, RoundFitsSame
<1>5. UNCHANGED <<sstat, srow>> /\ (at' \in {"idle", "starting"} \/ at \notin {"idle", "starting"}) => TasksCreated'
    BY <1>2 DEF TasksCreated, Created
<1> QED
    BY <1>3, <1>4, <1>5

\* A thread sends calls that are sound.
LEMMA SendStep ==
    ASSUME BfiaInductive, UNCHANGED partyVars, NEW th \in Threads, NEW cs \in Seq(Call),
           calls' = [calls EXCEPT ![th] = cs], \A i \in DOMAIN cs : Sound(cs[i]),
           th # "round" => \A i \in DOMAIN cs : cs[i].op = th
    PROVE  /\ CallsSound' /\ calls' \in [Threads -> Seq(Call)] /\ calls'[th] = cs
           /\ \A h \in Threads : h # th => calls'[h] = calls[h]
<1>1. calls \in [Threads -> Seq(Call)] /\ CallsSound
    BY TypeParts DEF BfiaInductive, CallTypes
<1>2. /\ calls' \in [Threads -> Seq(Call)] /\ calls'[th] = cs
      /\ \A h \in Threads : h # th => calls'[h] = calls[h]
    BY <1>1
<1>3. ASSUME NEW h \in Threads, NEW i \in DOMAIN calls'[h] PROVE Sound(calls[h][i])'
  <2> PICK c : c = calls'[h][i]
      OBVIOUS
  <2>1. Sound(c)
    <3>1. CASE h = th
        BY <3>1, <1>2
    <3>2. CASE h # th
        BY <3>2, <1>1, <1>2 DEF CallsSound
    <3> QED
        BY <3>1, <3>2
  <2>2. Sound(c)'
      BY <2>1, SamePartyGrows, SoundStays
  <2> QED
      BY <2>2 DEF Sound, Begun, Stored
<1>4. /\ \A i \in DOMAIN calls'["create"] : calls'["create"][i].op = "create"
      /\ \A i \in DOMAIN calls'["stop"] : calls'["stop"][i].op = "stop"
    BY <1>1, <1>2 DEF CallsSound, Threads
<1> QED
    BY <1>2, <1>3, <1>4 DEF CallsSound

LEMMA SendTypes ==
    ASSUME BfiaInductive, NEW th \in Threads, NEW cs \in Seq(Call), Send(th, cs), UNCHANGED stopping
    PROVE  /\ CallTypes' /\ bad'[th] = FALSE /\ calls' = [calls EXCEPT ![th] = cs]
           /\ \A h \in Threads : h # th => bad'[h] = bad[h]
<1>1. CallTypes
    BY TypeParts DEF BfiaInductive
<1>2. calls' = [calls EXCEPT ![th] = cs] /\ bad' = [bad EXCEPT ![th] = FALSE] /\ try' = try /\ stopping' = stopping
    BY DEF Send
<1>3. calls' \in [Threads -> Seq(Call)] /\ bad' \in [Threads -> BOOLEAN]
    BY <1>1, <1>2 DEF CallTypes
<1>4. bad'[th] = FALSE /\ \A h \in Threads : h # th => bad'[h] = bad[h]
    BY <1>1, <1>2 DEF CallTypes
<1> QED
    BY <1>1, <1>2, <1>3, <1>4 DEF CallTypes

\* A thread may have no calls to make.
LEMMA EmptyCalls == <<>> \in Seq(Call) /\ DOMAIN <<>> = {}
  OBVIOUS

\* The round goes on: its calls fit where it is.
LEMMA RoundOn ==
    ASSUME BfiaInductive, NEW cs \in Seq(Call), calls'["round"] = cs,
           at' = "idle" => cs = <<>>, at' \in {"sync", "started"} => left' # <<>>,
           \A i \in DOMAIN cs :
              /\ at' = "starting" => cs[i].op = "start job"
              /\ at' \in {"tasks", "start"} => cs[i].op = "stop"
              /\ at' = "sync" => cs[i].op = "poll"
              /\ at' = "started" => cs[i].op = "start task" /\ cs[i].t = Head(left')
              /\ at' = "finish" => cs[i].op = "stop" /\ cs[i].t = All,
           at' = "started" => \A x \in Runs : x[1] = Head(left') => \E i \in DOMAIN cs : cs[i].p = PartyOf[x[2]]
    PROVE  RoundFits'
  BY DEF RoundFits, OfPhase, Open

\* The calls that stop the job or a task at all parties.
LEMMA StopCalls ==
    ASSUME NEW t \in Named
    PROVE  CallsTo(Stop(t), "stop", Parties, t)
<1>1. "stop" \in Kinds /\ Parties \in SUBSET Parties
    BY DEF Kinds
<1> QED
    BY <1>1, ToNodes DEF Stop

\* The job is FINISHED and what ran is FAILED; nothing becomes SUCCESS by it.
LEMMA StoppedStep ==
    ASSUME BfiaInductive, Stopped, mem' = mem, at' \in {at, "idle"}, UNCHANGED partyVars
    PROVE  /\ SchedulerTypes' /\ TasksKnown' /\ TasksCreated' 
           /\ sjob' \in {sjob, "FINISHED"}
<1>1. SchedulerTypes /\ TasksKnown /\ TasksCreated
    BY TypeParts DEF BfiaInductive
<1> DEFINE running == {x \in Tasks \X Parties : srow[x] = "RUNNING"}
<1>2. /\ sjob' = JobMoved(sjob, "FINISHED")
      /\ srow' = [x \in Tasks \X Parties |-> IF x \in running THEN "FAILED" ELSE srow[x]]
      /\ sstat' = [t \in Tasks |-> IF \E x \in running : x[1] = t THEN TaskMoved(sstat[t], "FAILED") ELSE sstat[t]]
    BY Zenon DEF Stopped
<1>3. sjob' \in {sjob, "FINISHED"} /\ "FINISHED" \in JobStatus
    BY <1>1, <1>2, JobMovedType DEF SchedulerTypes, JobStatus
<1>4. \A t \in Tasks : TaskMoved(sstat[t], "FAILED") \in {sstat[t], "FAILED"}
                       /\ (sstat[t] = None => TaskMoved(sstat[t], "FAILED") = None)
    BY <1>1, Moved DEF SchedulerTypes, TaskStatus
<1>5. \A x \in Tasks \X Parties : srow'[x] = IF srow[x] = "RUNNING" THEN "FAILED" ELSE srow[x]
    BY <1>2
<1> HIDE DEF running
<1>6. \A t \in Tasks : sstat'[t] \in {sstat[t], "FAILED"} /\ (sstat[t] = None <=> sstat'[t] = None)
    BY <1>2, <1>4 DEF None
<1>7. SchedulerTypes'
  <2>1. srow' \in [Tasks \X Parties -> TaskStatus \cup {None}]
      BY <1>1, <1>2 DEF SchedulerTypes, TaskStatus
  <2>2. sstat' \in [Tasks -> TaskStatus \cup {None}]
    <3>1. \A t \in Tasks : sstat'[t] \in TaskStatus \cup {None}
        BY <1>1, <1>6 DEF SchedulerTypes, TaskStatus
    <3>2. \E f : sstat' = [t \in Tasks |-> f[t]]
      <4>1. sstat' = [t \in Tasks |-> sstat'[t]]
          BY <1>2
      <4> QED
          BY <4>1
    <3> QED
        BY <3>1, <3>2
  <2> QED
      BY <1>1, <1>3, <2>1, <2>2 DEF SchedulerTypes
<1>8. ASSUME NEW t \in Tasks PROVE KnownTask(t)'
  <2>1. KnownTask(t)
      BY <1>1, TasksKnownBy
  <2>2. (Begun(t) => Begun(t)') /\ (Real(t) => Real(t)')
      BY SamePartyGrows, FactsStay
  <2>3. row' = row /\ mem' = mem
      BY DEF partyVars
  <2>4. \A p \in Parties : srow'[<<t, p>>] = IF srow[<<t, p>>] = "RUNNING" THEN "FAILED" ELSE srow[<<t, p>>]
      BY <1>5
  <2> QED
      BY <1>6, <2>1, <2>2, <2>3, <2>4 DEF KnownTask, None
<1>9. TasksCreated'
  <2>1. ASSUME Created PROVE Created'
    <3> SUFFICES ASSUME NEW t \in Tasks PROVE sstat'[t] # None /\ \A p \in PartiesOf(t) : srow'[<<t, p>>] # None
        BY Zenon DEF Created
    <3>1. PartiesOf(t) \subseteq Parties
        BY FiniteParts
    <3> QED
        BY <1>5, <1>6, <2>1, <3>1 DEF Created, None
  <2> QED
      BY <1>1, <1>6, <2>1 DEF TasksCreated
<1> QED
    BY <1>3, <1>7, <1>8, <1>9, TasksKnownBy
-----------------------------------------------------------------------------
(* Creating and stopping a job *)

LEMMA Calmer ==
    ASSUME BfiaInductive, UNCHANGED <<faults, stops>>
    PROVE  Calm' <=> Calm
  BY DEF Calm

\* A thread of another kind does not change the round's calls.
LEMMA RoundUntouched ==
    ASSUME BfiaInductive, UNCHANGED partyVars, UNCHANGED <<at, left>>,
           calls'["round"] = calls["round"], bad'["round"] = bad["round"]
    PROVE  RoundFits'
<1>1. RoundFits /\ PartyGrows
    BY SamePartyGrows DEF BfiaInductive
<1> QED
    BY <1>1 DEF RoundFits, OfPhase, Open, PartyGrows

\* The job is stored, and the parties are called to create it.
LEMMA SubmitStep ==
    ASSUME BfiaInductive, SubmitJob
    PROVE  BfiaInductive'
<1> PICK cs : cs = To("create", Parties, All)
    OBVIOUS
<1>1. /\ sjob = None /\ sjob' = "READY" /\ Send("create", cs)
      /\ UNCHANGED <<sstat, srow, roundVars, stopping, faults, stops>> /\ UNCHANGED partyVars
    BY DEF SubmitJob
<1>2. CallsTo(cs, "create", Parties, All)
  <2>1. "create" \in Kinds /\ All \in Named /\ Parties \in SUBSET Parties
      BY DEF Kinds, Named
  <2> QED
      BY <2>1, ToNodes
<1>3. cs \in Seq(Call) /\ \A i \in DOMAIN cs : Sound(cs[i]) /\ cs[i].op = "create"
    BY <1>2 DEF CallsTo, Sound
<1>4. "create" \in Threads /\ "round" \in Threads /\ "stop" \in Threads
    BY DEF Threads
<1>5. CallTypes' /\ calls' = [calls EXCEPT !["create"] = cs] /\ bad'["round"] = bad["round"]
    BY <1>1, <1>3, <1>4, SendTypes
<1>6. CallsSound' /\ calls'["round"] = calls["round"] /\ calls'["stop"] = calls["stop"]
  <2> PICK th \in Threads : th = "create"
      BY <1>4
  <2>1. calls' = [calls EXCEPT ![th] = cs] /\ \A i \in DOMAIN cs : Sound(cs[i]) /\ cs[i].op = th
      BY <1>3, <1>5
  <2>2. CallsSound' /\ \A h \in Threads : h # th => calls'[h] = calls[h]
      BY <1>1, <1>3, <2>1, SendStep
  <2> QED
      BY <1>4, <2>2
<1>7. SchedulerTypes'
    BY <1>1, TypeParts DEF BfiaInductive, SchedulerTypes, JobStatus
<1>8. at' = at /\ left' = left /\ mem' = mem /\ UNCHANGED roundVars
    BY <1>1 DEF roundVars
<1>9. RoundTypes' /\ BoundTypes' /\ TasksKnown' /\ TasksCreated'
    BY <1>1, <1>8, SchedulerKept
<1>10. RoundFits'
    BY <1>1, <1>6, <1>5, <1>8, RoundUntouched
<1>11. CalmFits'
  <2>1. CalmFits /\ row' = row /\ box' = box /\ killing' = killing
      BY <1>1 DEF BfiaInductive, partyVars
  <2>2. None \notin {"READY", "RUNNING"}
      BY DEF None
  <2> QED
      BY <1>1, <1>6, <1>8, <2>1, <2>2 DEF CalmFits, Calm, Open
<1> QED
    BY <1>1, <1>5, <1>6, <1>7, <1>9, <1>10, <1>11, SchedulerStep

\* All tasks become READY together.
LEMMA CreateTasksStep ==
    ASSUME BfiaInductive, CreateTasks
    PROVE  BfiaInductive'
<1>1. /\ \A t \in Tasks : sstat[t] = None
      /\ sstat' = [t \in Tasks |-> "READY"]
      /\ srow' = [x \in Tasks \X Parties |-> IF x[2] \in PartiesOf(x[1]) THEN "READY" ELSE None]
      /\ UNCHANGED <<sjob, roundVars, faults, stops>> /\ UNCHANGED callVars /\ UNCHANGED partyVars
    BY DEF CreateTasks
<1>2. SchedulerTypes'
    BY <1>1, TypeParts DEF BfiaInductive, SchedulerTypes, TaskStatus
<1>3. at' = at /\ left' = left /\ mem' = mem /\ UNCHANGED roundVars
    BY <1>1 DEF roundVars
<1>4. calls' = calls /\ bad' = bad /\ stopping' = stopping
    BY <1>1 DEF callVars
<1>5. RoundTypes' /\ BoundTypes' /\ CallTypes' /\ CallsSound' /\ RoundFits'
    BY <1>1, <1>3, <1>4, SchedulerKept
<1>6. ASSUME NEW t \in Tasks PROVE KnownTask(t)'
  <2>1. KnownTask(t)
      BY TasksKnownBy DEF BfiaInductive
  <2>2. (Begun(t) => Begun(t)') /\ (Real(t) => Real(t)')
      BY <1>1, SamePartyGrows, FactsStay
  <2>3. sstat'[t] = "READY" /\ \A p \in Parties : srow'[<<t, p>>] \in {None, "READY"}
      BY <1>1
  <2> QED
      BY <1>3, <2>1, <2>2, <2>3 DEF KnownTask, None
<1>7. TasksKnown'
    BY <1>6, TasksKnownBy
<1>8. Created'
  <2> SUFFICES ASSUME NEW t \in Tasks PROVE sstat'[t] # None /\ \A p \in PartiesOf(t) : srow'[<<t, p>>] # None
      BY Zenon DEF Created
  <2>1. PartiesOf(t) \subseteq Parties
      BY FiniteParts
  <2> QED
      BY <1>1, <2>1 DEF None
<1>9. TasksCreated'
    BY <1>8 DEF TasksCreated
<1>10. CalmFits'
  <2>1. CalmFits /\ row' = row /\ box' = box /\ killing' = killing
      BY <1>1 DEF BfiaInductive, partyVars
  <2> QED
      BY <1>1, <1>3, <1>4, <2>1 DEF CalmFits, Calm, Open
<1> QED
    BY <1>1, <1>2, <1>5, <1>7, <1>9, <1>10, SchedulerStep

\* The request to stop has reached the parties; there is none in calm.
LEMMA StopAllStep ==
    ASSUME BfiaInductive, StopAll
    PROVE  BfiaInductive'
<1>1. /\ stopping /\ Stopped /\ stopping' = FALSE /\ bad' = [bad EXCEPT !["stop"] = FALSE]
      /\ UNCHANGED <<roundVars, calls, try, faults, stops>> /\ UNCHANGED partyVars
    BY DEF StopAll
<1>2. at' = at /\ left' = left /\ mem' = mem /\ UNCHANGED roundVars
    BY <1>1 DEF roundVars
<1>3. SchedulerTypes' /\ TasksKnown' /\ TasksCreated'
    BY <1>1, <1>2, StoppedStep
<1>4. CallTypes' /\ bad'["round"] = bad["round"]
    BY <1>1, TypeParts DEF BfiaInductive, CallTypes, Threads
<1>5. RoundTypes' /\ BoundTypes' /\ CallsSound'
    BY <1>1, <1>2, SchedulerKept
<1>6. RoundFits'
    BY <1>1, <1>2, <1>4, RoundUntouched
<1>7. CalmFits'
    BY <1>1, Calmer DEF BfiaInductive, CalmFits
<1> QED
    BY <1>1, <1>3, <1>4, <1>5, <1>6, <1>7, SchedulerStep

\* The thread that stops the job sends its calls.
LEMMA AskKept ==
    ASSUME BfiaInductive, AskToStop, UNCHANGED partyVars
    PROVE  CallTypes' /\ CallsSound' /\ calls'["round"] = calls["round"] /\ bad' = bad
<1> PICK cs : cs = Stop(All)
    OBVIOUS
<1>1. CallsTo(cs, "stop", Parties, All)
    BY StopCalls DEF Named
<1>2. cs \in Seq(Call) /\ \A i \in DOMAIN cs : Sound(cs[i]) /\ cs[i].op = "stop"
    BY <1>1 DEF CallsTo, Sound
<1>3. calls' = [calls EXCEPT !["stop"] = cs] /\ stopping' = TRUE /\ try' = try /\ bad' = bad
    BY DEF AskToStop
<1>4. "stop" \in Threads /\ "round" \in Threads
    BY DEF Threads
<1>5. CallsSound' /\ calls' \in [Threads -> Seq(Call)] /\ calls'["round"] = calls["round"]
  <2> PICK th \in Threads : th = "stop"
      BY <1>4
  <2>1. calls' = [calls EXCEPT ![th] = cs] /\ \A i \in DOMAIN cs : Sound(cs[i]) /\ cs[i].op = th
      BY <1>2, <1>3
  <2>2. CallsSound' /\ calls' \in [Threads -> Seq(Call)] /\ \A h \in Threads : h # th => calls'[h] = calls[h]
      BY <1>2, <2>1, SendStep
  <2> QED
      BY <1>4, <2>2
<1>6. CallTypes'
    BY <1>3, <1>5, TypeParts DEF BfiaInductive, CallTypes
<1> QED
    BY <1>3, <1>5, <1>6

\* In calm no detector finds a container that is gone.
LEMMA DetectStep ==
    ASSUME BfiaInductive, NEW x \in Runs, DetectRunning(x)
    PROVE  BfiaInductive'
<1>1. /\ row[x] = "RUNNING" /\ Gone(x) /\ AskToStop
      /\ UNCHANGED <<roundVars, faults, stops>> /\ UNCHANGED schedulerVars /\ UNCHANGED partyVars
    BY DEF DetectRunning
<1>2. at' = at /\ left' = left /\ mem' = mem /\ sstat' = sstat /\ srow' = srow /\ UNCHANGED roundVars
    BY <1>1 DEF roundVars, schedulerVars
<1>3. CallTypes' /\ CallsSound' /\ calls'["round"] = calls["round"] /\ bad' = bad
    BY <1>1, AskKept
<1>4. SchedulerTypes' /\ RoundTypes' /\ BoundTypes' /\ TasksKnown' /\ TasksCreated'
    BY <1>1, <1>2, SchedulerKept
<1>5. RoundFits'
    BY <1>1, <1>2, <1>3, RoundUntouched
<1>6. CalmFits'
  <2>1. ~Calm
      BY <1>1 DEF BfiaInductive, CalmFits, Gone, Alive, None
  <2> QED
      BY <1>1, <2>1, Calmer DEF CalmFits
<1> QED
    BY <1>1, <1>3, <1>4, <1>5, <1>6, SchedulerStep

\* A user asks: it is calm no longer.
LEMMA RequestStopStep ==
    ASSUME BfiaInductive, NEW p \in Parties, RequestStop(p)
    PROVE  BfiaInductive'
<1>1. /\ stops < MaxStops /\ stops' = stops + 1 /\ StopJob(p, All)
      /\ (AskToStop /\ UNCHANGED faults) \/ (UNCHANGED callVars /\ Spend(1))
      /\ UNCHANGED schedulerVars /\ UNCHANGED roundVars
    BY DEF RequestStop
<1>2. /\ PartyTypes' /\ UNCHANGED <<row, box, outs>> /\ killing \subseteq killing'
      /\ \A x \in Runs : x \in killing' /\ x \notin killing => row[x] # None
    BY <1>1, StopHandler, TypeParts DEF BfiaInductive
<1>3. PartyGrows
    BY <1>2 DEF PartyGrows
<1>4. RunsFit'
    BY <1>2 DEF BfiaInductive, RunsFit, Inputs
<1>5. faults \in Nat /\ MaxFaults \in Nat /\ stops \in Nat /\ MaxStops \in Nat /\ faults =< MaxFaults
    BY TypeParts, BfiaAssumption DEF BfiaInductive, BoundTypes
<1>6. BoundTypes' /\ ~Calm'
    BY <1>1, <1>5 DEF BoundTypes, Spend, Calm
<1>7. at' = at /\ left' = left /\ mem' = mem /\ sstat' = sstat /\ srow' = srow
    BY <1>1 DEF roundVars, schedulerVars
<1>8. SchedulerTypes' /\ RoundTypes' /\ TasksCreated'
    BY <1>1, <1>7, SchedulerKept
<1>9. TasksKnown'
    BY <1>3, <1>7, TasksKnownSame DEF BfiaInductive
<1>10. CallTypes' /\ CallsSound' /\ RoundFits'
  <2>1. CASE AskToStop
    <3> PICK cs : cs = Stop(All)
        OBVIOUS
    <3>1. CallsTo(cs, "stop", Parties, All)
        BY StopCalls DEF Named
    <3>2. cs \in Seq(Call) /\ \A i \in DOMAIN cs : cs[i].op = "stop"
        BY <3>1 DEF CallsTo
    <3>3. calls' = [calls EXCEPT !["stop"] = cs] /\ stopping' = TRUE /\ try' = try /\ bad' = bad
        BY <2>1 DEF AskToStop
    <3>4. CallTypes /\ CallsSound /\ RoundFits /\ "stop" \in Threads /\ "round" \in Threads
        BY TypeParts DEF BfiaInductive, Threads
    <3>5. /\ calls' \in [Threads -> Seq(Call)] /\ calls'["stop"] = cs
          /\ \A h \in Threads : h # "stop" => calls'[h] = calls[h]
        BY <3>2, <3>3, <3>4 DEF CallTypes
    <3>6. CallTypes'
        BY <3>3, <3>4, <3>5 DEF CallTypes
    <3>7. ASSUME NEW h \in Threads, NEW i \in DOMAIN calls'[h] PROVE Sound(calls[h][i])'
      <4> PICK c : c = calls'[h][i]
          OBVIOUS
      <4>1. CASE h = "stop"
          BY <4>1, <3>2, <3>5 DEF Sound
      <4>2. CASE h # "stop"
        <5>1. Sound(c)
            BY <4>2, <3>4, <3>5 DEF CallsSound
        <5>2. Sound(c)'
            BY <5>1, <1>3, SoundStays
        <5> QED
            BY <5>2 DEF Sound, Begun, Stored
      <4> QED
          BY <4>1, <4>2
    <3>8. CallsSound'
        BY <3>2, <3>4, <3>5, <3>7 DEF CallsSound, Threads
    <3>9. calls'["round"] = calls["round"]
        BY <3>4, <3>5
    <3>10. RoundFits'
        BY <1>3, <1>7, <3>3, <3>4, <3>9 DEF RoundFits, OfPhase, Open, PartyGrows
    <3> QED
        BY <3>6, <3>8, <3>10
  <2>2. CASE UNCHANGED callVars
    <3>1. calls' = calls /\ bad' = bad
        BY <2>2 DEF callVars
    <3> QED
        BY <1>3, <1>7, <2>2, <3>1, SchedulerKept, CallsSoundSame, RoundFitsSame DEF BfiaInductive
  <2> QED
      BY <1>1, <2>1, <2>2
<1>11. CalmFits'
    BY <1>6 DEF CalmFits
<1>12. TypeOK'
    BY <1>2, <1>6, <1>8, <1>10, TypePartsNext
<1> QED
    BY <1>4, <1>8, <1>9, <1>10, <1>11, <1>12 DEF BfiaInductive
-----------------------------------------------------------------------------
(* Rounds: up to the tasks *)

\* The round sends calls: what follows for the threads.
LEMMA RoundSends ==
    ASSUME BfiaInductive, UNCHANGED partyVars, NEW cs \in Seq(Call), Send("round", cs), UNCHANGED stopping,
           \A i \in DOMAIN cs : Sound(cs[i])
    PROVE  /\ CallTypes' /\ CallsSound' /\ calls'["round"] = cs /\ bad'["round"] = FALSE
           /\ calls'["stop"] = calls["stop"]
<1> PICK th \in Threads : th = "round"
    BY DEF Threads
<1>1. CallTypes' /\ bad'[th] = FALSE /\ calls' = [calls EXCEPT ![th] = cs]
    BY SendTypes
<1>2. /\ CallsSound' /\ calls'[th] = cs
      /\ \A h \in Threads : h # th => calls'[h] = calls[h]
    BY <1>1, SendStep
<1> QED
    BY <1>1, <1>2 DEF Threads

\* The round is one of the threads, and its calls are made.
LEMMA RoundReady ==
    ASSUME BfiaInductive, Ready("round")
    PROVE  calls["round"] = <<>> /\ DOMAIN calls["round"] = {}
  BY DEF Ready

\* The round calls the parties to start the job.
LEMMA StartReadyStep ==
    ASSUME BfiaInductive, StartReadyJob
    PROVE  BfiaInductive'
<1> PICK cs : cs = To("start job", Parties, All)
    OBVIOUS
<1>1. /\ at = "idle" /\ sjob = "READY" /\ at' = "starting" /\ Send("round", cs)
      /\ UNCHANGED <<left, mem, code, stopping, faults, stops>> /\ UNCHANGED schedulerVars /\ UNCHANGED partyVars
    BY DEF StartReadyJob
<1>2. CallsTo(cs, "start job", Parties, All)
  <2>1. "start job" \in Kinds /\ All \in Named /\ Parties \in SUBSET Parties
      BY DEF Kinds, Named
  <2> QED
      BY <2>1, ToNodes
<1>3. cs \in Seq(Call) /\ \A i \in DOMAIN cs : Sound(cs[i]) /\ cs[i].op = "start job"
    BY <1>2 DEF CallsTo, Sound
<1>4. CallTypes' /\ CallsSound' /\ calls'["round"] = cs /\ calls'["stop"] = calls["stop"]
    BY <1>1, <1>3, RoundSends
<1>5. sstat' = sstat /\ srow' = srow /\ sjob' = sjob
    BY <1>1 DEF schedulerVars
<1>6. SchedulerTypes' /\ BoundTypes' /\ TasksKnown' /\ TasksCreated'
    BY <1>1, <1>5, SchedulerKept
<1>7. RoundTypes'
    BY <1>1, TypeParts DEF BfiaInductive, RoundTypes
<1>8. RoundFits'
    BY <1>1, <1>3, <1>4, RoundOn
<1>9. CalmFits'
  <2>1. CalmFits /\ row' = row /\ box' = box /\ killing' = killing
      BY <1>1 DEF BfiaInductive, partyVars
  <2> QED
      BY <1>1, <1>4, <1>5, <2>1, Calmer DEF CalmFits
<1> QED
    BY <1>1, <1>4, <1>6, <1>7, <1>8, <1>9, SchedulerStep

\* The job is RUNNING whatever they answered.
LEMMA JobStartedStep ==
    ASSUME BfiaInductive, JobStarted
    PROVE  BfiaInductive'
<1>1. /\ at = "starting" /\ Ready("round") /\ at' = "idle" /\ sjob' = JobMoved(sjob, "RUNNING")
      /\ UNCHANGED <<sstat, srow, left, mem, code, faults, stops>> /\ UNCHANGED callVars /\ UNCHANGED partyVars
    BY DEF JobStarted
<1>2. calls["round"] = <<>>
    BY <1>1, RoundReady
<1>3. calls' = calls /\ bad' = bad /\ stopping' = stopping
    BY <1>1 DEF callVars
<1>4. SchedulerTypes /\ "RUNNING" \in JobStatus
    BY TypeParts DEF BfiaInductive, JobStatus
<1>5. SchedulerTypes'
  <2>1. sjob' \in JobStatus \cup {None}
      BY <1>1, <1>4, JobMovedType DEF SchedulerTypes
  <2> QED
      BY <1>1, <1>4, <2>1 DEF SchedulerTypes
<1>6. CallTypes' /\ BoundTypes' /\ TasksKnown' /\ TasksCreated' /\ CallsSound'
    BY <1>1, <1>3, SchedulerKept
<1>7. RoundTypes'
    BY <1>1, TypeParts DEF BfiaInductive, RoundTypes
<1>8. RoundFits'
    BY <1>1, <1>2, <1>3 DEF RoundFits
<1>9. CalmFits'
  <2>1. CalmFits /\ row' = row /\ box' = box /\ killing' = killing
      BY <1>1 DEF BfiaInductive, partyVars
  <2>2. Calm => sjob' = "RUNNING"
      BY <1>1, <2>1, JobMovedType DEF CalmFits, JobStatus
  <2> QED
      BY <1>1, <1>3, <2>1, <2>2, Calmer DEF CalmFits
<1> QED
    BY <1>1, <1>5, <1>6, <1>7, <1>8, <1>9, SchedulerStep

\* The round reads the statuses of the tasks: its memory is as true as they are.
LEMMA BeginRoundStep ==
    ASSUME BfiaInductive, BeginRound
    PROVE  BfiaInductive'
<1>1. /\ at = "idle" /\ sjob = "RUNNING" /\ \A t \in Tasks : sstat[t] # None
      /\ at' = "tasks" /\ left' = TaskSeq /\ mem' = sstat /\ code' = "no next"
      /\ UNCHANGED <<faults, stops>> /\ UNCHANGED schedulerVars /\ UNCHANGED callVars /\ UNCHANGED partyVars
    BY DEF BeginRound
<1>2. calls' = calls /\ bad' = bad /\ stopping' = stopping /\ calls["round"] = <<>>
    BY <1>1 DEF callVars, BfiaInductive, RoundFits
<1>3. sstat' = sstat /\ srow' = srow /\ sjob' = sjob
    BY <1>1 DEF schedulerVars
<1>4. SchedulerTypes' /\ CallTypes' /\ BoundTypes' /\ CallsSound'
    BY <1>1, <1>2, SchedulerKept
<1>5. RoundTypes'
    BY <1>1, BfiaAssumption, TypeParts DEF BfiaInductive, RoundTypes, SchedulerTypes
<1>6. ASSUME NEW t \in Tasks PROVE KnownTask(t)'
  <2>1. KnownTask(t)
      BY TasksKnownBy DEF BfiaInductive
  <2>2. (Begun(t) => Begun(t)') /\ (Real(t) => Real(t)')
      BY <1>1, SamePartyGrows, FactsStay
  <2> QED
      BY <1>1, <1>3, <2>1, <2>2 DEF KnownTask, partyVars
<1>7. TasksKnown'
    BY <1>6, TasksKnownBy
<1>8. TasksCreated'
    BY <1>1, <1>3 DEF BfiaInductive, TasksCreated, Created
<1>9. RoundFits'
  <2>1. at' \notin {"idle", "sync", "starting", "started"} /\ calls'["round"] = <<>> /\ DOMAIN calls'["round"] = {}
    <3>1. calls'["round"] = <<>>
        BY <1>2
    <3> QED
        BY <1>1, <3>1, EmptyCalls
  <2> QED
      BY <2>1 DEF RoundFits
<1>10. CalmFits'
  <2>1. CalmFits /\ row' = row /\ box' = box /\ killing' = killing
      BY <1>1 DEF BfiaInductive, partyVars
  <2> QED
      BY <1>1, <1>2, <1>3, <2>1, Calmer DEF CalmFits
<1> QED
    BY <1>1, <1>4, <1>5, <1>7, <1>8, <1>9, <1>10, SchedulerStep

LEMMA LeftHead ==
    ASSUME BfiaInductive, left # <<>>
    PROVE  Head(left) \in Tasks /\ Tail(left) \in Seq(Tasks)
<1>1. left \in Seq(Tasks)
    BY TypeParts DEF BfiaInductive, RoundTypes
<1> QED
    BY <1>1, HeadTailProperties

\* Only a task that the round has as RUNNING is polled: it has begun.
LEMMA VisitTaskStep ==
    ASSUME BfiaInductive, VisitTask
    PROVE  BfiaInductive'
<1> PICK t : t = Head(left)
    OBVIOUS
<1> PICK cs : cs = IF mem[t] = "RUNNING" THEN To("poll", Parties, t) ELSE <<>>
    OBVIOUS
<1>1. /\ at = "tasks" /\ left # <<>> /\ at' = "sync" /\ Send("round", cs)
      /\ UNCHANGED <<left, mem, code, stopping, faults, stops>> /\ UNCHANGED schedulerVars /\ UNCHANGED partyVars
    BY DEF VisitTask
<1>2. t \in Tasks
    BY <1>1, LeftHead
<1>3. cs \in Seq(Call) /\ \A i \in DOMAIN cs : Sound(cs[i]) /\ cs[i].op = "poll"
  <2>1. CASE mem[t] = "RUNNING"
    <3>1. "poll" \in Kinds /\ t \in Named /\ Parties \in SUBSET Parties
        BY <1>2 DEF Kinds, Named
    <3>2. CallsTo(cs, "poll", Parties, t)
        BY <2>1, <3>1, ToNodes
    <3>3. Begun(t)
        BY <1>2, <2>1 DEF BfiaInductive, TasksKnown, KnownTask
    <3> QED
        BY <1>2, <3>2, <3>3 DEF CallsTo, Sound
  <2>2. CASE mem[t] # "RUNNING"
      BY <2>2, EmptyCalls
  <2> QED
      BY <2>1, <2>2
<1>4. CallTypes' /\ CallsSound' /\ calls'["round"] = cs /\ calls'["stop"] = calls["stop"]
    BY <1>1, <1>3, RoundSends
<1>5. sstat' = sstat /\ srow' = srow /\ sjob' = sjob
    BY <1>1 DEF schedulerVars
<1>6. SchedulerTypes' /\ BoundTypes' /\ TasksKnown' /\ TasksCreated'
    BY <1>1, <1>5, SchedulerKept
<1>7. RoundTypes'
    BY <1>1, TypeParts DEF BfiaInductive, RoundTypes
<1>8. RoundFits'
    BY <1>1, <1>3, <1>4, RoundOn
<1>9. CalmFits'
  <2>1. CalmFits /\ row' = row /\ box' = box /\ killing' = killing
      BY <1>1 DEF BfiaInductive, partyVars
  <2> QED
      BY <1>1, <1>4, <1>5, <2>1, Calmer DEF CalmFits
<1> QED
    BY <1>1, <1>4, <1>6, <1>7, <1>8, <1>9, SchedulerStep

\* The status over the parties is one of theirs, once the tasks are created.
LEMMA FederatedIsRows ==
    ASSUME BfiaInductive, Created, NEW t \in Tasks
    PROVE  /\ FederatedTaskStatus(t) \in TaskStatus
           /\ \E p \in Parties : srow[<<t, p>>] = FederatedTaskStatus(t)
           /\ FederatedTaskStatus(t) = "SUCCESS" => \A p \in PartiesOf(t) : srow[<<t, p>>] = "SUCCESS"
<1> DEFINE S == {srow[<<t, p>>] : p \in PartiesOf(t)}
<1>1. PartiesOf(t) \subseteq Parties /\ PartiesOf(t) # {}
    BY FiniteParts
<1>2. S # {}
    BY <1>1
<1>3. \A p \in PartiesOf(t) : srow[<<t, p>>] \in TaskStatus
  <2>1. SchedulerTypes
      BY TypeParts DEF BfiaInductive
  <2> QED
      BY <1>1, <2>1 DEF SchedulerTypes, Created
<1>4. S \in SUBSET TaskStatus
    BY <1>3
<1>5. FederatedTaskStatus(t) = TaskStatusOver(S)
    BY DEF FederatedTaskStatus
<1>6. TaskStatusOver(S) \in S /\ (TaskStatusOver(S) = "SUCCESS" => S = {"SUCCESS"})
  <2> HIDE DEF S
  <2> QED
      BY <1>2, <1>4, StatusOver
<1>7. \A p \in PartiesOf(t) : srow[<<t, p>>] \in S
    OBVIOUS
<1>8. \E p \in Parties : srow[<<t, p>>] = TaskStatusOver(S)
    BY <1>1, <1>6
<1> QED
    BY <1>3, <1>4, <1>5, <1>6, <1>7, <1>8

\* The status of the task over its parties is stored; what has ended is stopped.
LEMMA SyncTaskStep ==
    ASSUME BfiaInductive, SyncTask
    PROVE  BfiaInductive'
<1> PICK t : t = Head(left)
    OBVIOUS
<1> PICK new : new = FederatedTaskStatus(t)
    OBVIOUS
<1> PICK cs : cs = IF new = "FAILED" \/ (new # mem[t] /\ new \in EndStatus) THEN Stop(t) ELSE <<>>
    OBVIOUS
<1>1. /\ at = "sync" /\ mem' = [mem EXCEPT ![t] = new] /\ sstat' = [sstat EXCEPT ![t] = TaskMoved(@, new)]
      /\ Send("round", cs) /\ at' = "tasks" /\ left' = Tail(left)
      /\ UNCHANGED <<sjob, srow, code, stopping, faults, stops>> /\ UNCHANGED partyVars
    BY DEF SyncTask
<1>2. left # <<>> /\ t \in Tasks /\ Tail(left) \in Seq(Tasks) /\ Created
    BY <1>1, LeftHead DEF BfiaInductive, RoundFits, TasksCreated
<1>3. /\ new \in TaskStatus /\ \E p \in Parties : srow[<<t, p>>] = new
      /\ new = "SUCCESS" => \A p \in PartiesOf(t) : srow[<<t, p>>] = "SUCCESS"
    BY <1>2, FederatedIsRows
<1>4. SchedulerTypes /\ RoundTypes
    BY TypeParts DEF BfiaInductive
<1> PICK old : old = sstat[t]
    OBVIOUS
<1> PICK to : to = TaskMoved(old, new)
    OBVIOUS
<1>5. old \in TaskStatus \cup {None} /\ old # None /\ to \in {old, new} /\ to # None
    BY <1>2, <1>3, <1>4, Moved DEF SchedulerTypes, Created, TaskStatus, None
<1>6. /\ sstat' = [sstat EXCEPT ![t] = to] /\ sstat'[t] = to /\ mem'[t] = new
      /\ \A u \in Tasks : u # t => sstat'[u] = sstat[u] /\ mem'[u] = mem[u]
      /\ sstat' \in [Tasks -> TaskStatus \cup {None}] /\ mem' \in [Tasks -> TaskStatus \cup {None}]
    BY <1>1, <1>2, <1>3, <1>4, <1>5 DEF SchedulerTypes, RoundTypes
<1>7. SchedulerTypes' /\ RoundTypes'
    BY <1>1, <1>2, <1>4, <1>6 DEF SchedulerTypes, RoundTypes
<1>8. BoundTypes'
    BY <1>1, SchedulerKept
<1>9. cs \in Seq(Call) /\ \A i \in DOMAIN cs : Sound(cs[i]) /\ cs[i].op = "stop"
  <2>1. CallsTo(Stop(t), "stop", Parties, t)
      BY <1>2, StopCalls DEF Named
  <2>2. CASE cs = Stop(t)
      BY <2>1, <2>2 DEF CallsTo, Sound
  <2>3. CASE cs = <<>>
      BY <2>3, EmptyCalls
  <2> QED
      BY <2>2, <2>3
<1>10. CallTypes' /\ CallsSound' /\ calls'["round"] = cs /\ calls'["stop"] = calls["stop"]
    BY <1>1, <1>9, RoundSends
<1>11. RoundFits'
    BY <1>1, <1>9, <1>10, RoundOn
<1>12. ASSUME NEW u \in Tasks PROVE KnownTask(u)'
  <2>1. KnownTask(u) /\ KnownTask(t)
      BY <1>2, TasksKnownBy DEF BfiaInductive
  <2>2. (Begun(u) => Begun(u)') /\ (Real(u) => Real(u)')
      BY <1>1, SamePartyGrows, FactsStay
  <2>3. row' = row /\ srow' = srow /\ outs' = outs
      BY <1>1 DEF partyVars
  <2>4. CASE u # t
      BY <1>6, <2>1, <2>2, <2>3, <2>4 DEF KnownTask
  <2>5. CASE u = t
    <3>1. new = "RUNNING" => Begun(t)
        BY <1>3, <2>1 DEF KnownTask, None
    <3>2. ASSUME new = "SUCCESS" PROVE Real(t)
      <4> SUFFICES ASSUME NEW r \in RolesOf[t] PROVE row[<<t, r>>] = "SUCCESS" /\ <<t, r>> \in outs
          BY DEF Real
      <4>1. <<t, r>> \in Runs /\ <<t, r>>[1] = t /\ PartyOf[<<t, r>>[2]] = PartyOf[r]
          BY <1>2, RunOf
      <4>2. PartyOf[r] \in PartiesOf(t) /\ PartyOf[r] \in Parties
          BY <1>2, <4>1, RunParts
      <4>3. srow[<<t, PartyOf[r]>>] = "SUCCESS"
          BY <1>3, <3>2, <4>2
      <4>4. row[<<t, r>>] = "SUCCESS"
          BY <2>1, <4>1, <4>2, <4>3 DEF KnownTask
      <4> QED
          BY <4>1, <4>4 DEF BfiaInductive, RunsFit
    <3> QED
        BY <1>5, <1>6, <2>1, <2>2, <2>3, <2>5, <3>1, <3>2 DEF KnownTask
  <2> QED
      BY <2>4, <2>5
<1>13. TasksKnown'
    BY <1>12, TasksKnownBy
<1>14. TasksCreated'
    BY <1>1, <1>2, <1>5, <1>6 DEF TasksCreated, Created
<1>15. CalmFits'
  <2>1. CalmFits /\ row' = row /\ box' = box /\ killing' = killing
      BY <1>1 DEF BfiaInductive, partyVars
  <2> QED
      BY <1>1, <1>10, <2>1, Calmer DEF CalmFits
<1> QED
    BY <1>1, <1>7, <1>8, <1>10, <1>11, <1>13, <1>14, <1>15, SchedulerStep
-----------------------------------------------------------------------------
(* Rounds: tasks and the end *)

\* All tasks are considered, or none.
LEMMA TasksSyncedStep ==
    ASSUME BfiaInductive, TasksSynced
    PROVE  BfiaInductive'
<1>1. /\ at = "tasks" /\ Ready("round") /\ at' = "start" /\ left' \in {<<>>, TaskSeq}
      /\ UNCHANGED <<mem, code, faults, stops>> /\ UNCHANGED schedulerVars /\ UNCHANGED callVars /\ UNCHANGED partyVars
    BY Zenon DEF TasksSynced
<1>2. calls' = calls /\ bad' = bad /\ stopping' = stopping
    BY <1>1 DEF callVars
<1>3. sstat' = sstat /\ srow' = srow /\ sjob' = sjob
    BY <1>1 DEF schedulerVars
<1>4. SchedulerTypes' /\ CallTypes' /\ BoundTypes' /\ TasksKnown' /\ TasksCreated' /\ CallsSound'
    BY <1>1, <1>2, <1>3, SchedulerKept
<1>5. left' \in Seq(Tasks)
  <2>1. <<>> \in Seq(Tasks)
      OBVIOUS
  <2> QED
      BY <1>1, <2>1, BfiaAssumption
<1>6. RoundTypes'
    BY <1>1, <1>5, TypeParts DEF BfiaInductive, RoundTypes
<1>7. RoundFits'
  <2>1. calls'["round"] = <<>> /\ DOMAIN calls'["round"] = {}
    <3>1. calls'["round"] = <<>>
        BY <1>1, <1>2, RoundReady
    <3> QED
        BY <3>1, EmptyCalls
  <2> QED
      BY <1>1, <2>1 DEF RoundFits
<1>8. CalmFits'
  <2>1. CalmFits /\ row' = row /\ box' = box /\ killing' = killing
      BY <1>1 DEF BfiaInductive, partyVars
  <2> QED
      BY <1>1, <1>2, <1>3, <2>1, Calmer DEF CalmFits
<1> QED
    BY <1>1, <1>4, <1>6, <1>7, <1>8, SchedulerStep

\* A task whose dependencies the round has as SUCCESS is started: they are stored.
LEMMA StartNextStep ==
    ASSUME BfiaInductive, StartNext
    PROVE  BfiaInductive'
<1> PICK t : t = Head(left)
    OBVIOUS
<1>1. /\ at = "start" /\ Ready("round") /\ left # <<>>
      /\ UNCHANGED <<mem, stopping, faults, stops>> /\ UNCHANGED schedulerVars /\ UNCHANGED partyVars
    BY DEF StartNext
<1>2. t \in Tasks /\ Tail(left) \in Seq(Tasks)
    BY <1>1, LeftHead
<1>3. sstat' = sstat /\ srow' = srow /\ sjob' = sjob
    BY <1>1 DEF schedulerVars
<1>4. CalmFits /\ row' = row /\ box' = box /\ killing' = killing
    BY <1>1 DEF BfiaInductive, partyVars
<1>5. CASE mem[t] = "READY" /\ Startable(t)
  <2> PICK cs : cs = To("start task", PartiesOf(t), t)
      OBVIOUS
  <2>1. at' = "started" /\ code' = "have next" /\ left' = left /\ Send("round", cs)
      BY <1>5 DEF StartNext
  <2>2. CallsTo(cs, "start task", PartiesOf(t), t)
    <3>1. "start task" \in Kinds /\ t \in Named /\ PartiesOf(t) \in SUBSET Parties
        BY <1>2, FiniteParts DEF Kinds, Named
    <3> QED
        BY <3>1, ToNodes
  <2>3. \A d \in Deps[t] : Stored(d)
    <3> SUFFICES ASSUME NEW d \in Deps[t] PROVE Stored(d)
        OBVIOUS
    <3>1. d \in Tasks /\ mem[d] = "SUCCESS"
        BY <1>2, <1>5, BfiaAssumption DEF Startable
    <3> QED
        BY <3>1 DEF BfiaInductive, TasksKnown, KnownTask, Real, Stored
  <2>4. cs \in Seq(Call) /\ \A i \in DOMAIN cs : Sound(cs[i]) /\ cs[i].op = "start task" /\ cs[i].t = t
      BY <1>2, <2>2, <2>3 DEF CallsTo, Sound
  <2>5. CallTypes' /\ CallsSound' /\ calls'["round"] = cs /\ calls'["stop"] = calls["stop"]
      BY <1>1, <2>1, <2>4, RoundSends
  <2>6. SchedulerTypes' /\ BoundTypes' /\ TasksKnown' /\ TasksCreated'
      BY <1>1, <1>3, <2>1, SchedulerKept
  <2>7. RoundTypes'
      BY <1>1, <2>1, TypeParts DEF BfiaInductive, RoundTypes
  <2>8. RoundFits'
    <3>1. \A x \in Runs : x[1] = t => \E i \in DOMAIN cs : cs[i].p = PartyOf[x[2]]
        BY <2>2, RunParts DEF CallsTo
    <3>2. t = Head(left') /\ left' # <<>> /\ at' = "started"
        BY <1>1, <2>1
    <3> QED
        BY <2>4, <2>5, <3>1, <3>2, RoundOn
  <2>9. CalmFits'
      BY <1>1, <1>3, <1>4, <2>1, <2>5, Calmer DEF CalmFits
  <2> QED
      BY <1>1, <2>5, <2>6, <2>7, <2>8, <2>9, SchedulerStep
<1>6. CASE ~(mem[t] = "READY" /\ Startable(t))
  <2>1. left' = Tail(left) /\ at' = at /\ code' = code /\ calls' = calls /\ try' = try /\ bad' = bad
      BY <1>6 DEF StartNext
  <2>2. UNCHANGED callVars
      BY <1>1, <2>1 DEF callVars
  <2>3. SchedulerTypes' /\ CallTypes' /\ BoundTypes' /\ TasksKnown' /\ TasksCreated' /\ CallsSound'
      BY <1>1, <1>3, <2>1, <2>2, SchedulerKept
  <2>4. RoundTypes'
      BY <1>1, <1>2, <2>1, TypeParts DEF BfiaInductive, RoundTypes
  <2>5. RoundFits'
    <3>1. calls'["round"] = <<>> /\ DOMAIN calls'["round"] = {}
      <4>1. calls'["round"] = <<>>
          BY <1>1, <2>1, RoundReady
      <4> QED
          BY <4>1, EmptyCalls
    <3> QED
        BY <1>1, <2>1, <3>1 DEF RoundFits
  <2>6. CalmFits'
      BY <1>1, <1>3, <1>4, <2>1, Calmer DEF CalmFits
  <2> QED
      BY <1>1, <2>3, <2>4, <2>5, <2>6, SchedulerStep
<1> QED
    BY <1>5, <1>6

\* When all parties have answered well, the task has begun at all of them.
LEMMA TaskStartedKnown ==
    ASSUME BfiaInductive, TaskStarted
    PROVE  SchedulerTypes' /\ RoundTypes' /\ TasksKnown' /\ TasksCreated'
<1> PICK t : t = Head(left)
    OBVIOUS
<1> DEFINE Run(s) == IF bad["round"] THEN s ELSE TaskMoved(s, "RUNNING")
<1>1. /\ at = "started" /\ Ready("round") /\ at' = "start" /\ left' = Tail(left) /\ sjob' = sjob
      /\ sstat' = [sstat EXCEPT ![t] = Run(@)]
      /\ srow' = [x \in Tasks \X Parties |-> IF x[1] = t THEN Run(srow[x]) ELSE srow[x]]
      /\ \/ bad["round"] /\ code' = "failed" /\ mem' = [mem EXCEPT ![t] = "FAILED"]
         \/ ~bad["round"] /\ code' = code /\ mem' = mem
      /\ UNCHANGED partyVars
    BY Zenon DEF TaskStarted
<1>2. left # <<>> /\ t \in Tasks /\ Tail(left) \in Seq(Tasks) /\ Created
    BY <1>1, LeftHead DEF BfiaInductive, RoundFits, TasksCreated
<1>3. SchedulerTypes /\ RoundTypes
    BY TypeParts DEF BfiaInductive
<1>4. ~bad["round"] => Begun(t)
  <2>1. calls["round"] = <<>> /\ DOMAIN calls["round"] = {}
      BY <1>1, RoundReady
  <2>2. ~bad["round"] => \A x \in Runs : x[1] = t => row[x] # None \/ Open("round", PartyOf[x[2]])
      BY <1>1 DEF BfiaInductive, RoundFits
  <2> QED
      BY <2>1, <2>2 DEF Begun, Open
<1>5. ASSUME NEW s \in TaskStatus \cup {None}
      PROVE  /\ Run(s) \in TaskStatus \cup {None} /\ (s # None => Run(s) # None)
             /\ Run(s) # s => ~bad["round"] /\ Run(s) = "RUNNING"
    BY Moved DEF TaskStatus, None
<1>6. sstat[t] \in TaskStatus \cup {None} /\ \A x \in Tasks \X Parties : srow[x] \in TaskStatus \cup {None}
    BY <1>2, <1>3 DEF SchedulerTypes
<1>7. /\ sstat'[t] = Run(sstat[t]) /\ \A u \in Tasks : u # t => sstat'[u] = sstat[u]
      /\ sstat' \in [Tasks -> TaskStatus \cup {None}]
  <2> PICK new : new = Run(sstat[t])
      OBVIOUS
  <2>1. new \in TaskStatus \cup {None}
      BY <1>5, <1>6
  <2>2. sstat' = [sstat EXCEPT ![t] = new]
      BY <1>1
  <2> QED
      BY <1>2, <1>3, <2>1, <2>2 DEF SchedulerTypes
<1>8. \A x \in Tasks \X Parties : srow'[x] = IF x[1] = t THEN Run(srow[x]) ELSE srow[x]
    BY <1>1, Zenon
<1>9. srow' \in [Tasks \X Parties -> TaskStatus \cup {None}]
  <2>1. \A x \in Tasks \X Parties : srow'[x] \in TaskStatus \cup {None}
      BY <1>5, <1>6, <1>8
  <2>2. srow' = [x \in Tasks \X Parties |-> srow'[x]]
    <3> HIDE DEF Run
    <3> QED
        BY <1>1
  <2> QED
      BY <2>1, <2>2
<1>10. /\ mem'[t] \in {mem[t], "FAILED"} /\ \A u \in Tasks : u # t => mem'[u] = mem[u]
       /\ mem' \in [Tasks -> TaskStatus \cup {None}]
    BY <1>1, <1>2, <1>3 DEF RoundTypes, TaskStatus
<1>11. SchedulerTypes' /\ RoundTypes'
  <2>1. code' \in {"no next", "have next", "failed"}
      BY <1>1, <1>3 DEF RoundTypes
  <2> QED
      BY <1>1, <1>2, <1>3, <1>7, <1>9, <1>10, <2>1 DEF SchedulerTypes, RoundTypes
<1> PICK begun \in BOOLEAN : begun <=> ~bad["round"]
    OBVIOUS
<1>12. /\ sstat'[t] = sstat[t] \/ (Begun(t) /\ sstat'[t] = "RUNNING")
       /\ \A p \in Parties : srow'[<<t, p>>] = srow[<<t, p>>] \/ (Begun(t) /\ srow'[<<t, p>>] = "RUNNING")
       /\ \A u \in Tasks, p \in Parties : u # t => srow'[<<u, p>>] = srow[<<u, p>>]
  <2>1. sstat'[t] = sstat[t] \/ (Begun(t) /\ sstat'[t] = "RUNNING")
      BY <1>4, <1>5, <1>6, <1>7
  <2>2. ASSUME NEW p \in Parties
        PROVE  srow'[<<t, p>>] = srow[<<t, p>>] \/ (Begun(t) /\ srow'[<<t, p>>] = "RUNNING")
    <3>1. <<t, p>> \in Tasks \X Parties /\ <<t, p>>[1] = t
        BY <1>2
    <3>2. srow'[<<t, p>>] = Run(srow[<<t, p>>]) /\ srow[<<t, p>>] \in TaskStatus \cup {None}
        BY <1>6, <1>8, <3>1
    <3> QED
        BY <1>4, <1>5, <3>2
  <2>3. \A u \in Tasks, p \in Parties : u # t => srow'[<<u, p>>] = srow[<<u, p>>]
    <3> HIDE DEF Run
    <3> QED
        BY <1>8
  <2> QED
      BY <2>1, <2>2, <2>3
<1> HIDE DEF Run
<1>13. ASSUME NEW u \in Tasks PROVE KnownTask(u)'
  <2>1. KnownTask(u)
      BY TasksKnownBy DEF BfiaInductive
  <2>2. (Begun(u) => Begun(u)') /\ (Real(u) => Real(u)')
      BY <1>1, SamePartyGrows, FactsStay
  <2>3. row' = row
      BY <1>1 DEF partyVars
  <2>4. CASE u = t
      BY <1>10, <1>12, <2>1, <2>2, <2>3, <2>4 DEF KnownTask
  <2>5. CASE u # t
      BY <1>7, <1>10, <1>12, <2>1, <2>2, <2>3, <2>5 DEF KnownTask
  <2> QED
      BY <2>4, <2>5
<1>14. TasksCreated'
  <2>1. Created'
    <3> SUFFICES ASSUME NEW u \in Tasks PROVE sstat'[u] # None /\ \A p \in PartiesOf(u) : srow'[<<u, p>>] # None
        BY Zenon DEF Created
    <3>1. PartiesOf(u) \subseteq Parties
        BY FiniteParts
    <3>2. sstat[u] # None /\ \A p \in PartiesOf(u) : srow[<<u, p>>] # None
        BY <1>2 DEF Created
    <3> QED
        BY <1>7, <1>12, <3>1, <3>2 DEF None
  <2> QED
      BY <2>1 DEF TasksCreated
<1> QED
    BY <1>11, <1>13, <1>14, TasksKnownBy

\* The round goes on to the next task.
LEMMA TaskStartedStep ==
    ASSUME BfiaInductive, TaskStarted
    PROVE  BfiaInductive'
<1> PICK t : t = Head(left)
    OBVIOUS
<1>1. /\ at = "started" /\ Ready("round") /\ at' = "start" /\ sjob' = sjob
      /\ Send("round", Stop(t)) \/ UNCHANGED <<calls, try, bad>>
      /\ UNCHANGED <<stopping, faults, stops>> /\ UNCHANGED partyVars
    BY Zenon DEF TaskStarted
<1>2. SchedulerTypes' /\ RoundTypes' /\ TasksKnown' /\ TasksCreated'
    BY TaskStartedKnown
<1>3. t \in Tasks
    BY <1>1, LeftHead DEF BfiaInductive, RoundFits
<1>4. BoundTypes'
    BY <1>1, SchedulerKept
<1>5. CallTypes' /\ CallsSound' /\ RoundFits' /\ calls'["stop"] = calls["stop"]
  <2>1. CASE Send("round", Stop(t))
    <3> PICK cs : cs = Stop(t)
        OBVIOUS
    <3>1. CallsTo(cs, "stop", Parties, t)
        BY <1>3, StopCalls DEF Named
    <3>2. cs \in Seq(Call) /\ \A i \in DOMAIN cs : Sound(cs[i]) /\ cs[i].op = "stop"
        BY <3>1 DEF CallsTo, Sound
    <3>3. CallTypes' /\ CallsSound' /\ calls'["round"] = cs /\ calls'["stop"] = calls["stop"]
        BY <1>1, <2>1, <3>2, RoundSends
    <3>4. RoundFits'
        BY <1>1, <3>2, <3>3, RoundOn
    <3> QED
        BY <3>3, <3>4
  <2>2. CASE UNCHANGED <<calls, try, bad>>
    <3>1. UNCHANGED callVars
        BY <1>1, <2>2 DEF callVars
    <3>2. CallTypes' /\ CallsSound'
        BY <1>1, <2>2, <3>1, SchedulerKept
    <3>3. calls'["round"] = <<>> /\ DOMAIN calls'["round"] = {}
      <4>1. calls'["round"] = <<>>
          BY <1>1, <2>2, RoundReady
      <4> QED
          BY <4>1, EmptyCalls
    <3>4. RoundFits'
        BY <1>1, <3>3 DEF RoundFits
    <3> QED
        BY <2>2, <3>2, <3>4
  <2> QED
      BY <1>1, <2>1, <2>2
<1>6. CalmFits'
  <2>1. CalmFits /\ row' = row /\ box' = box /\ killing' = killing
      BY <1>1 DEF BfiaInductive, partyVars
  <2> QED
      BY <1>1, <1>5, <2>1, Calmer DEF CalmFits
<1> QED
    BY <1>1, <1>2, <1>4, <1>5, <1>6, SchedulerStep

\* The round ends, or all parties are called to stop the job.
LEMMA ConcludeStep ==
    ASSUME BfiaInductive, Conclude
    PROVE  BfiaInductive'
<1>1. /\ at = "start" /\ Ready("round") /\ code' = "no next"
      /\ \/ at' = "finish" /\ Send("round", Stop(All))
         \/ at' = "idle" /\ UNCHANGED <<calls, try, bad>>
      /\ UNCHANGED <<left, mem, stopping, faults, stops>> /\ UNCHANGED schedulerVars /\ UNCHANGED partyVars
    BY Zenon DEF Conclude
<1>2. sstat' = sstat /\ srow' = srow /\ sjob' = sjob
    BY <1>1 DEF schedulerVars
<1>3. SchedulerTypes' /\ BoundTypes' /\ TasksKnown' /\ TasksCreated'
    BY <1>1, <1>2, SchedulerKept
<1>4. RoundTypes'
    BY <1>1, TypeParts DEF BfiaInductive, RoundTypes
<1>5. CalmFits /\ row' = row /\ box' = box /\ killing' = killing
    BY <1>1 DEF BfiaInductive, partyVars
<1>6. CASE at' = "finish" /\ Send("round", Stop(All))
  <2> PICK cs : cs = Stop(All)
      OBVIOUS
  <2>1. CallsTo(cs, "stop", Parties, All)
      BY StopCalls DEF Named
  <2>2. /\ cs \in Seq(Call)
        /\ \A i \in DOMAIN cs : Sound(cs[i]) /\ cs[i].op = "stop" /\ cs[i].t = All
      BY <2>1 DEF CallsTo, Sound
  <2>3. CallTypes' /\ CallsSound' /\ calls'["round"] = cs /\ calls'["stop"] = calls["stop"]
      BY <1>1, <1>6, <2>2, RoundSends
  <2>4. RoundFits'
      BY <1>6, <2>2, <2>3, RoundOn
  <2>5. \A x \in Runs : \E i \in DOMAIN calls'["round"] : calls'["round"][i].p = PartyOf[x[2]]
      BY <2>1, <2>3, RunParts DEF CallsTo
  <2>6. CalmFits'
      BY <1>1, <1>2, <1>5, <1>6, <2>3, <2>5, Calmer DEF CalmFits, Open
  <2> QED
      BY <1>1, <1>3, <1>4, <2>3, <2>4, <2>6, SchedulerStep
<1>7. CASE at' = "idle" /\ UNCHANGED <<calls, try, bad>>
  <2>1. UNCHANGED callVars
      BY <1>1, <1>7 DEF callVars
  <2>2. CallTypes' /\ CallsSound'
      BY <1>1, <1>7, <2>1, SchedulerKept
  <2>3. calls'["round"] = <<>> /\ DOMAIN calls'["round"] = {}
    <3>1. calls'["round"] = <<>>
        BY <1>1, <1>7, RoundReady
    <3> QED
        BY <3>1, EmptyCalls
  <2>4. RoundFits'
      BY <1>7, <2>3 DEF RoundFits
  <2>5. CalmFits'
      BY <1>1, <1>2, <1>5, <1>7, Calmer DEF CalmFits
  <2> QED
      BY <1>1, <1>3, <1>4, <2>2, <2>4, <2>5, SchedulerStep
<1> QED
    BY <1>1, <1>6, <1>7

\* All parties have been called: what still runs is being killed.
LEMMA FinishStep ==
    ASSUME BfiaInductive, Finish
    PROVE  BfiaInductive'
<1>1. /\ at = "finish" /\ Ready("round") /\ at' = "idle" /\ Stopped
      /\ UNCHANGED <<left, mem, code, faults, stops>> /\ UNCHANGED callVars /\ UNCHANGED partyVars
    BY DEF Finish
<1>2. calls' = calls /\ bad' = bad /\ stopping' = stopping
    BY <1>1 DEF callVars
<1>3. calls["round"] = <<>> /\ DOMAIN calls["round"] = {}
    BY <1>1, RoundReady
<1>4. SchedulerTypes' /\ TasksKnown' /\ sjob' \in {sjob, "FINISHED"} /\ TasksCreated'
    BY <1>1, StoppedStep
<1>5. CallTypes' /\ CallsSound' /\ BoundTypes'
    BY <1>1, <1>2, SchedulerKept
<1>6. RoundTypes'
    BY <1>1, TypeParts DEF BfiaInductive, RoundTypes
<1>7. RoundFits'
    BY <1>1, <1>2, <1>3 DEF RoundFits
<1>8. CalmFits'
  <2>1. CalmFits /\ row' = row /\ box' = box /\ killing' = killing
      BY <1>1 DEF BfiaInductive, partyVars
  <2>2. Calm => \A x \in Runs : box[x] \in Alive => x \in killing
      BY <1>1, <1>3, <2>1 DEF CalmFits, Open
  <2> QED
      BY <1>1, <1>2, <1>4, <2>1, <2>2, Calmer DEF CalmFits
<1> QED
    BY <1>1, <1>4, <1>5, <1>6, <1>7, <1>8, SchedulerStep
-----------------------------------------------------------------------------
(* The invariant is kept; the theorems *)

\* Nothing is there yet.
LEMMA InitFits == Init => BfiaInductive
<1> SUFFICES ASSUME Init PROVE BfiaInductive
    OBVIOUS
<1>1. /\ sjob = None /\ sstat = [t \in Tasks |-> None] /\ srow = [x \in Tasks \X Parties |-> None]
      /\ pjob = [r \in Roles |-> None] /\ row = [x \in Runs |-> None]
      /\ box = [x \in Runs |-> None] /\ outs = {} /\ killing = {}
      /\ at = "idle" /\ left = <<>> /\ mem = [t \in Tasks |-> None] /\ code = "no next"
      /\ calls = [th \in Threads |-> <<>>] /\ try = [th \in Threads |-> 1]
      /\ bad = [th \in Threads |-> FALSE] /\ stopping = FALSE /\ faults = 0 /\ stops = 0
    BY DEF Init
<1>2. SchedulerTypes /\ PartyTypes /\ RoundTypes /\ BoundTypes
  <2>1. SchedulerTypes /\ PartyTypes
      BY <1>1 DEF SchedulerTypes, PartyTypes, Boxes
  <2>2. <<>> \in Seq(Tasks) /\ MaxFaults \in Nat /\ MaxStops \in Nat
    <3>1. \A S : <<>> \in Seq(S)
        OBVIOUS
    <3>2. MaxFaults \in Nat /\ MaxStops \in Nat
        BY Zenon, BfiaAssumption
    <3> QED
        BY <3>1, <3>2
  <2>3. left \in Seq(Tasks)
      BY <1>1, <2>2
  <2>4. mem \in [Tasks -> TaskStatus \cup {None}]
      BY <1>1
  <2>5. RoundTypes
      BY <1>1, <2>3, <2>4 DEF RoundTypes
  <2>6. BoundTypes
    <3>1. faults = 0 /\ stops = 0
        BY <1>1, Zenon
    <3> QED
        BY <2>2, <3>1 DEF BoundTypes
  <2> QED
      BY <2>1, <2>5, <2>6
<1>3. CallTypes
  <2>1. \A S : <<>> \in Seq(S)
      OBVIOUS
  <2>2. 1 \in 1..TryTimes
      BY BfiaAssumption
  <2> QED
      BY <1>1, <2>1, <2>2 DEF CallTypes
<1>4. RunsFit
    BY <1>1 DEF RunsFit, None
<1>5. \A t \in Tasks : KnownTask(t)
    BY <1>1 DEF KnownTask, None
<1>6. TasksCreated
    BY <1>1 DEF TasksCreated
<1>7. \A th \in Threads : calls[th] = <<>> /\ DOMAIN calls[th] = {}
    BY <1>1, EmptyCalls
<1>8. "round" \in Threads /\ "create" \in Threads /\ "stop" \in Threads
    BY DEF Threads
<1>9. CallsSound /\ RoundFits
    BY <1>1, <1>7, <1>8 DEF CallsSound, RoundFits
<1>10. CalmFits
    BY <1>1, <1>7, <1>8 DEF CalmFits, None
<1> QED
    BY <1>2, <1>3, <1>4, <1>5, <1>6, <1>9, <1>10, TypeParts, TasksKnownBy DEF BfiaInductive

LEMMA StutterFits ==
    ASSUME BfiaInductive, UNCHANGED vars
    PROVE  BfiaInductive'
<1>1. /\ UNCHANGED <<schedulerVars, roundVars, callVars, faults, stops>> /\ UNCHANGED partyVars
    BY DEF vars
<1>2. PartyTypes' /\ RunsFit' /\ PartyGrows
    BY <1>1, TypeParts, RunsFitSame, SamePartyGrows DEF BfiaInductive, PartyTypes, partyVars
<1>3. BoundTypes
    BY TypeParts DEF BfiaInductive
<1>4. Calm' => PartyCalms
    BY <1>1 DEF BfiaInductive, CalmFits, Calm, PartyCalms, partyVars
<1> QED
    BY <1>1, <1>2, <1>3, <1>4, PartyStep, BfiaAssumption DEF BoundTypes

\* A step of the round.
LEMMA RoundStep ==
    ASSUME BfiaInductive, Round
    PROVE  BfiaInductive'
  BY StartReadyStep, JobStartedStep, BeginRoundStep, VisitTaskStep, SyncTaskStep,
     TasksSyncedStep, StartNextStep, TaskStartedStep, ConcludeStep, FinishStep, Zenon DEF Round

\* Every step of the adapter keeps the invariant.
LEMMA StepFits == BfiaInductive /\ [Next]_vars => BfiaInductive'
<1> SUFFICES ASSUME BfiaInductive, [Next]_vars PROVE BfiaInductive'
    OBVIOUS
<1>1. CASE SubmitJob \/ CreateTasks \/ StopAll \/ Round
    BY <1>1, SubmitStep, CreateTasksStep, StopAllStep, RoundStep
<1>2. CASE \E th \in Threads : Answered(th) \/ Unanswered(th)
    BY <1>2, AnsweredStep, UnansweredStep
<1>3. CASE \E p \in Parties : RequestStop(p)
    BY <1>3, RequestStopStep
<1>4. CASE \E x \in Runs : Kill(x) \/ RunComponent(x) \/ PushOutput(x) \/ ReportStatus(x) \/ DetectRunning(x)
    BY <1>4, KillStep, RunComponentStep, PushOutputStep, ReportStatusStep, DetectStep
<1>5. CASE UNCHANGED vars
    BY <1>5, StutterFits
<1> QED
    BY <1>1, <1>2, <1>3, <1>4, <1>5, Zenon DEF Next

\* Whatever is lost, fails or is asked for: what the scheduler knows is true at the
\* parties, and what is still to be called is right to call.  The rounds, the requests,
\* the containers and the threads of stop_task take no lock (adapter/bfia).
THEOREM BfiaAlways == Spec => []BfiaInductive
  BY InitFits, StepFits, PTL DEF Spec

\* What the runs check follows.
LEMMA InductiveSays == BfiaInductive => BfiaInv /\ InputsBeforeRun
<1> SUFFICES ASSUME BfiaInductive PROVE BfiaInv /\ InputsBeforeRun
    OBVIOUS
<1>1. SuccessIsReal
    BY DEF BfiaInductive, TasksKnown, KnownTask, Real, SuccessIsReal
<1>2. EndLeavesNothingRunning
    BY DEF BfiaInductive, CalmFits, Calm, Alive, EndLeavesNothingRunning
<1>3. InputsBeforeRun
    BY DEF BfiaInductive, RunsFit, InputsBeforeRun
<1> QED
    BY <1>1, <1>2, <1>3 DEF BfiaInductive, BfiaInv

\* A task that the scheduler counts as SUCCESS has it at every role, with its outputs
\* stored, and when nothing was lost a job ends by itself with no container left running.
THEOREM EndIsWhatItSays == Spec => []BfiaInv
<1>1. BfiaInductive => BfiaInv
    BY InductiveSays
<1> QED
    BY <1>1, BfiaAlways, PTL

\* A component starts only when all its inputs are in the store of its role, though
\* the round that starts it decides by statuses it read before.
THEOREM ComponentsFindInputs == Spec => []InputsBeforeRun
<1>1. BfiaInductive => InputsBeforeRun
    BY InductiveSays
<1> QED
    BY <1>1, BfiaAlways, PTL
=============================================================================
