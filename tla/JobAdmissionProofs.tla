------------------------- MODULE JobAdmissionProofs -------------------------
(***************************************************************************)
(* The cores of jobs for any number of jobs, parties and schedulers: a job *)
(* that runs holds its cores everywhere, and one that does not holds none  *)
(* between rounds as long as nothing is lost.                              *)
(***************************************************************************)
EXTENDS JobAdmission, FiniteSetTheorems, TLAPS

Begun(x) == pjob[x] \notin {"none", READY}
Ended(x) == pjob[x] \in EndStatus

\* What holds of the rows of a job, wherever a scheduler is with it.
OfJob(j) ==
    /\ pc[j] = "apply" => sjob[j] = WAITING
    /\ pc[j] \in {"created", "uncreated"} => sjob[j] = READY
    /\ pc[j] = "created" => \A p \in Parties : pjob[<<p, j>>] # "none"
    /\ sjob[j] \notin {"none", READY} => \A p \in Parties : Begun(<<p, j>>)
    /\ sjob[j] \in {"none", READY} => \A p \in Parties : <<p, j>> \notin started
    /\ \A p \in Parties :
         (pc[j] = "apply" /\ answers[j][p] = "ok") \/ sjob[j] = RUNNING
            => <<p, j>> \in held \/ Ended(<<p, j>>)
    /\ faults = 0 => \A p \in Parties :
         /\ <<p, j>> \in held => sjob[j] = RUNNING \/ (pc[j] = "apply" /\ answers[j][p] = "ok")
         /\ sjob[j] = RUNNING => <<p, j>> \in started

AdmissionIInv == TypeOK /\ \A j \in Jobs : OfJob(j)
-----------------------------------------------------------------------------
(* Statuses and faults *)

LEMMA MovedFacts ==
    ASSUME NEW old \in JobStatus \cup {"none"},
           NEW s \in {WAITING, RUNNING, FAILED, CANCELED, SUCCESS}
    PROVE  /\ Moved(old, s) \in JobStatus \cup {"none"}
           /\ old # "none" => Moved(old, s) # "none"
           /\ old \notin {"none", READY} => Moved(old, s) \notin {"none", READY}
           /\ old = READY /\ s = WAITING => Moved(old, s) = WAITING
           /\ old \in EndStatus /\ s # WAITING => Moved(old, s) \in EndStatus
           /\ old = WAITING => Moved(old, s) = s
           /\ s \in EndStatus /\ JobMayBecome(old, s) => Moved(old, s) \in EndStatus
           /\ s \in EndStatus /\ old \notin {"none", READY} => Moved(old, s) \in EndStatus
  BY DEF Moved, JobMayBecome, JobRules, JobStatus, EndStatus, READY, WAITING, RUNNING, CANCELED,
         TIMEOUT, FAILED, PASS, SUCCESS

LEMMA StatusKinds ==
    /\ {FAILED, CANCELED, SUCCESS} \subseteq EndStatus
    /\ {READY, WAITING, RUNNING, FAILED, CANCELED, SUCCESS} \subseteq JobStatus
    /\ WAITING # READY /\ WAITING # "none" /\ WAITING # RUNNING /\ RUNNING # READY /\ RUNNING # "none"
    /\ READY # "none" /\ WAITING \notin EndStatus
    /\ \A s \in {FAILED, CANCELED, SUCCESS} : s \notin {"none", READY, WAITING, RUNNING}
  BY DEF JobStatus, EndStatus, READY, WAITING, RUNNING, CANCELED, TIMEOUT, FAILED, PASS, SUCCESS

LEMMA FaultFacts ==
    ASSUME TypeOK, NEW n \in Nat, Fault(n)
    PROVE  /\ faults' \in 0..MaxFaults /\ faults' >= faults
           /\ faults' = 0 => faults = 0 /\ n = 0
  BY AdmissionAssumption DEF TypeOK, Fault

LEMMA LossFacts ==
    /\ \A P \in Losses : P \subseteq Parties /\ IsFiniteSet(P) /\ Cardinality(P) \in Nat
    /\ \A P \in Losses : Cardinality(P) = 0 => P = {}
<1>1. \A P \in Losses : P \subseteq Parties
    BY DEF Losses
<1>2. \A P \in Losses : IsFiniteSet(P) /\ Cardinality(P) \in Nat
    BY <1>1, AdmissionAssumption, FS_Subset, FS_CardinalityType
<1>3. \A P \in Losses : Cardinality(P) = 0 => P = {}
    BY <1>2, FS_EmptySet
<1> QED
    BY <1>1, <1>2, <1>3
-----------------------------------------------------------------------------
(* Steps and jobs *)

\* A step leaves a job alone, but for what may get lost meanwhile.
SameRows(k) ==
    \A p \in Parties : /\ pjob'[<<p, k>>] = pjob[<<p, k>>]
                       /\ <<p, k>> \in started' <=> <<p, k>> \in started
                       /\ <<p, k>> \in held' <=> <<p, k>> \in held

Same(k) ==
    SameRows(k) /\ sjob'[k] = sjob[k] /\ pc'[k] = pc[k] /\ answers'[k] = answers[k]

LEMMA SameKeeps ==
    ASSUME NEW k \in Jobs, OfJob(k), Same(k), faults' = 0 => faults = 0
    PROVE  OfJob(k)'
  BY DEF OfJob, Same, SameRows, Begun, Ended

\* The parties set some copies of a job to s.
LEMMA SyncedFacts ==
    ASSUME TypeOK, NEW j \in Jobs, NEW X \in SUBSET At(Parties, j),
           NEW s \in {WAITING, FAILED, CANCELED, SUCCESS}, Synced(X, s)
    PROVE  /\ pjob' \in [Copies -> JobStatus \cup {"none"}] /\ held' \subseteq held
           /\ \A p \in Parties, k \in Jobs \ {j} :
                /\ pjob'[<<p, k>>] = pjob[<<p, k>>]
                /\ <<p, k>> \in held' <=> <<p, k>> \in held
           /\ \A p \in Parties :
                pjob'[<<p, j>>] = IF <<p, j>> \in X THEN Moved(pjob[<<p, j>>], s) ELSE pjob[<<p, j>>]
           /\ \A p \in Parties :
                <<p, j>> \in held' <=>
                    /\ <<p, j>> \in held
                    /\ ~(<<p, j>> \in X /\ s \in EndStatus
                           /\ (JobMayBecome(pjob[<<p, j>>], s) \/ <<p, j>> \in started))
<1>1. /\ pjob' = [x \in Copies |-> IF x \in X THEN Moved(pjob[x], s) ELSE pjob[x]]
      /\ held' = held \ Freed(X, s)
      /\ pjob \in [Copies -> JobStatus \cup {"none"}]
    BY DEF Synced, TypeOK
<1>2. \A x \in Copies : Moved(pjob[x], s) \in JobStatus \cup {"none"}
    BY <1>1, MovedFacts
<1>3. pjob' \in [Copies -> JobStatus \cup {"none"}]
    BY <1>1, <1>2
<1>4. \A p \in Parties, k \in Jobs : <<p, k>> \in Copies /\ (<<p, k>> \in X => k = j)
    BY DEF Copies, At
<1> QED
    BY <1>1, <1>3, <1>4 DEF Freed

\* An end status: no copy of the job comes to life, and cores are freed where it has ended.
Ending(j) ==
    \A p \in Parties :
        /\ pjob[<<p, j>>] # "none" => pjob'[<<p, j>>] # "none"
        /\ Begun(<<p, j>>) => Begun(<<p, j>>)'
        /\ Ended(<<p, j>>) => Ended(<<p, j>>)'
        /\ <<p, j>> \in held' => <<p, j>> \in held
        /\ <<p, j>> \in held \ held' /\ Begun(<<p, j>>) => Ended(<<p, j>>)'

Others(j) == \A k \in Jobs \ {j} : SameRows(k)

LEMMA EndFacts ==
    ASSUME AdmissionIInv, NEW j \in Jobs, NEW X \in SUBSET At(Parties, j),
           NEW s \in {FAILED, CANCELED, SUCCESS}, Synced(X, s), started' = started
    PROVE  /\ pjob' \in [Copies -> JobStatus \cup {"none"}] /\ held' \subseteq Copies
           /\ Ending(j) /\ Others(j)
<1>0. TypeOK /\ s \in EndStatus /\ s # WAITING
    BY StatusKinds DEF AdmissionIInv
<1>1. Others(j)
    BY <1>0, SyncedFacts DEF Others, SameRows
<1>2. ASSUME NEW p \in Parties
      PROVE  /\ pjob[<<p, j>>] # "none" => pjob'[<<p, j>>] # "none"
             /\ Begun(<<p, j>>) => Begun(<<p, j>>)'
             /\ Ended(<<p, j>>) => Ended(<<p, j>>)'
             /\ <<p, j>> \in held' => <<p, j>> \in held
             /\ <<p, j>> \in held \ held' /\ Begun(<<p, j>>) => Ended(<<p, j>>)'
  <2>1. pjob[<<p, j>>] \in JobStatus \cup {"none"}
      BY <1>0, <1>2 DEF TypeOK, Copies
  <2>2. pjob'[<<p, j>>] = pjob[<<p, j>>] \/
            (<<p, j>> \in X /\ pjob'[<<p, j>>] = Moved(pjob[<<p, j>>], s))
      BY <1>0, <1>2, SyncedFacts
  <2>3. /\ <<p, j>> \in held' => <<p, j>> \in held
        /\ <<p, j>> \in held \ held' => pjob'[<<p, j>>] = Moved(pjob[<<p, j>>], s)
      BY <1>0, <1>2, SyncedFacts
  <2> QED
      BY <1>0, <2>1, <2>2, <2>3, MovedFacts DEF Begun, Ended
<1>3. Ending(j)
    BY <1>2 DEF Ending
<1> QED
    BY <1>0, <1>1, <1>3, SyncedFacts DEF TypeOK

\* The step of a job, from what becomes of its rows.
LEMMA StepOf ==
    ASSUME AdmissionIInv, NEW j \in Jobs, TypeOK', OfJob(j)', Others(j),
           \A k \in Jobs \ {j} : sjob'[k] = sjob[k] /\ pc'[k] = pc[k] /\ answers'[k] = answers[k],
           faults' = 0 => faults = 0
    PROVE  AdmissionIInv'
<1>1. \A k \in Jobs \ {j} : OfJob(k)'
    BY SameKeeps DEF AdmissionIInv, Others, Same
<1> QED
    BY <1>1 DEF AdmissionIInv
-----------------------------------------------------------------------------
(* Requests and detectors *)

\* The rows of the scheduler stay, and copies at the parties end.
LEMMA RequestKeeps ==
    ASSUME AdmissionIInv, NEW j \in Jobs, TypeOK', Ending(j), Others(j),
           UNCHANGED <<sjob, started, pc, answers>>, faults' = 0 => faults = 0
    PROVE  AdmissionIInv'
<1>1. OfJob(j)
    BY DEF AdmissionIInv
<1>2. OfJob(j)'
  <2>1. \A p \in Parties : <<p, j>> \in held => <<p, j>> \in held' \/ (Begun(<<p, j>>) => Ended(<<p, j>>)')
      BY DEF Ending
  <2>2. WAITING \notin {"none", READY} /\ RUNNING \notin {"none", READY}
      BY StatusKinds
  <2> QED
      BY <1>1, <2>1, <2>2 DEF OfJob, Ending
<1> QED
    BY <1>2, StepOf

LEMMA StopJobFacts ==
    ASSUME AdmissionIInv, NEW j \in Jobs, NEW s, StopJob(j, s), started' = started
    PROVE  /\ pjob' \in [Copies -> JobStatus \cup {"none"}] /\ held' \subseteq Copies
           /\ Ending(j) /\ Others(j) /\ cancel' \in [Jobs -> BOOLEAN]
           /\ faults' \in 0..MaxFaults /\ (faults' = 0 => faults = 0)
<1>0. TypeOK
    BY DEF AdmissionIInv
<1>1. PICK missed \in Losses : /\ Synced(At(Parties \ missed, j), FAILED)
                               /\ Fault(Cardinality(missed))
    BY DEF StopJob
<1>2. At(Parties \ missed, j) \in SUBSET At(Parties, j)
    BY DEF At
<1>3. cancel' \in [Jobs -> BOOLEAN]
    BY <1>0 DEF StopJob, TypeOK
<1>4. faults' \in 0..MaxFaults /\ (faults' = 0 => faults = 0)
    BY <1>0, <1>1, LossFacts, FaultFacts
<1> HIDE DEF StopJob
<1> QED
    BY <1>1, <1>2, <1>3, <1>4, EndFacts

LEMMA StaysAsItIs == ASSUME UNCHANGED <<pjob, held, started>>, NEW j PROVE Ending(j) /\ Others(j)
  BY DEF Ending, Others, SameRows, Begun, Ended

LEMMA StopAskedKeeps ==
    ASSUME AdmissionIInv, NEW j \in Jobs, StopAsked(j)
    PROVE  AdmissionIInv'
<1>0. TypeOK
    BY DEF AdmissionIInv
<1>1. UNCHANGED <<home, room, sjob, started, pc, answers, canceler>> /\ asked' = asked \ {j}
    BY DEF StopAsked, config
<1>2. /\ pjob' \in [Copies -> JobStatus \cup {"none"}] /\ held' \subseteq Copies
      /\ Ending(j) /\ Others(j) /\ cancel' \in [Jobs -> BOOLEAN]
      /\ faults' \in 0..MaxFaults /\ (faults' = 0 => faults = 0)
  <2>1. CASE StopJob(j, TIMEOUT)
      BY <1>1, <2>1, StopJobFacts
  <2>2. CASE Fault(1) /\ UNCHANGED <<cancel, pjob, held>>
    <3>1. faults' \in 0..MaxFaults /\ (faults' = 0 => faults = 0)
        BY <1>0, <2>2, FaultFacts
    <3> QED
        BY <1>0, <1>1, <2>2, <3>1, StaysAsItIs DEF TypeOK
  <2> QED
      BY <2>1, <2>2 DEF StopAsked
<1>3. TypeOK'
    BY <1>0, <1>1, <1>2 DEF TypeOK
<1> QED
    BY <1>1, <1>2, <1>3, RequestKeeps

LEMMA CancelEverywhereKeeps ==
    ASSUME AdmissionIInv, NEW j \in Cancelers, CancelEverywhere(j)
    PROVE  AdmissionIInv'
<1>0. TypeOK /\ j \in Jobs
    BY AdmissionAssumption DEF AdmissionIInv
<1>1. /\ UNCHANGED <<home, room, sjob, started, pc, answers, asked>>
      /\ canceler' = [canceler EXCEPT ![j] = "done"]
    BY DEF CancelEverywhere, config
<1>2. /\ pjob' \in [Copies -> JobStatus \cup {"none"}] /\ held' \subseteq Copies
      /\ Ending(j) /\ Others(j) /\ cancel' \in [Jobs -> BOOLEAN]
      /\ faults' \in 0..MaxFaults /\ (faults' = 0 => faults = 0)
  <2>1. CASE StopJob(j, CANCELED)
      BY <1>0, <1>1, <2>1, StopJobFacts
  <2>2. CASE Fault(1) /\ UNCHANGED <<cancel, pjob, held>>
    <3>1. faults' \in 0..MaxFaults /\ (faults' = 0 => faults = 0)
        BY <1>0, <2>2, FaultFacts
    <3> QED
        BY <1>0, <1>1, <2>2, <3>1, StaysAsItIs DEF TypeOK
  <2> QED
      BY <2>1, <2>2 DEF CancelEverywhere
<1>3. TypeOK'
    BY <1>0, <1>1, <1>2 DEF TypeOK
<1> QED
    BY <1>0, <1>1, <1>2, <1>3, RequestKeeps

LEMMA CancelAtHomeKeeps ==
    ASSUME AdmissionIInv, NEW j \in Cancelers, NEW p \in Parties, CancelAtHome(p, j)
    PROVE  AdmissionIInv'
<1>0. TypeOK /\ j \in Jobs /\ {<<p, j>>} \in SUBSET At(Parties, j)
    BY AdmissionAssumption DEF AdmissionIInv, At
<1>1. /\ UNCHANGED <<home, room, sjob, cancel, started, pc, answers, asked, faults>>
      /\ canceler' = [canceler EXCEPT ![j] = "home"] /\ Synced({<<p, j>>}, CANCELED)
    BY DEF CancelAtHome, config
<1>2. /\ pjob' \in [Copies -> JobStatus \cup {"none"}] /\ held' \subseteq Copies
      /\ Ending(j) /\ Others(j)
    BY <1>0, <1>1, EndFacts
<1>3. TypeOK'
    BY <1>0, <1>1, <1>2 DEF TypeOK
<1> QED
    BY <1>0, <1>1, <1>2, <1>3, RequestKeeps

LEMMA DetectKeeps ==
    ASSUME AdmissionIInv, NEW p \in Parties, NEW j \in Jobs, Detect(p, j)
    PROVE  AdmissionIInv'
<1>0. TypeOK
    BY DEF AdmissionIInv
<1>1. /\ UNCHANGED <<home, room, sjob, cancel, pjob, started, pc, answers, canceler, faults>>
      /\ asked' \in {asked, asked \cup {j}}
      /\ held' = held \/ (held' = held \ {<<p, j>>} /\ Ended(<<p, j>>))
    BY DEF Detect, DetectWaiting, DetectEnded, config, rows, requests, Ended
<1>2. Ending(j) /\ Others(j)
    BY <1>1 DEF Ending, Others, SameRows, Begun, Ended
<1>3. TypeOK'
    BY <1>0, <1>1 DEF TypeOK
<1> QED
    BY <1>1, <1>2, <1>3, RequestKeeps
-----------------------------------------------------------------------------
(* The scheduler *)

LEMMA UnansweredType == Unanswered \in [Parties -> {"none", "ok", "no", "limit"}]
  BY DEF Unanswered

LEMMA SubmitKeeps == ASSUME AdmissionIInv, NEW j \in Jobs, Submit(j) PROVE AdmissionIInv'
<1>0. TypeOK /\ OfJob(j)
    BY DEF AdmissionIInv
<1>1. /\ UNCHANGED <<home, room, cancel, started, held, answers, asked, canceler>>
      /\ sjob[j] = "none" /\ sjob' = [sjob EXCEPT ![j] = READY]
    BY DEF Submit, config, requests
<1>2. PICK missed \in Losses, unanswered \in Losses :
         /\ missed \cap unanswered = {}
         /\ pjob' = [x \in Copies |-> IF x \in At(Parties \ missed, j) THEN READY ELSE pjob[x]]
         /\ Fault(Cardinality(missed) + Cardinality(unanswered))
         /\ Goto(j, IF missed \cup unanswered = {} THEN "created" ELSE "uncreated")
    BY DEF Submit
<1>3. faults' \in 0..MaxFaults /\ (faults' = 0 => faults = 0)
    BY <1>0, <1>2, LossFacts, FaultFacts
<1>4. /\ sjob' \in [Jobs -> JobStatus \cup {"none"}] /\ sjob'[j] = READY
      /\ \A k \in Jobs \ {j} : sjob'[k] = sjob[k]
    BY <1>0, <1>1, StatusKinds DEF TypeOK
<1>5. /\ pc' \in [Jobs -> {"idle", "created", "uncreated", "apply", "finish"}]
      /\ pc'[j] \in {"created", "uncreated"} /\ (pc'[j] = "created" => missed = {})
      /\ \A k \in Jobs \ {j} : pc'[k] = pc[k]
    BY <1>0, <1>2 DEF TypeOK, Goto
<1>6. /\ pjob' \in [Copies -> JobStatus \cup {"none"}]
      /\ \A p \in Parties, k \in Jobs \ {j} : pjob'[<<p, k>>] = pjob[<<p, k>>]
      /\ \A p \in Parties : missed = {} => pjob'[<<p, j>>] = READY
    BY <1>0, <1>2, StatusKinds DEF TypeOK, Copies, At
<1>7. TypeOK'
    BY <1>0, <1>1, <1>3, <1>4, <1>5, <1>6 DEF TypeOK
<1>8. OfJob(j)'
    BY <1>0, <1>1, <1>3, <1>4, <1>5, <1>6, StatusKinds DEF OfJob
<1>9. Others(j)
    BY <1>1, <1>6 DEF Others, SameRows
<1> QED
    BY <1>1, <1>3, <1>4, <1>5, <1>7, <1>8, <1>9, StepOf

LEMMA GiveUpKeeps == ASSUME AdmissionIInv, NEW j \in Jobs, GiveUp(j) PROVE AdmissionIInv'
<1>0. TypeOK /\ OfJob(j)
    BY DEF AdmissionIInv
<1>1. /\ UNCHANGED <<home, room, sjob, cancel, started, answers, asked, canceler>>
      /\ pc[j] = "uncreated" /\ pc' = [pc EXCEPT ![j] = "idle"]
    BY DEF GiveUp, config, requests, Goto
<1>2. PICK missed \in Losses :
         /\ Synced({x \in At(Parties \ missed, j) : pjob[x] # "none"}, FAILED)
         /\ Fault(Cardinality(missed))
    BY DEF GiveUp
<1>3. faults' \in 0..MaxFaults /\ (faults' = 0 => faults = 0)
    BY <1>0, <1>2, LossFacts, FaultFacts
<1>4. /\ pjob' \in [Copies -> JobStatus \cup {"none"}] /\ held' \subseteq Copies
      /\ Ending(j) /\ Others(j)
  <2> DEFINE X == {x \in At(Parties \ missed, j) : pjob[x] # "none"}
  <2>1. X \in SUBSET At(Parties, j)
      BY DEF At
  <2> QED
      BY <1>1, <1>2, <2>1, EndFacts
<1>5. TypeOK'
    BY <1>0, <1>1, <1>3, <1>4 DEF TypeOK
<1>6. pc'[j] = "idle" /\ \A k \in Jobs \ {j} : pc'[k] = pc[k]
    BY <1>0, <1>1 DEF TypeOK
<1>7. OfJob(j)'
    BY <1>0, <1>1, <1>3, <1>4, <1>6, StatusKinds DEF OfJob, Ending
<1> QED
    BY <1>1, <1>3, <1>4, <1>5, <1>6, <1>7, StepOf

LEMMA QueueKeeps == ASSUME AdmissionIInv, NEW j \in Jobs, Queue(j) PROVE AdmissionIInv'
<1>0. TypeOK /\ OfJob(j)
    BY DEF AdmissionIInv
<1>1. /\ UNCHANGED <<home, room, cancel, started, answers, asked, canceler>>
      /\ pc[j] = "created" /\ pc' = [pc EXCEPT ![j] = "idle"]
    BY DEF Queue, config, requests, Goto
<1>2. PICK missed \in Losses, unanswered \in Losses :
         /\ Synced(At(Parties \ missed, j), WAITING)
         /\ sjob' = IF missed \cup unanswered = {} THEN [sjob EXCEPT ![j] = WAITING] ELSE sjob
         /\ Fault(Cardinality(missed) + Cardinality(unanswered))
    BY DEF Queue
<1>3. faults' \in 0..MaxFaults /\ (faults' = 0 => faults = 0)
    BY <1>0, <1>2, LossFacts, FaultFacts
<1>4. /\ At(Parties \ missed, j) \in SUBSET At(Parties, j)
      /\ \A p \in Parties : missed = {} => <<p, j>> \in At(Parties \ missed, j)
    BY DEF At
<1>5. /\ pjob' \in [Copies -> JobStatus \cup {"none"}] /\ held' \subseteq Copies
      /\ Others(j)
      /\ \A p \in Parties : missed = {} => pjob'[<<p, j>>] = Moved(pjob[<<p, j>>], WAITING)
      /\ \A p \in Parties : <<p, j>> \in held' => <<p, j>> \in held
  <2> DEFINE X == At(Parties \ missed, j)
  <2>1. X \in SUBSET At(Parties, j) /\ Synced(X, WAITING)
      BY <1>2, <1>4
  <2>2. \A p \in Parties : missed = {} => <<p, j>> \in X
      BY <1>4
  <2> HIDE DEF X
  <2>3. /\ pjob' \in [Copies -> JobStatus \cup {"none"}] /\ held' \subseteq held
        /\ \A p \in Parties, k \in Jobs \ {j} :
             /\ pjob'[<<p, k>>] = pjob[<<p, k>>]
             /\ <<p, k>> \in held' <=> <<p, k>> \in held
        /\ \A p \in Parties :
             pjob'[<<p, j>>] =
                 IF <<p, j>> \in X THEN Moved(pjob[<<p, j>>], WAITING) ELSE pjob[<<p, j>>]
      BY <1>0, <2>1, SyncedFacts
  <2>4. Others(j)
      BY <1>1, <2>3 DEF Others, SameRows
  <2> QED
      BY <1>0, <2>2, <2>3, <2>4 DEF TypeOK
<1>6. /\ sjob[j] = READY
      /\ \A p \in Parties : pjob[<<p, j>>] \in JobStatus \cup {"none"} /\ pjob[<<p, j>>] # "none"
    BY <1>0, <1>1 DEF OfJob, TypeOK, Copies
<1>7. \A p \in Parties : missed = {} => pjob'[<<p, j>>] \notin {"none", READY}
  <2> SUFFICES ASSUME NEW p \in Parties, missed = {} PROVE pjob'[<<p, j>>] \notin {"none", READY}
      OBVIOUS
  <2> DEFINE old == pjob[<<p, j>>]
  <2>1. old \in JobStatus \cup {"none"} /\ old # "none" /\ pjob'[<<p, j>>] = Moved(old, WAITING)
      BY <1>5, <1>6
  <2> HIDE DEF old
  <2>2. Moved(old, WAITING) \notin {"none", READY}
      BY <2>1, MovedFacts, StatusKinds
  <2> QED
      BY <2>1, <2>2
<1>8. /\ sjob' \in [Jobs -> JobStatus \cup {"none"}] /\ sjob'[j] \in {READY, WAITING}
      /\ sjob'[j] = WAITING => missed = {}
      /\ \A k \in Jobs \ {j} : sjob'[k] = sjob[k]
    BY <1>0, <1>2, <1>6, StatusKinds DEF TypeOK
<1>9. /\ pc' \in [Jobs -> {"idle", "created", "uncreated", "apply", "finish"}]
      /\ pc'[j] = "idle" /\ \A k \in Jobs \ {j} : pc'[k] = pc[k]
    BY <1>0, <1>1 DEF TypeOK
<1>10. TypeOK'
    BY <1>0, <1>1, <1>3, <1>5, <1>8, <1>9 DEF TypeOK
<1>11. OfJob(j)'
  <2>1. faults' = 0 => \A p \in Parties : <<p, j>> \notin held'
      BY <1>0, <1>1, <1>3, <1>5, <1>6, StatusKinds DEF OfJob
  <2> QED
      BY <1>0, <1>1, <1>6, <1>7, <1>8, <1>9, <2>1, StatusKinds DEF OfJob, Begun
<1> QED
    BY <1>1, <1>3, <1>5, <1>8, <1>9, <1>10, <1>11, StepOf

LEMMA PickCanceledKeeps ==
    ASSUME AdmissionIInv, NEW j \in Jobs, PickCanceled(j)
    PROVE  AdmissionIInv'
<1>0. TypeOK /\ OfJob(j)
    BY DEF AdmissionIInv
<1>1. /\ UNCHANGED <<home, room, cancel, started, pc, answers, asked, canceler>>
      /\ pc[j] = "idle" /\ sjob[j] = WAITING /\ sjob' = [sjob EXCEPT ![j] = CANCELED]
    BY DEF PickCanceled, First, config, requests
<1>2. PICK missed \in Losses : /\ Synced(At(Parties \ missed, j), CANCELED)
                               /\ Fault(Cardinality(missed))
    BY DEF PickCanceled
<1>3. faults' \in 0..MaxFaults /\ (faults' = 0 => faults = 0)
    BY <1>0, <1>2, LossFacts, FaultFacts
<1>4. /\ pjob' \in [Copies -> JobStatus \cup {"none"}] /\ held' \subseteq Copies
      /\ Ending(j) /\ Others(j)
  <2>1. At(Parties \ missed, j) \in SUBSET At(Parties, j)
      BY DEF At
  <2> QED
      BY <1>1, <1>2, <2>1, EndFacts
<1>5. /\ sjob' \in [Jobs -> JobStatus \cup {"none"}] /\ sjob'[j] = CANCELED
      /\ \A k \in Jobs \ {j} : sjob'[k] = sjob[k]
    BY <1>0, <1>1, StatusKinds DEF TypeOK
<1>6. TypeOK'
    BY <1>0, <1>1, <1>3, <1>4, <1>5 DEF TypeOK
<1>7. OfJob(j)'
    BY <1>0, <1>1, <1>3, <1>4, <1>5, StatusKinds DEF OfJob, Ending
<1> QED
    BY <1>1, <1>3, <1>4, <1>5, <1>6, <1>7, StepOf

LEMMA PickKeeps == ASSUME AdmissionIInv, NEW j \in Jobs, Pick(j) PROVE AdmissionIInv'
<1>0. TypeOK /\ OfJob(j)
    BY DEF AdmissionIInv
<1>1. /\ UNCHANGED <<home, room, sjob, cancel, pjob, started, held, asked, canceler, faults>>
      /\ pc[j] = "idle" /\ sjob[j] = WAITING /\ pc' = [pc EXCEPT ![j] = "apply"]
      /\ answers' = [answers EXCEPT ![j] = Unanswered]
    BY DEF Pick, First, Goto, config, rows, requests
<1>2. /\ pc' \in [Jobs -> {"idle", "created", "uncreated", "apply", "finish"}]
      /\ pc'[j] = "apply" /\ \A k \in Jobs \ {j} : pc'[k] = pc[k]
    BY <1>0, <1>1 DEF TypeOK
<1>3. /\ answers' \in [Jobs -> [Parties -> {"none", "ok", "no", "limit"}]]
      /\ answers'[j] = Unanswered /\ \A k \in Jobs \ {j} : answers'[k] = answers[k]
    BY <1>0, <1>1, UnansweredType DEF TypeOK
<1>4. TypeOK'
    BY <1>0, <1>1, <1>2, <1>3 DEF TypeOK
<1>5. OfJob(j)'
    BY <1>0, <1>1, <1>2, <1>3, StatusKinds DEF OfJob, Unanswered, Begun, Ended
<1> QED
    BY <1>1, <1>2, <1>3, <1>4, <1>5, StaysAsItIs, StepOf

\* A party answers a, or is taken to.
LEMMA AnswerFacts ==
    ASSUME TypeOK, NEW j \in Jobs, NEW p \in Parties, NEW a \in {"ok", "no", "limit"}, Answer(j, p, a)
    PROVE  /\ answers' \in [Jobs -> [Parties -> {"none", "ok", "no", "limit"}]]
           /\ answers'[j][p] = a
           /\ \A q \in Parties \ {p} : answers'[j][q] = answers[j][q]
           /\ \A k \in Jobs \ {j} : answers'[k] = answers[k]
  BY DEF TypeOK, Answer

LEMMA GrantedKeeps ==
    ASSUME AdmissionIInv, NEW j \in Jobs, NEW p \in Parties, Granted(j, p)
    PROVE  AdmissionIInv'
<1>0. TypeOK /\ OfJob(j)
    BY DEF AdmissionIInv
<1>1. /\ UNCHANGED <<home, room, sjob, cancel, pjob, started, pc, asked, canceler>>
      /\ pc[j] = "apply" /\ held' = held \cup {<<p, j>>}
    BY DEF Granted, config, requests
<1>2. PICK a \in {"ok", "no"} : Answer(j, p, a) /\ ((a = "ok" /\ UNCHANGED faults) \/ Fault(1))
    BY DEF Granted
<1>3. /\ faults' \in 0..MaxFaults /\ (faults' = 0 => faults = 0)
      /\ faults' = 0 => a = "ok"
    BY <1>0, <1>2, FaultFacts DEF TypeOK
<1>4. /\ answers' \in [Jobs -> [Parties -> {"none", "ok", "no", "limit"}]]
      /\ answers'[j][p] = a
      /\ \A q \in Parties \ {p} : answers'[j][q] = answers[j][q]
      /\ \A k \in Jobs \ {j} : answers'[k] = answers[k]
    BY <1>0, <1>2, AnswerFacts
<1>5. TypeOK'
    BY <1>0, <1>1, <1>3, <1>4 DEF TypeOK, Copies
<1>6. OfJob(j)'
    BY <1>0, <1>1, <1>3, <1>4 DEF OfJob, Begun, Ended
<1>7. Others(j)
    BY <1>1 DEF Others, SameRows
<1> QED
    BY <1>1, <1>3, <1>4, <1>5, <1>6, <1>7, StepOf

LEMMA RefusedKeeps ==
    ASSUME AdmissionIInv, NEW j \in Jobs, NEW p \in Parties, Refused(j, p)
    PROVE  AdmissionIInv'
<1>0. TypeOK /\ OfJob(j)
    BY DEF AdmissionIInv
<1>1. /\ UNCHANGED <<home, room, sjob, cancel, pjob, started, held, pc, asked, canceler>>
      /\ pc[j] = "apply" /\ answers[j][p] = "none"
    BY DEF Refused, config, rows, requests
<1>2. PICK a \in {"no", "limit"} : Answer(j, p, a) /\ (UNCHANGED faults \/ Fault(1))
    BY DEF Refused
<1>3. faults' \in 0..MaxFaults /\ (faults' = 0 => faults = 0)
    BY <1>0, <1>2, FaultFacts DEF TypeOK
<1>4. /\ answers' \in [Jobs -> [Parties -> {"none", "ok", "no", "limit"}]]
      /\ answers'[j][p] = a
      /\ \A q \in Parties \ {p} : answers'[j][q] = answers[j][q]
      /\ \A k \in Jobs \ {j} : answers'[k] = answers[k]
    BY <1>0, <1>2, AnswerFacts
<1>5. TypeOK'
    BY <1>0, <1>1, <1>3, <1>4 DEF TypeOK
<1>6. OfJob(j)'
    BY <1>0, <1>1, <1>3, <1>4 DEF OfJob, Begun, Ended
<1> QED
    BY <1>1, <1>3, <1>4, <1>5, <1>6, StaysAsItIs, StepOf

LEMMA RollBackKeeps ==
    ASSUME AdmissionIInv, NEW j \in Jobs, NEW p \in Parties, RollBack(j, p)
    PROVE  AdmissionIInv'
<1>0. TypeOK /\ OfJob(j)
    BY DEF AdmissionIInv
<1>1. /\ UNCHANGED <<home, room, sjob, cancel, pjob, started, pc, asked, canceler>>
      /\ pc[j] = "apply" /\ answers[j][p] = "ok" /\ Answer(j, p, "no")
      /\ held' \in {held, held \ {<<p, j>>}}
    BY DEF RollBack, config, requests
<1>2. /\ faults' \in 0..MaxFaults /\ (faults' = 0 => faults = 0)
      /\ faults' = 0 => held' = held \ {<<p, j>>}
    BY <1>0, FaultFacts DEF RollBack, TypeOK
<1>3. /\ answers' \in [Jobs -> [Parties -> {"none", "ok", "no", "limit"}]]
      /\ answers'[j][p] = "no"
      /\ \A q \in Parties \ {p} : answers'[j][q] = answers[j][q]
      /\ \A k \in Jobs \ {j} : answers'[k] = answers[k]
    BY <1>0, <1>1, AnswerFacts
<1>4. TypeOK'
    BY <1>0, <1>1, <1>2, <1>3 DEF TypeOK
<1>5. OfJob(j)'
    BY <1>0, <1>1, <1>2, <1>3, StatusKinds DEF OfJob, Begun, Ended
<1>6. Others(j)
    BY <1>1 DEF Others, SameRows
<1> QED
    BY <1>1, <1>2, <1>3, <1>4, <1>5, <1>6, StepOf

LEMMA NextTimeKeeps == ASSUME AdmissionIInv, NEW j \in Jobs, NextTime(j) PROVE AdmissionIInv'
<1>0. TypeOK /\ OfJob(j)
    BY DEF AdmissionIInv
<1>1. /\ UNCHANGED <<home, room, sjob, cancel, pjob, started, held, asked, canceler, faults>>
      /\ pc[j] = "apply" /\ \A p \in Parties : answers[j][p] # "ok"
      /\ pc' = [pc EXCEPT ![j] = "idle"] /\ answers' = [answers EXCEPT ![j] = Unanswered]
    BY DEF NextTime, RolledBack, Goto, config, rows, requests
<1>2. /\ pc' \in [Jobs -> {"idle", "created", "uncreated", "apply", "finish"}]
      /\ pc'[j] = "idle" /\ \A k \in Jobs \ {j} : pc'[k] = pc[k]
    BY <1>0, <1>1 DEF TypeOK
<1>3. /\ answers' \in [Jobs -> [Parties -> {"none", "ok", "no", "limit"}]]
      /\ \A k \in Jobs \ {j} : answers'[k] = answers[k]
    BY <1>0, <1>1, UnansweredType DEF TypeOK
<1>4. TypeOK'
    BY <1>0, <1>1, <1>2, <1>3 DEF TypeOK
<1>5. OfJob(j)'
    BY <1>0, <1>1, <1>2, StatusKinds DEF OfJob, Begun, Ended
<1> QED
    BY <1>1, <1>2, <1>3, <1>4, <1>5, StaysAsItIs, StepOf

LEMMA LimitExceededKeeps ==
    ASSUME AdmissionIInv, NEW j \in Jobs, LimitExceeded(j)
    PROVE  AdmissionIInv'
<1>0. TypeOK /\ OfJob(j)
    BY DEF AdmissionIInv
<1>1. /\ UNCHANGED <<home, room, started, asked, canceler>> /\ StopJob(j, FAILED)
      /\ pc[j] = "apply" /\ \A p \in Parties : answers[j][p] # "ok"
      /\ sjob' = [sjob EXCEPT ![j] = Moved(@, FAILED)]
      /\ pc' = [pc EXCEPT ![j] = "idle"] /\ answers' = [answers EXCEPT ![j] = Unanswered]
    BY DEF LimitExceeded, RolledBack, Goto, config, requests
<1>2. /\ pjob' \in [Copies -> JobStatus \cup {"none"}] /\ held' \subseteq Copies
      /\ Ending(j) /\ Others(j) /\ cancel' \in [Jobs -> BOOLEAN]
      /\ faults' \in 0..MaxFaults /\ (faults' = 0 => faults = 0)
    BY <1>1, StopJobFacts
<1>3. sjob[j] = WAITING /\ Moved(sjob[j], FAILED) = FAILED
    BY <1>0, <1>1, MovedFacts DEF OfJob, TypeOK
<1>4. /\ sjob' \in [Jobs -> JobStatus \cup {"none"}] /\ sjob'[j] = FAILED
      /\ \A k \in Jobs \ {j} : sjob'[k] = sjob[k]
    BY <1>0, <1>1, <1>3, StatusKinds DEF TypeOK
<1>5. /\ pc' \in [Jobs -> {"idle", "created", "uncreated", "apply", "finish"}]
      /\ pc'[j] = "idle" /\ \A k \in Jobs \ {j} : pc'[k] = pc[k]
    BY <1>0, <1>1 DEF TypeOK
<1>6. /\ answers' \in [Jobs -> [Parties -> {"none", "ok", "no", "limit"}]]
      /\ \A k \in Jobs \ {j} : answers'[k] = answers[k]
    BY <1>0, <1>1, UnansweredType DEF TypeOK
<1>7. TypeOK'
    BY <1>0, <1>1, <1>2, <1>4, <1>5, <1>6 DEF TypeOK
<1>8. OfJob(j)'
    BY <1>0, <1>1, <1>2, <1>3, <1>4, <1>5, StatusKinds DEF OfJob, Ending
<1> QED
    BY <1>1, <1>2, <1>4, <1>5, <1>6, <1>7, <1>8, StepOf

\* All have granted their cores, and each party that hears of the start has run or failed.
LEMMA StartKeeps == ASSUME AdmissionIInv, NEW j \in Jobs, Start(j) PROVE AdmissionIInv'
<1>0. TypeOK /\ OfJob(j)
    BY DEF AdmissionIInv
<1>1. /\ UNCHANGED <<home, room, cancel, asked, canceler>>
      /\ pc[j] = "apply" /\ \A p \in Parties : answers[j][p] = "ok"
      /\ sjob' = [sjob EXCEPT ![j] = Moved(@, RUNNING)]
      /\ pc' = [pc EXCEPT ![j] = "idle"] /\ answers' = [answers EXCEPT ![j] = Unanswered]
    BY DEF Start, Goto, config, requests
<1>2. PICK missed \in Losses :
         \E broken \in SUBSET (Parties \ missed) :
             /\ pjob' = [x \in Copies |->
                  IF x \notin At(Parties \ missed, j) THEN pjob[x]
                  ELSE Moved(pjob[x], IF x[1] \in broken THEN FAILED ELSE RUNNING)]
             /\ held' = held \ Freed(At(broken, j), FAILED)
             /\ started' = started \cup At(Parties \ missed, j)
             /\ Fault(Cardinality(missed))
    BY DEF Start
<1>3. PICK broken \in SUBSET (Parties \ missed) :
         /\ pjob' = [x \in Copies |->
              IF x \notin At(Parties \ missed, j) THEN pjob[x]
              ELSE Moved(pjob[x], IF x[1] \in broken THEN FAILED ELSE RUNNING)]
         /\ held' = held \ Freed(At(broken, j), FAILED)
         /\ started' = started \cup At(Parties \ missed, j)
         /\ Fault(Cardinality(missed))
    BY <1>2
<1>4. /\ faults' \in 0..MaxFaults /\ (faults' = 0 => faults = 0)
      /\ faults' = 0 => missed = {}
    BY <1>0, <1>3, LossFacts, FaultFacts
<1>5. sjob[j] = WAITING /\ Moved(sjob[j], RUNNING) = RUNNING
    BY <1>0, <1>1, MovedFacts DEF OfJob, TypeOK
<1>6. /\ sjob' \in [Jobs -> JobStatus \cup {"none"}] /\ sjob'[j] = RUNNING
      /\ \A k \in Jobs \ {j} : sjob'[k] = sjob[k]
    BY <1>0, <1>1, <1>5, StatusKinds DEF TypeOK
<1>7. /\ pc' \in [Jobs -> {"idle", "created", "uncreated", "apply", "finish"}]
      /\ pc'[j] = "idle" /\ \A k \in Jobs \ {j} : pc'[k] = pc[k]
    BY <1>0, <1>1 DEF TypeOK
<1>8. /\ answers' \in [Jobs -> [Parties -> {"none", "ok", "no", "limit"}]]
      /\ \A k \in Jobs \ {j} : answers'[k] = answers[k]
    BY <1>0, <1>1, UnansweredType DEF TypeOK
<1>9. \A p \in Parties, k \in Jobs :
         /\ <<p, k>> \in Copies
         /\ <<p, k>> \in At(Parties \ missed, j) <=> k = j /\ p \notin missed
         /\ <<p, k>> \in At(broken, j) <=> k = j /\ p \in broken
    BY DEF Copies, At
<1>10. /\ \A p \in Parties : pjob[<<p, j>>] \in JobStatus \cup {"none"} /\ Begun(<<p, j>>)
       /\ \A p \in Parties : <<p, j>> \in held \/ Ended(<<p, j>>)
    BY <1>0, <1>1, <1>5, <1>9, StatusKinds DEF OfJob, TypeOK
<1>11. pjob' \in [Copies -> JobStatus \cup {"none"}]
  <2>1. \A x \in Copies : pjob[x] \in JobStatus \cup {"none"}
      BY <1>0 DEF TypeOK
  <2>2. \A x \in Copies : /\ Moved(pjob[x], FAILED) \in JobStatus \cup {"none"}
                          /\ Moved(pjob[x], RUNNING) \in JobStatus \cup {"none"}
      BY <2>1, MovedFacts
  <2> QED
      BY <1>3, <2>1, <2>2
<1>12. Others(j) /\ held' \subseteq Copies /\ started' \subseteq Copies
  <2>1. \A p \in Parties, k \in Jobs \ {j} : pjob'[<<p, k>>] = pjob[<<p, k>>]
      BY <1>3, <1>9
  <2>2. \A p \in Parties, k \in Jobs \ {j} : <<p, k>> \in held' <=> <<p, k>> \in held
      BY <1>3, <1>9 DEF Freed
  <2>3. \A p \in Parties, k \in Jobs \ {j} : <<p, k>> \in started' <=> <<p, k>> \in started
      BY <1>3, <1>9
  <2>4. held' \subseteq Copies /\ started' \subseteq Copies
      BY <1>0, <1>3 DEF TypeOK, At, Copies
  <2> QED
      BY <2>1, <2>2, <2>3, <2>4 DEF Others, SameRows
<1>13. ASSUME NEW p \in Parties
       PROVE  /\ Begun(<<p, j>>)' /\ (<<p, j>> \in held' \/ Ended(<<p, j>>)')
              /\ missed = {} => <<p, j>> \in started'
  <2>1. /\ pjob'[<<p, j>>] \in {pjob[<<p, j>>], Moved(pjob[<<p, j>>], FAILED),
                                Moved(pjob[<<p, j>>], RUNNING)}
        /\ p \in broken => pjob'[<<p, j>>] = Moved(pjob[<<p, j>>], FAILED)
      BY <1>3, <1>9, <1>13
  <2>2. /\ Moved(pjob[<<p, j>>], FAILED) \notin {"none", READY}
        /\ Moved(pjob[<<p, j>>], RUNNING) \notin {"none", READY}
        /\ Moved(pjob[<<p, j>>], FAILED) \in EndStatus
        /\ Ended(<<p, j>>) => Moved(pjob[<<p, j>>], RUNNING) \in EndStatus
      BY <1>10, <1>13, MovedFacts, StatusKinds DEF Begun, Ended
  <2>3. p \notin broken /\ <<p, j>> \in held => <<p, j>> \in held'
      BY <1>3, <1>9, <1>13 DEF Freed
  <2>4. missed = {} => <<p, j>> \in started'
      BY <1>3, <1>9, <1>13
  <2> QED
      BY <1>10, <1>13, <2>1, <2>2, <2>3, <2>4 DEF Begun, Ended
<1>14. TypeOK'
    BY <1>0, <1>1, <1>4, <1>6, <1>7, <1>8, <1>11, <1>12 DEF TypeOK
<1>15. OfJob(j)'
    BY <1>0, <1>1, <1>4, <1>6, <1>7, <1>13, StatusKinds DEF OfJob
<1> QED
    BY <1>4, <1>6, <1>7, <1>8, <1>12, <1>14, <1>15, StepOf

LEMMA ConcludeKeeps == ASSUME AdmissionIInv, NEW j \in Jobs, Conclude(j) PROVE AdmissionIInv'
<1>0. TypeOK /\ OfJob(j)
    BY DEF AdmissionIInv
<1>1. /\ UNCHANGED <<home, room, cancel, started, answers, asked, canceler>>
      /\ sjob[j] = RUNNING /\ pc' = [pc EXCEPT ![j] = "finish"]
    BY DEF Conclude, Goto, config, requests
<1>2. PICK s \in {SUCCESS, FAILED, CANCELED}, missed \in Losses :
         /\ sjob' = [sjob EXCEPT ![j] = s]
         /\ Synced(At(Parties \ missed, j), s)
         /\ Fault(Cardinality(missed))
    BY DEF Conclude
<1>3. /\ faults' \in 0..MaxFaults /\ (faults' = 0 => faults = 0)
      /\ faults' = 0 => missed = {}
    BY <1>0, <1>2, LossFacts, FaultFacts
<1> DEFINE X == At(Parties \ missed, j)
<1>4. X \in SUBSET At(Parties, j) /\ Synced(X, s) /\ \A p \in Parties : missed = {} => <<p, j>> \in X
    BY <1>2 DEF At
<1> HIDE DEF X
<1>5. /\ pjob' \in [Copies -> JobStatus \cup {"none"}] /\ held' \subseteq Copies
      /\ Ending(j) /\ Others(j)
    BY <1>1, <1>2, <1>4, EndFacts
<1>6. faults' = 0 => \A p \in Parties : <<p, j>> \notin held'
  <2>1. \A p \in Parties : faults' = 0 => <<p, j>> \in X /\ <<p, j>> \in started
      BY <1>0, <1>1, <1>3, <1>4 DEF OfJob
  <2>2. \A p \in Parties : <<p, j>> \in held' =>
            ~(<<p, j>> \in X /\ s \in EndStatus
                /\ (JobMayBecome(pjob[<<p, j>>], s) \/ <<p, j>> \in started))
      BY <1>0, <1>2, <1>4, SyncedFacts
  <2> QED
      BY <1>2, <2>1, <2>2, StatusKinds
<1>7. /\ sjob' \in [Jobs -> JobStatus \cup {"none"}] /\ sjob'[j] = s
      /\ \A k \in Jobs \ {j} : sjob'[k] = sjob[k]
    BY <1>0, <1>2, StatusKinds DEF TypeOK
<1>8. /\ pc' \in [Jobs -> {"idle", "created", "uncreated", "apply", "finish"}]
      /\ pc'[j] = "finish" /\ \A k \in Jobs \ {j} : pc'[k] = pc[k]
    BY <1>0, <1>1 DEF TypeOK
<1>9. TypeOK'
    BY <1>0, <1>1, <1>3, <1>5, <1>7, <1>8 DEF TypeOK
<1>10. OfJob(j)'
  <2>1. s \notin {"none", READY, WAITING, RUNNING}
      BY <1>2, StatusKinds
  <2>2. \A p \in Parties : Begun(<<p, j>>)'
      BY <1>0, <1>1, <1>5, StatusKinds DEF OfJob, Ending
  <2> QED
      BY <1>6, <1>7, <1>8, <2>1, <2>2 DEF OfJob
<1> QED
    BY <1>1, <1>3, <1>5, <1>7, <1>8, <1>9, <1>10, StepOf

LEMMA FinishKeeps == ASSUME AdmissionIInv, NEW j \in Jobs, Finish(j) PROVE AdmissionIInv'
<1>0. TypeOK /\ OfJob(j)
    BY DEF AdmissionIInv
<1>1. /\ UNCHANGED <<home, room, sjob, started, answers, asked, canceler>>
      /\ pc[j] = "finish" /\ StopJob(j, sjob[j]) /\ pc' = [pc EXCEPT ![j] = "idle"]
    BY DEF Finish, Goto, config, requests
<1>2. /\ pjob' \in [Copies -> JobStatus \cup {"none"}] /\ held' \subseteq Copies
      /\ Ending(j) /\ Others(j) /\ cancel' \in [Jobs -> BOOLEAN]
      /\ faults' \in 0..MaxFaults /\ (faults' = 0 => faults = 0)
    BY <1>1, StopJobFacts
<1>3. /\ pc' \in [Jobs -> {"idle", "created", "uncreated", "apply", "finish"}]
      /\ pc'[j] = "idle" /\ \A k \in Jobs \ {j} : pc'[k] = pc[k]
    BY <1>0, <1>1 DEF TypeOK
<1>4. TypeOK'
    BY <1>0, <1>1, <1>2, <1>3 DEF TypeOK
<1>5. OfJob(j)'
  <2>1. \A p \in Parties :
            <<p, j>> \in held => <<p, j>> \in held' \/ (Begun(<<p, j>>) => Ended(<<p, j>>)')
      BY <1>2 DEF Ending
  <2> QED
      BY <1>0, <1>1, <1>2, <1>3, <2>1, StatusKinds DEF OfJob, Ending
<1> QED
    BY <1>1, <1>2, <1>3, <1>4, <1>5, StepOf

LEMMA CrashKeeps == ASSUME AdmissionIInv, NEW j \in Jobs, Crash(j) PROVE AdmissionIInv'
<1>0. TypeOK /\ OfJob(j)
    BY DEF AdmissionIInv
<1>1. /\ UNCHANGED <<home, room, sjob, cancel, pjob, started, held, asked, canceler>>
      /\ pc' = [pc EXCEPT ![j] = "idle"] /\ answers' = [answers EXCEPT ![j] = Unanswered]
    BY DEF Crash, Goto, config, rows, requests
<1>2. faults' \in 0..MaxFaults /\ faults' # 0
    BY <1>0, FaultFacts DEF Crash
<1>3. /\ pc' \in [Jobs -> {"idle", "created", "uncreated", "apply", "finish"}]
      /\ pc'[j] = "idle" /\ \A k \in Jobs \ {j} : pc'[k] = pc[k]
    BY <1>0, <1>1 DEF TypeOK
<1>4. /\ answers' \in [Jobs -> [Parties -> {"none", "ok", "no", "limit"}]]
      /\ \A k \in Jobs \ {j} : answers'[k] = answers[k]
    BY <1>0, <1>1, UnansweredType DEF TypeOK
<1>5. TypeOK'
    BY <1>0, <1>1, <1>2, <1>3, <1>4 DEF TypeOK
<1>6. OfJob(j)'
    BY <1>0, <1>1, <1>2, <1>3 DEF OfJob, Begun, Ended
<1> QED
    BY <1>1, <1>2, <1>3, <1>4, <1>5, <1>6, StaysAsItIs, StepOf
-----------------------------------------------------------------------------
(* The theorems *)

LEMMA InitHolds == Init => AdmissionIInv
<1> SUFFICES ASSUME Init PROVE AdmissionIInv
    OBVIOUS
<1>1. 0 \in 0..MaxFaults
    BY AdmissionAssumption
<1>2. TypeOK
    BY <1>1, UnansweredType DEF Init, TypeOK
<1>3. \A j \in Jobs : OfJob(j)
    BY StatusKinds DEF Init, OfJob
<1> QED
    BY <1>2, <1>3 DEF AdmissionIInv

LEMMA StutterKeeps == ASSUME AdmissionIInv, UNCHANGED vars PROVE AdmissionIInv'
<1>1. UNCHANGED <<home, room, sjob, cancel, pjob, started, held, pc, answers, asked, canceler, faults>>
    BY DEF vars, config, rows, requests
<1>2. TypeOK'
    BY <1>1 DEF AdmissionIInv, TypeOK
<1>3. \A j \in Jobs : Same(j)
    BY <1>1 DEF Same, SameRows
<1> QED
    BY <1>1, <1>2, <1>3, SameKeeps DEF AdmissionIInv

LEMMA NextHolds == ASSUME AdmissionIInv, [Next]_vars PROVE AdmissionIInv'
<1>1. ASSUME NEW j \in Jobs, Create(j) PROVE AdmissionIInv'
    BY <1>1, SubmitKeeps, GiveUpKeeps, QueueKeeps DEF Create
<1>2. ASSUME NEW j \in Jobs, Applying(j) PROVE AdmissionIInv'
    BY <1>2, GrantedKeeps, RefusedKeeps, RollBackKeeps, StartKeeps, NextTimeKeeps,
       LimitExceededKeeps DEF Applying
<1>3. ASSUME NEW j \in Jobs, Round(j) PROVE AdmissionIInv'
    BY <1>2, <1>3, PickCanceledKeeps, PickKeeps, ConcludeKeeps, FinishKeeps DEF Round
<1>4. ASSUME NEW j \in Cancelers, CancelEverywhere(j) \/ \E p \in Parties : CancelAtHome(p, j)
      PROVE  AdmissionIInv'
    BY <1>4, CancelEverywhereKeeps, CancelAtHomeKeeps
<1>5. CASE UNCHANGED vars
    BY <1>5, StutterKeeps
<1> QED
    BY <1>1, <1>3, <1>4, <1>5, StopAskedKeeps, CrashKeeps, DetectKeeps DEF Next

\* The cores of a job and its status belong together (apply_job_resource and
\* rollback_job_resource in scheduler/scheduler.py, update_job_status in
\* controller/job.py), for any number of jobs, parties, schedulers and faults.
THEOREM CoresMatchStatus == Spec => []AdmissionInv
<1>1. AdmissionIInv => AdmissionInv
  <2> SUFFICES ASSUME AdmissionIInv PROVE AdmissionInv
      OBVIOUS
  <2>1. TypeOK
      BY DEF AdmissionIInv
  <2>2. \A x \in Copies : \E p \in Parties, j \in Jobs : x = <<p, j>> /\ x[1] = p /\ x[2] = j
      BY DEF Copies
  <2>3. AllOrNothing
    <3> SUFFICES ASSUME faults = 0, NEW x \in held PROVE sjob[x[2]] = RUNNING \/ pc[x[2]] # "idle"
        BY DEF AllOrNothing
    <3>1. PICK p \in Parties, j \in Jobs : x = <<p, j>> /\ x[2] = j
        BY <2>1, <2>2 DEF TypeOK
    <3>2. OfJob(j)
        BY DEF AdmissionIInv
    <3> QED
        BY <3>1, <3>2 DEF OfJob
  <2>4. RunningHoldsCores
    <3> SUFFICES ASSUME NEW x \in Copies, sjob[x[2]] = RUNNING PROVE x \in held \/ pjob[x] \in EndStatus
        BY DEF RunningHoldsCores
    <3>1. PICK p \in Parties, j \in Jobs : x = <<p, j>> /\ x[2] = j
        BY <2>2
    <3>2. OfJob(j)
        BY DEF AdmissionIInv
    <3> QED
        BY <3>1, <3>2 DEF OfJob, Ended
  <2> QED
      BY <2>1, <2>3, <2>4 DEF AdmissionInv
<1>2. Spec => []AdmissionIInv
    BY InitHolds, NextHolds, PTL DEF Spec
<1> QED
    BY <1>1, <1>2, PTL
=============================================================================
