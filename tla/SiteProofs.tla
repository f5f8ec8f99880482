------------------------------ MODULE SiteProofs ------------------------------
(***************************************************************************)
(* What the servers of a party share (Cluster) and what the party keeps    *)
(* for itself (Site), for any number of servers.  They take turns at a job *)
(* as the lock alone says, one has one node in the registry, and none is   *)
(* taken for dead by the looks of the others while it lives and ZooKeeper  *)
(* answers.  Apps keep their roles though every server has a copy of them, *)
(* providers are whole or gone, no other party's job is let in without     *)
(* permission, and what a job inherits it inherits whole.                  *)
(***************************************************************************)
EXTENDS Cluster, Site, TLAPS

(* The lock: it excludes for any number of schedulers, crashes and any time to *)
(* live, as long as none has been timed out.                                   *)

\* MutualExclusion is not inductive: a release by one of two workers would be the
\* next step to break it.  What is kept is both facts together.
LockInv == TypeOK /\ MutualExclusion /\ WorkerHoldsLock

\* The lock is free, its age is 0 and nobody works when the database is created.
LEMMA LockInit == Init => LockInv
<1> SUFFICES ASSUME Init PROVE LockInv
    OBVIOUS
<1>1. age \in 0..TTL + 1 /\ crashes \in 0..MaxCrashes
    BY LockAssumption DEF Init
<1>2. signal \in BOOLEAN /\ expired \in BOOLEAN
    BY ZenonT(20) DEF Init
<1>3. pc \in [Schedulers -> Places] /\ \A s \in Schedulers : ~Busy(s)
    BY DEF Init, Places, Busy
<1> QED
    BY <1>1, <1>2, <1>3 DEF LockInv, TypeOK, MutualExclusion, WorkerHoldsLock

\* Every step of a scheduler, of the clock and every crash keeps the invariant.
LEMMA LockStep == LockInv /\ [Next]_vars => LockInv'
<1> SUFFICES ASSUME LockInv, [Next]_vars PROVE LockInv'
    OBVIOUS
<1> USE LockAssumption DEF LockInv, TypeOK, Places, MutualExclusion, WorkerHoldsLock, Busy
<1>1. CASE Tick
    BY <1>1 DEF Tick
<1>2. ASSUME NEW s \in Schedulers, TryLock(s) PROVE LockInv'
  \* A flag that is free says that nobody works.
  <2>1. CASE ~signal /\ signal' = TRUE /\ age' = 0 /\ Goto(s, "work")
    <3>1. pc' \in [Schedulers -> Places] /\ \A r \in Schedulers : Busy(r)' => Busy(r) \/ r = s
      BY <1>2, <2>1 DEF TryLock, Goto
    <3>2. signal' /\ signal' \in BOOLEAN /\ expired' \in BOOLEAN /\ expired' = expired
      BY <1>2, <2>1, ZenonT(20) DEF TryLock
    <3>3. age' \in 0..TTL + 1 /\ crashes' \in 0..MaxCrashes
      BY <1>2, <2>1 DEF TryLock
    <3>4. ~expired => \A r \in Schedulers : ~Busy(r)
      BY <2>1
    <3> QED
      BY <3>1, <3>2, <3>3, <3>4
  <2>2. CASE signal /\ Goto(s, "probe") /\ UNCHANGED <<signal, age>>
    BY <1>2, <2>2 DEF TryLock, Goto
  <2> QED
    BY <1>2, <2>1, <2>2 DEF TryLock
<1>3. ASSUME NEW s \in Schedulers, Probe(s) PROVE LockInv'
    BY <1>3 DEF Probe, Goto
<1>4. ASSUME NEW s \in Schedulers, Expire(s) PROVE LockInv'
  <2>1. pc' \in [Schedulers -> Places] /\ \A r \in Schedulers : Busy(r)' => Busy(r)
    BY <1>4 DEF Expire, Goto
  <2>2. signal' \in BOOLEAN /\ expired' \in BOOLEAN
    BY <1>4, ZenonT(20) DEF Expire
  <2>3. age' \in 0..TTL + 1 /\ crashes' \in 0..MaxCrashes
    BY <1>4 DEF Expire
  \* If the lock was not set nobody works; if it was, it counts as timed out.
  <2>4. ~expired' => \A r \in Schedulers : ~Busy(r)
    BY <1>4, ZenonT(20) DEF Expire
  <2> QED
    BY <2>1, <2>2, <2>3, <2>4
<1>5. ASSUME NEW s \in Schedulers, Finish(s) PROVE LockInv'
    BY <1>5 DEF Finish, Goto
<1>6. ASSUME NEW s \in Schedulers, Release(s) PROVE LockInv'
  <2>1. pc' \in [Schedulers -> Places]
    BY <1>6 DEF Release, Goto
  <2>2. \A r \in Schedulers : Busy(r)' => Busy(r) /\ r # s
    BY <1>6 DEF Release, Goto
  <2>3. Busy(s)
    BY <1>6 DEF Release
  <2>4. signal' \in BOOLEAN /\ expired' \in BOOLEAN /\ expired' = expired
    BY <1>6, ZenonT(20) DEF Release
  <2>5. age' \in 0..TTL + 1 /\ crashes' \in 0..MaxCrashes
    BY <1>6 DEF Release
  <2>6. ~expired' => \A r \in Schedulers : ~Busy(r)'
    BY <2>2, <2>3, <2>4 DEF MutualExclusion
  <2> QED
    BY <2>1, <2>4, <2>5, <2>6
<1>7. ASSUME NEW s \in Schedulers, Crash(s) PROVE LockInv'
    BY <1>7 DEF Crash, Goto
<1>8. ASSUME NEW s \in Schedulers, Restart(s) PROVE LockInv'
    BY <1>8 DEF Restart, Goto
<1>9. CASE UNCHANGED vars
    BY <1>9 DEF vars
<1> QED
    BY <1>1, <1>2, <1>3, <1>4, <1>5, <1>6, <1>7, <1>8, <1>9 DEF Next, Step

LEMMA LockAlways == Spec => []LockInv
<1>1. Init => LockInv
    BY LockInit
<1>2. LockInv /\ [Next]_vars => LockInv'
    BY LockStep
<1> QED
    BY <1>1, <1>2, PTL DEF Spec

\* The row of the lock and the places of the schedulers stay well formed
\* (schedule_utils.py:40-62).
THEOREM LockTypeCorrect == Spec => []TypeOK
<1>1. LockInv => TypeOK
    BY DEF LockInv
<1> QED
    BY <1>1, LockAlways, PTL

\* schedule_lock runs the scheduling function of a job in one scheduler at a time,
\* and the flag is set while it runs, unless a lock has been timed out.
THEOREM LockExcludes == Spec => [](MutualExclusion /\ WorkerHoldsLock)
<1>1. LockInv => MutualExclusion /\ WorkerHoldsLock
    BY DEF LockInv
<1> QED
    BY <1>1, LockAlways, PTL
-----------------------------------------------------------------------------
(* The servers *)

\* Before a process is up it has no node of its own and nothing in its watch list.
NotUpYet ==
    \A s \in Schedulers : phase[s] # "up" => watch[s] = "none" /\ node[s] # "own"

\* A server that has never been down has its node from when it is up, and runs its
\* tasks then.
NeverDown(s) ==
    /\ phase[s] # "down"
    /\ phase[s] = "booting" => node[s] = "none" /\ task[s] = "none"
    /\ phase[s] = "up" => node[s] = "own"

\* And whoever has looked at its tasks has it in the list, or will have.
Listed(r, s) ==
    /\ look[r].at # "off" /\ s \in look[r].about => phase[s] = "up"
    /\ look[r].at = "read" /\ s \in look[r].about => s \in look[r].todo \cup look[r].got

SeenAlive ==
    trouble = 0 => \A s \in Schedulers :
        ~reborn[s] => NeverDown(s) /\ \A r \in Schedulers : Listed(r, s)

RegistryInv == OneNode /\ NotUpYet /\ SeenAlive

LEMMA RegistryStarts == Registry!RegistryInit => RegistryInv
<1> SUFFICES ASSUME Registry!RegistryInit PROVE RegistryInv
    OBVIOUS
<1>1. OneNode
    BY ClusterAssumption
       DEF Registry!RegistryInit, OneNode, Registry!OneNode, Registry!RegistryTypeOK, Registry!Looks,
           Registry!Idle
<1>2. NotUpYet /\ SeenAlive
    BY DEF Registry!RegistryInit, NotUpYet, SeenAlive, NeverDown, Listed, Registry!Idle
<1> QED
    BY <1>1, <1>2 DEF RegistryInv

LEMMA RegistryTypes ==
    ASSUME RegistryInv
    PROVE  /\ Registry!RegistryTypeOK
           /\ phase \in [Schedulers -> {"down", "booting", "up"}]
           /\ node \in [Schedulers -> {"none", "own", "old"}]
           /\ watch \in [Schedulers -> {"none", "queued", "exists"}]
           /\ task \in [Schedulers -> {"none", "running", "stopped"}]
           /\ cut \in [Schedulers -> BOOLEAN] /\ reborn \in [Schedulers -> BOOLEAN]
           /\ trouble \in 0..MaxTrouble
  BY DEF RegistryInv, OneNode, Registry!OneNode, Registry!RegistryTypeOK

LEMMA TroubleFacts ==
    ASSUME RegistryInv, NEW s \in Schedulers, Registry!Trouble(s)
    PROVE  trouble' \in 0..MaxTrouble /\ trouble' # 0 /\ cut' \in [Schedulers -> BOOLEAN]
  BY RegistryTypes, ClusterAssumption DEF Registry!Trouble, Registry!Set

\* Steps that neither look nor give a look something to find out.
LEMMA RegisterKeeps ==
    ASSUME RegistryInv, NEW s \in Schedulers, Registry!Register(s)
    PROVE  RegistryInv'
<1>0. /\ phase[s] = "booting" /\ phase' = [phase EXCEPT ![s] = "up"]
      /\ UNCHANGED <<task, look, reborn>>
    BY DEF Registry!Register, Registry!Set
<1>1. \/ node[s] = "none" /\ node' = [node EXCEPT ![s] = "own"] /\ UNCHANGED <<watch, cut, trouble>>
      \/ node[s] # "none" /\ watch' = [watch EXCEPT ![s] = "queued"] /\ UNCHANGED <<node, cut, trouble>>
      \/ Registry!Trouble(s) /\ UNCHANGED <<node, watch>>
    BY DEF Registry!Register, Registry!Set, Registry!troubleVars
<1>2. trouble' \in 0..MaxTrouble /\ cut' \in [Schedulers -> BOOLEAN] /\ (trouble' = 0 => trouble = 0)
    BY <1>1, RegistryTypes, TroubleFacts
<1>3. OneNode'
    BY <1>0, <1>1, <1>2, RegistryTypes
       DEF RegistryInv, OneNode, Registry!OneNode, Registry!RegistryTypeOK, NotUpYet
<1>4. NotUpYet'
    BY <1>0, <1>1, RegistryTypes DEF RegistryInv, NotUpYet
<1>5. SeenAlive'
    BY <1>0, <1>1, <1>2, RegistryTypes, TroubleFacts DEF RegistryInv, SeenAlive, NeverDown, Listed
<1> QED
    BY <1>3, <1>4, <1>5 DEF RegistryInv

LEMMA WatchCreateKeeps ==
    ASSUME RegistryInv, NEW s \in Schedulers, Registry!WatchCreate(s)
    PROVE  RegistryInv'
<1>0. phase[s] # "down" /\ watch[s] = "queued" /\ UNCHANGED <<phase, task, look, reborn>>
    BY DEF Registry!WatchCreate
<1>1. \/ /\ node[s] = "none" /\ node' = [node EXCEPT ![s] = "own"]
         /\ watch' = [watch EXCEPT ![s] = "none"] /\ UNCHANGED <<cut, trouble>>
      \/ node[s] # "none" /\ watch' = [watch EXCEPT ![s] = "exists"] /\ UNCHANGED <<node, cut, trouble>>
      \/ Registry!Trouble(s) /\ watch' = [watch EXCEPT ![s] = "none"] /\ UNCHANGED node
    BY DEF Registry!WatchCreate, Registry!Set, Registry!troubleVars
<1>2. trouble' \in 0..MaxTrouble /\ cut' \in [Schedulers -> BOOLEAN] /\ (trouble' = 0 => trouble = 0)
    BY <1>1, RegistryTypes, TroubleFacts
<1>3. OneNode'
    BY <1>0, <1>1, <1>2, RegistryTypes
       DEF RegistryInv, OneNode, Registry!OneNode, Registry!RegistryTypeOK, NotUpYet
<1>4. NotUpYet'
    BY <1>0, <1>1, RegistryTypes DEF RegistryInv, NotUpYet
<1>5. SeenAlive'
    BY <1>0, <1>1, <1>2, RegistryTypes, TroubleFacts DEF RegistryInv, NotUpYet, SeenAlive, NeverDown, Listed
<1> QED
    BY <1>3, <1>4, <1>5 DEF RegistryInv

LEMMA WatchLookKeeps ==
    ASSUME RegistryInv, NEW s \in Schedulers, Registry!WatchLook(s)
    PROVE  RegistryInv'
<1>0. /\ phase[s] # "down" /\ watch[s] = "exists"
      /\ UNCHANGED <<phase, node, task, look, cut, trouble, reborn>>
      /\ watch' = [watch EXCEPT ![s] = IF node[s] = "own" THEN "none" ELSE "queued"]
    BY DEF Registry!WatchLook, Registry!Set, Registry!troubleVars
<1>1. OneNode'
    BY <1>0, RegistryTypes
       DEF RegistryInv, OneNode, Registry!OneNode, Registry!RegistryTypeOK
<1>2. NotUpYet'
    BY <1>0, RegistryTypes DEF RegistryInv, NotUpYet
<1>3. SeenAlive'
    BY <1>0, RegistryTypes DEF RegistryInv, SeenAlive, NeverDown, Listed
<1> QED
    BY <1>1, <1>2, <1>3 DEF RegistryInv

\* The session of a process, that of a dead one or that of a live one.
LEMMA SessionKeeps ==
    ASSUME RegistryInv, NEW s \in Schedulers, Registry!SessionEnds(s) \/ Registry!SessionLost(s)
    PROVE  RegistryInv'
<1>0. /\ UNCHANGED <<phase, watch, task, look, reborn>> /\ node' = [node EXCEPT ![s] = "none"]
      /\ (node[s] = "old" /\ UNCHANGED <<cut, trouble>>) \/ Registry!Trouble(s)
    BY DEF Registry!SessionEnds, Registry!SessionLost, Registry!Set, Registry!troubleVars
<1>1. trouble' \in 0..MaxTrouble /\ cut' \in [Schedulers -> BOOLEAN] /\ (trouble' = 0 => trouble = 0)
    BY <1>0, RegistryTypes, TroubleFacts
<1>2. OneNode'
    BY <1>0, <1>1, RegistryTypes
       DEF RegistryInv, OneNode, Registry!OneNode, Registry!RegistryTypeOK
<1>3. NotUpYet'
    BY <1>0, RegistryTypes DEF RegistryInv, NotUpYet
<1>4. SeenAlive'
    BY <1>0, <1>1, RegistryTypes, TroubleFacts DEF RegistryInv, SeenAlive, NeverDown, Listed
<1> QED
    BY <1>2, <1>3, <1>4 DEF RegistryInv

\* What a scheduler has read while it looks.
LEMMA LookTypes ==
    ASSUME RegistryInv
    PROVE  /\ look \in [Schedulers -> Registry!Looks]
           /\ \A r \in Schedulers : /\ look[r].at \in {"off", "doubt", "read"}
                                    /\ look[r].about \subseteq Schedulers
                                    /\ look[r].todo \subseteq Schedulers
                                    /\ look[r].got \subseteq Schedulers
           /\ Registry!Idle \in Registry!Looks
           /\ Registry!Idle.at = "off" /\ Registry!Idle.about = {}
<1>1. look \in [Schedulers -> Registry!Looks]
    BY RegistryTypes DEF Registry!RegistryTypeOK
<1> QED
    BY <1>1 DEF Registry!Looks, Registry!Idle

LEMMA DieKeeps ==
    ASSUME RegistryInv, NEW s \in Schedulers, Registry!Die(s)
    PROVE  RegistryInv'
<1>0. /\ UNCHANGED <<task, trouble>> /\ phase' = [phase EXCEPT ![s] = "down"]
      /\ node' = [node EXCEPT ![s] = IF node[s] = "own" THEN "old" ELSE node[s]]
      /\ watch' = [watch EXCEPT ![s] = "none"] /\ look' = [look EXCEPT ![s] = Registry!Idle]
      /\ cut' = [cut EXCEPT ![s] = FALSE] /\ reborn' = [reborn EXCEPT ![s] = TRUE]
    BY DEF Registry!Die, Registry!Set
<1>1. look' \in [Schedulers -> Registry!Looks]
    BY <1>0, LookTypes
<1>2. OneNode'
    BY <1>0, <1>1, RegistryTypes
       DEF RegistryInv, OneNode, Registry!OneNode, Registry!RegistryTypeOK
<1>3. NotUpYet'
    BY <1>0, RegistryTypes DEF RegistryInv, NotUpYet
<1>4. SeenAlive'
    BY <1>0, RegistryTypes, LookTypes DEF RegistryInv, SeenAlive, NeverDown, Listed
<1> QED
    BY <1>2, <1>3, <1>4 DEF RegistryInv

LEMMA BootKeeps ==
    ASSUME RegistryInv, NEW s \in Schedulers, Registry!Boot(s)
    PROVE  RegistryInv'
<1>0. /\ UNCHANGED <<node, watch, task, look, cut, trouble, reborn>>
      /\ phase[s] = "down" /\ phase' = [phase EXCEPT ![s] = "booting"]
    BY DEF Registry!Boot, Registry!Set, Registry!troubleVars
<1>1. OneNode'
    BY <1>0, RegistryTypes DEF RegistryInv, OneNode, Registry!OneNode, Registry!RegistryTypeOK
<1>2. NotUpYet'
    BY <1>0, RegistryTypes DEF RegistryInv, NotUpYet
<1>3. SeenAlive'
    BY <1>0, RegistryTypes DEF RegistryInv, SeenAlive, NeverDown, Listed
<1> QED
    BY <1>1, <1>2, <1>3 DEF RegistryInv

LEMMA TaskKeeps ==
    ASSUME RegistryInv, NEW s \in Schedulers, Registry!StartTask(s) \/ Registry!EndTask(s)
    PROVE  RegistryInv'
<1>0. /\ UNCHANGED <<phase, node, watch, look, cut, trouble, reborn>>
      /\ task' \in {[task EXCEPT ![s] = "none"], [task EXCEPT ![s] = "running"]}
      /\ phase[s] = "up" \/ task[s] = "running"
    BY DEF Registry!StartTask, Registry!EndTask, Registry!Set, Registry!troubleVars
<1>1. OneNode'
    BY <1>0, RegistryTypes DEF RegistryInv, OneNode, Registry!OneNode, Registry!RegistryTypeOK
<1>2. NotUpYet'
    BY <1>0 DEF RegistryInv, NotUpYet
<1>3. SeenAlive'
    BY <1>0, RegistryTypes DEF RegistryInv, SeenAlive, NeverDown, Listed
<1> QED
    BY <1>1, <1>2, <1>3 DEF RegistryInv
-----------------------------------------------------------------------------
(* The looks *)

\* A look goes on: whoever it is about, and lives, is in its lists.
LEMMA LookKeeps ==
    ASSUME RegistryInv, NEW r \in Schedulers, NEW l \in Registry!Looks,
           look' = [look EXCEPT ![r] = l], UNCHANGED <<phase, node, watch, cut, reborn>>,
           \A s \in Schedulers : task'[s] = task[s] \/ task[s] = "running",
           task' \in [Schedulers -> {"none", "running", "stopped"}],
           trouble' \in 0..MaxTrouble, trouble' = 0 => trouble = 0,
           trouble' = 0 => \A s \in Schedulers : ~reborn[s] /\ s \in l.about /\ l.at # "off" =>
               /\ phase[s] = "up"
               /\ l.at = "read" => s \in l.todo \cup l.got
    PROVE  RegistryInv'
<1>1. look' \in [Schedulers -> Registry!Looks] /\ look'[r] = l
      /\ \A q \in Schedulers \ {r} : look'[q] = look[q]
    BY LookTypes
<1>2. OneNode'
    BY <1>1, RegistryTypes DEF RegistryInv, OneNode, Registry!OneNode, Registry!RegistryTypeOK
<1>3. NotUpYet'
    BY DEF RegistryInv, NotUpYet
<1>4. SeenAlive'
  <2> SUFFICES ASSUME trouble' = 0, NEW s \in Schedulers, ~reborn[s]
               PROVE  NeverDown(s)' /\ \A q \in Schedulers : Listed(q, s)'
      BY DEF SeenAlive
  <2>1. NeverDown(s) /\ \A q \in Schedulers : Listed(q, s)
      BY DEF RegistryInv, SeenAlive
  <2>2. NeverDown(s)'
      BY <2>1, RegistryTypes DEF NeverDown
  <2>3. \A q \in Schedulers : Listed(q, s)'
      BY <1>1, <2>1 DEF Listed
  <2> QED
      BY <2>2, <2>3
<1> QED
    BY <1>2, <1>3, <1>4 DEF RegistryInv

LEMMA DoubtKeeps ==
    ASSUME RegistryInv, NEW r \in Schedulers, NEW s \in Schedulers, Registry!Doubt(r, s)
    PROVE  RegistryInv'
<1> DEFINE l == [Registry!Idle EXCEPT !.at = "doubt", !.about = {s}]
<1>0. /\ UNCHANGED <<phase, node, watch, task, cut, trouble, reborn>>
      /\ task[s] = "running" /\ look' = [look EXCEPT ![r] = l]
    BY DEF Registry!Doubt, Registry!Set, Registry!troubleVars
<1>1. l \in Registry!Looks /\ l.at = "doubt" /\ l.about = {s}
    BY DEF Registry!Looks, Registry!Idle
<1> HIDE DEF l
<1>2. trouble = 0 /\ ~reborn[s] => phase[s] = "up"
    BY <1>0, RegistryTypes DEF RegistryInv, SeenAlive, NeverDown
<1> QED
    BY <1>0, <1>1, <1>2, RegistryTypes, LookKeeps

LEMMA ListKeeps ==
    ASSUME RegistryInv, NEW r \in Schedulers, Registry!List(r)
    PROVE  RegistryInv'
<1> DEFINE nodes == {s \in Schedulers : node[s] # "none"}
           l == [look[r] EXCEPT !.at = "read", !.todo = nodes]
<1>0. /\ UNCHANGED <<phase, node, watch, task, cut, trouble, reborn>>
      /\ look[r].at = "doubt" /\ look' = [look EXCEPT ![r] = l]
    BY DEF Registry!List, Registry!Set, Registry!troubleVars
<1>1. l \in Registry!Looks /\ l.about = look[r].about /\ l.todo = nodes
    BY LookTypes DEF Registry!Looks
<1>2. trouble = 0 => \A s \in Schedulers :
          ~reborn[s] /\ s \in look[r].about => phase[s] = "up" /\ s \in nodes
    BY <1>0 DEF RegistryInv, SeenAlive, NeverDown, Listed
<1> HIDE DEF l, nodes
<1> QED
    BY <1>0, <1>1, <1>2, RegistryTypes, LookKeeps

LEMMA FetchKeeps ==
    ASSUME RegistryInv, NEW r \in Schedulers, NEW s \in Schedulers, Registry!Fetch(r, s)
    PROVE  RegistryInv'
<1>0. /\ UNCHANGED <<phase, node, watch, task, cut, trouble, reborn>>
      /\ look[r].at = "read" /\ s \in look[r].todo
    BY DEF Registry!Fetch, Registry!troubleVars
<1>1. CASE node[s] = "none"
  <2>1. look' = [look EXCEPT ![r] = Registry!Idle]
      BY <1>1 DEF Registry!Fetch, Registry!Set
  <2> QED
      BY <1>0, <2>1, RegistryTypes, LookTypes, LookKeeps
<1>2. CASE node[s] # "none"
  <2> DEFINE l == [look[r] EXCEPT !.todo = @ \ {s}, !.got = @ \cup {s}]
  <2>1. look' = [look EXCEPT ![r] = l]
      BY <1>2 DEF Registry!Fetch, Registry!Set
  <2>2. /\ l \in Registry!Looks /\ l.at = "read" /\ l.about = look[r].about
        /\ l.todo \cup l.got = look[r].todo \cup look[r].got
      BY <1>0, LookTypes DEF Registry!Looks
  <2>3. trouble = 0 => \A t \in Schedulers :
            ~reborn[t] /\ t \in look[r].about =>
                phase[t] = "up" /\ t \in look[r].todo \cup look[r].got
      BY <1>0 DEF RegistryInv, SeenAlive, Listed
  <2> HIDE DEF l
  <2> QED
      BY <1>0, <2>1, <2>2, <2>3, RegistryTypes, LookKeeps
<1> QED
    BY <1>1, <1>2

LEMMA ListFailsKeeps ==
    ASSUME RegistryInv, NEW r \in Schedulers, Registry!ListFails(r)
    PROVE  RegistryInv'
<1> DEFINE l == [look[r] EXCEPT !.at = "read", !.todo = {}, !.got = {}]
<1>0. /\ UNCHANGED <<phase, node, watch, task, cut, reborn>>
      /\ trouble < MaxTrouble /\ trouble' = trouble + 1 /\ look' = [look EXCEPT ![r] = l]
    BY DEF Registry!ListFails, Registry!Set
<1>1. l \in Registry!Looks
    BY LookTypes DEF Registry!Looks
<1>2. trouble' \in 0..MaxTrouble /\ trouble' # 0
    BY <1>0, RegistryTypes, ClusterAssumption
<1> HIDE DEF l
<1> QED
    BY <1>0, <1>1, <1>2, RegistryTypes, LookKeeps

LEMMA JudgeKeeps ==
    ASSUME RegistryInv, NEW r \in Schedulers, Registry!Judge(r)
    PROVE  RegistryInv'
<1>0. /\ UNCHANGED <<phase, node, watch, cut, trouble, reborn>>
      /\ look' = [look EXCEPT ![r] = Registry!Idle]
      /\ task' = [s \in Schedulers |->
                     IF s \in look[r].about \ look[r].got /\ task[s] = "running"
                     THEN "stopped" ELSE task[s]]
    BY DEF Registry!Judge, Registry!Set, Registry!troubleVars
<1>1. /\ \A s \in Schedulers : task'[s] = task[s] \/ task[s] = "running"
      /\ task' \in [Schedulers -> {"none", "running", "stopped"}]
    BY <1>0, RegistryTypes
<1> QED
    BY <1>0, <1>1, RegistryTypes, LookTypes, LookKeeps
-----------------------------------------------------------------------------
(* The theorems *)

LEMMA RegistrySteps ==
    ASSUME RegistryInv, Registry!RegistryStep
    PROVE  RegistryInv'
<1>1. PICK s \in Schedulers :
         \/ Registry!Registering(s) \/ Registry!SessionEnds(s) \/ Registry!SessionLost(s)
         \/ Registry!StartTask(s) \/ Registry!EndTask(s)
         \/ Registry!Looking(s) \/ Registry!ListFails(s)
         \/ \E r \in Schedulers \ {s} : Registry!Doubt(r, s)
    BY DEF Registry!RegistryStep
<1>2. CASE Registry!Registering(s)
    BY <1>2, RegisterKeeps, WatchCreateKeeps, WatchLookKeeps DEF Registry!Registering
<1>3. CASE Registry!Looking(s)
    BY <1>3, ListKeeps, JudgeKeeps, FetchKeeps DEF Registry!Looking
<1> QED
    BY <1>1, <1>2, <1>3, SessionKeeps, TaskKeeps, ListFailsKeeps, DoubtKeeps

LEMMA RegistryStays == ASSUME RegistryInv, UNCHANGED registryVars PROVE RegistryInv'
<1>1. UNCHANGED <<phase, node, watch, task, look, cut, reborn, trouble>>
    BY DEF registryVars
<1> QED
    BY <1>1 DEF RegistryInv, OneNode, Registry!OneNode, Registry!RegistryTypeOK, NotUpYet,
                SeenAlive, NeverDown, Listed

LEMMA ClusterSteps == ASSUME RegistryInv, [ClusterNext]_clusterVars PROVE RegistryInv'
<1>1. CASE \E s \in Schedulers : ServerDies(s) \/ ServerStarts(s)
    BY <1>1, DieKeeps, BootKeeps DEF ServerDies, ServerStarts
<1>2. CASE Registry!RegistryStep
    BY <1>2, RegistrySteps
<1>3. CASE TimePasses \/ \E s \in Schedulers : Schedule(s) \/ Go(s)
    BY <1>3, RegistryStays DEF TimePasses, Schedule, Go
<1>4. CASE UNCHANGED clusterVars
    BY <1>4, RegistryStays DEF clusterVars
<1> QED
    BY <1>1, <1>2, <1>3, <1>4 DEF ClusterNext

LEMMA RegistryInvariant == ClusterSpec => []RegistryInv
<1>1. ClusterInit => RegistryInv
    BY RegistryStarts DEF ClusterInit
<1> QED
    BY <1>1, ClusterSteps, PTL DEF ClusterSpec

\* However often servers die and are started again while sessions run out, a server has
\* at most one node, and only while it is up (ServiceManager in service_manager.py).
THEOREM OneNodeEach == ClusterSpec => []OneNode
<1>1. RegistryInv => OneNode
    BY DEF RegistryInv
<1> QED
    BY <1>1, RegistryInvariant, PTL

\* No detector stops the task of a server that has been up all the time, while ZooKeeper
\* answers, for any number of detectors that look at the same time (detect_running_task
\* in scheduler/detector.py).
THEOREM NoneTakenForDead == ClusterSpec => NoFalseAlarm
<1>1. ASSUME RegistryInv, [ClusterNext]_clusterVars
      PROVE  [\A s \in Schedulers :
                 task[s] = "running" /\ task'[s] = "stopped" => reborn[s] \/ trouble > 0]_registryVars
  <2> SUFFICES ASSUME NEW s \in Schedulers, task[s] = "running", task'[s] = "stopped", ~reborn[s]
               PROVE  trouble > 0
      OBVIOUS
  <2>0. trouble \in 0..MaxTrouble
      BY <1>1, RegistryTypes
  <2>1. CASE \E r \in Schedulers : Registry!Judge(r)
    <3>1. PICK r \in Schedulers : Registry!Judge(r)
        BY <2>1
    <3>2. /\ look[r].at = "read" /\ look[r].todo = {}
          /\ task' = [t \in Schedulers |->
                         IF t \in look[r].about \ look[r].got /\ task[t] = "running"
                         THEN "stopped" ELSE task[t]]
        BY <3>1 DEF Registry!Judge
    <3>3. s \in look[r].about \ look[r].got
        BY <3>2
    <3>4. trouble # 0
        BY <1>1, <3>2, <3>3 DEF RegistryInv, SeenAlive, Listed
    <3> QED
        BY <2>0, <3>4, ClusterAssumption
  <2>2. CASE Registry!RegistryStep /\ ~ \E r \in Schedulers : Registry!Judge(r)
      BY <1>1, <2>2, RegistryTypes
         DEF Registry!RegistryStep, Registry!Registering, Registry!Register, Registry!WatchCreate,
             Registry!WatchLook, Registry!SessionEnds, Registry!SessionLost, Registry!StartTask,
             Registry!EndTask, Registry!Looking, Registry!ListFails, Registry!Doubt, Registry!List,
             Registry!Fetch, Registry!Set
  <2>3. CASE ~Registry!RegistryStep
      BY <1>1, <2>3
         DEF ClusterNext, TimePasses, Schedule, Go, ServerDies, ServerStarts, Registry!Die,
             Registry!Boot, registryVars, clusterVars
  <2> QED
      BY <2>1, <2>2, <2>3
<1> QED
    BY <1>1, RegistryInvariant, PTL
       DEF ClusterSpec, NoFalseAlarm, Registry!NoFalseAlarm, Registry!registryVars, registryVars

\* What the schedulers of the cluster do to the lock are steps of the lock.
THEOREM ClusterLocks == ClusterSpec => Spec
<1>1. ClusterInit => Init
    BY DEF ClusterInit
<1>2. ASSUME [ClusterNext]_clusterVars PROVE [Next]_vars
  <2>1. ASSUME NEW s \in Schedulers, Schedule(s) \/ Go(s) \/ ServerDies(s) \/ ServerStarts(s)
        PROVE  Next
      BY <2>1 DEF Schedule, Go, ServerDies, ServerStarts, Next, Step
  <2>2. TimePasses => Next
      BY DEF TimePasses, Next
  <2> QED
      BY <1>2, <2>1, <2>2 DEF ClusterNext, clusterVars
<1> QED
    BY <1>1, <1>2, PTL DEF ClusterSpec, Spec

\* The servers of a party work on a job one at a time, whoever of them dies and is
\* started again, unless a lock has been timed out (schedule_lock in utils/wraps_utils.py).
THEOREM ServersTakeTurns == ClusterSpec => []MutualExclusion
  BY ClusterLocks, LockExcludes, PTL
-----------------------------------------------------------------------------
(* The roles of apps (Permissions): who grades an app anew leaves it with a    *)
(* role, however many requests at however many servers do so at once.          *)

\* The places of a request that grades an app, and what a request can be.
Asked == {"roles", "check", "delete", "allow", "add"}
Elsewhere == {"off", "drop", "look", "give", "take", "takeAll", "done"}
Values == UNION {Catalog!Offers(p) : p \in Names}
Requests == [at : Asked \cup Elsewhere, server : Servers \cup {"none"}, by : {"admin", Boss, "none"},
             app : Apps \cup {"none"}, role : Rights!Grades \cup {"none"},
             todo : SUBSET (Rights!Grades \cup Values)]
Rules == ({Boss} \cup Apps) \X Rights!Grades
LoadsOf(rules) == [at : {"idle", "selected", "filling"}, copy : SUBSET rules]

\* Who is not admin makes nobody a super_client, and no app is a site.
MayGrade(r) == Rights!TypeFits(r.role) /\ (r.by # "admin" => r.role # "super_client")

\* The app and the role of a request are what its place needs.
RequestFits(r) ==
    /\ r.at \in Elsewhere => r.role = "none"
    /\ r.at \in Asked \cup {"drop"} => r.app \in Apps
    /\ r.at \notin {"off", "done"} => r.server \in Servers
    /\ r.at \in {"roles", "allow", "add"} => r.role \in Rights!Grades
    /\ r.at \in {"check", "delete"} => r.todo \subseteq Rights!Grades
    /\ r.at \in {"give", "take"} => r.todo \subseteq Values
    /\ r.at = "delete" => MayGrade(r)

CallsFit ==
    /\ call \in [Callers -> Requests]
    /\ \A c \in Callers :
          /\ RequestFits(call[c])
          /\ call[c].at \in {"check", "delete"} /\ call[c].role = "none" => call[c].app \in excused

\* Only a request that checks loads the rules, and the super_client has its role.
LoadsFit ==
    /\ roleLoad \in [Rights!Threads -> LoadsOf(Rules)]
    /\ \A c \in Callers :
          call[c].at \notin {"roles", "check", "allow", "drop", "look"} => roleLoad[c].at = "idle"
    /\ grantLoad \in [Rights!Threads -> LoadsOf(Values)]
    /\ Rights!BossRule \in rows

\* What a request that checks will be shown, by the rules that it has yet to load into
\* memory and those in memory: no role of the app, and that of who asks.
Bare(a, by, rules) ==
    Rights!RolesOf(a, rules) = {} /\ (by # "admin" => Rights!BossRule \in rules)

\* Who will give the app a role for sure: the check of its request is passed or will be,
\* and no copy in the memory of its server tells it that there is nothing to write.
WillGrade(c, a) ==
    /\ call[c].app = a /\ call[c].role # "none"
    /\ MayGrade(call[c])
    /\ \/ call[c].at = "delete"
       \/ /\ call[c].at \in {"check", "allow"}
          /\ \/ roleLoad[c].at = "idle"
             \/ roleLoad[c].at = "selected" /\ Bare(a, call[c].by, roleLoad[c].copy)
             \/ /\ roleLoad[c].at = "filling"
                /\ Bare(a, call[c].by, known[call[c].server] \cup roleLoad[c].copy)
       \/ call[c].at = "add" /\ call[c].role \notin Rights!RolesOf(a, known[call[c].server])

\* What KeepsARole rests on.  It does not say who is to write, and a request that is at
\* it may yet be refused, or find its role in memory and write nothing.
RoleOrWriter ==
    \A a \in apps \ excused : Rights!RolesOf(a, rows) # {} \/ \E c \in Callers : WillGrade(c, a)

RightsInv == Rights!PermissionTypeOK /\ CallsFit /\ LoadsFit /\ RoleOrWriter

\* Each app has one role at the start, and every server knows it.
LEMMA RightsInit == Rights!PermissionInit => RightsInv
<1> SUFFICES ASSUME Rights!PermissionInit PROVE RightsInv
  OBVIOUS
<1>0. PICK f \in [Apps -> {"client", "super_client"}] : rows = {Rights!BossRule} \cup {<<a, f[a]>> : a \in Apps}
  BY DEF Rights!PermissionInit
<1>1. rows \subseteq Rules /\ Rights!BossRule \in rows
  BY <1>0 DEF Rules, Rights!BossRule, Rights!Grades
<1>2. Rights!PermissionTypeOK
  BY <1>1 DEF Rights!PermissionTypeOK, Rights!PermissionInit, Rules
<1>3. CallsFit
  BY DEF CallsFit, Rights!PermissionInit, Rights!Off, Requests, RequestFits, Asked, Elsewhere
<1>4. LoadsFit
  BY <1>1 DEF LoadsFit, LoadsOf, Rights!PermissionInit, Rights!RoleRules!Idle, Rights!GrantRules!Idle,
         Rights!Off, Rights!Threads
<1>5. \A a \in Apps : Rights!RolesOf(a, rows) # {}
  <2> SUFFICES ASSUME NEW a \in Apps PROVE f[a] \in Rights!RolesOf(a, rows)
    OBVIOUS
  <2> QED
    BY <1>0 DEF Rights!RolesOf, Rights!Grades
<1>6. RoleOrWriter
  BY <1>5 DEF RoleOrWriter, Rights!PermissionInit
<1> QED
  BY <1>2, <1>3, <1>4, <1>6 DEF RightsInv

\* One request goes on.
LEMMA RequestGoes ==
    ASSUME CallsFit, NEW c \in Callers, NEW r \in Requests, RequestFits(r), call' = [call EXCEPT ![c] = r],
           r.at \in {"check", "delete"} /\ r.role = "none" => r.app \in excused',
           excused \subseteq excused'
    PROVE  CallsFit' /\ call'[c] = r /\ \A d \in Callers \ {c} : call'[d] = call[d]
<1>1. \A d \in Callers : call'[d] = IF d = c THEN r ELSE call[d]
  BY DEF CallsFit
<1>2. \A d \in Callers : RequestFits(call'[d])
  BY <1>1 DEF CallsFit
<1>3. call' \in [Callers -> Requests]
  BY DEF CallsFit
<1>4. \A d \in Callers : call'[d].at \in {"check", "delete"} /\ call'[d].role = "none" => call'[d].app \in excused'
  BY <1>1 DEF CallsFit
<1> HIDE DEF RequestFits
<1> QED
  BY <1>1, <1>2, <1>3, <1>4 DEF CallsFit

\* A role that is gone will be followed by one.
LEMMA WriterStays ==
    ASSUME RoleOrWriter, NEW c \in Callers, apps' \subseteq apps, excused \subseteq excused',
           \A a \in apps' \ excused' : Rights!RolesOf(a, rows') = {} =>
              /\ Rights!RolesOf(a, rows) = {} \/ WillGrade(c, a)'
              /\ \A d \in Callers : WillGrade(d, a) => WillGrade(d, a)'
    PROVE  RoleOrWriter'
<1> SUFFICES ASSUME NEW a \in apps' \ excused', Rights!RolesOf(a, rows') = {}
             PROVE  \E d \in Callers : WillGrade(d, a)'
  BY DEF RoleOrWriter
<1>1. CASE Rights!RolesOf(a, rows) # {}
  BY <1>1
<1>2. CASE Rights!RolesOf(a, rows) = {}
  <2>1. PICK d \in Callers : WillGrade(d, a)
    BY <1>2 DEF RoleOrWriter
  <2> QED
    BY <2>1
<1> QED
  BY <1>1, <1>2

\* Who waits, while the memory of its server shows no other role of the app than before.
LEMMA OtherStays ==
    ASSUME NEW d \in Callers, NEW a, WillGrade(d, a), call'[d] = call[d], roleLoad'[d] = roleLoad[d],
           Rights!RolesOf(a, known'[call[d].server]) \subseteq Rights!RolesOf(a, known[call[d].server]),
           Rights!BossRule \in known[call[d].server] => Rights!BossRule \in known'[call[d].server]
    PROVE  WillGrade(d, a)'
<1>1. Rights!RolesOf(a, known'[call[d].server] \cup roleLoad[d].copy)
         \subseteq Rights!RolesOf(a, known[call[d].server] \cup roleLoad[d].copy)
  BY DEF Rights!RolesOf
<1>2. Bare(a, call[d].by, known[call[d].server] \cup roleLoad[d].copy)
         => Bare(a, call[d].by, known'[call[d].server] \cup roleLoad[d].copy)
  BY <1>1 DEF Bare
<1> QED
  BY <1>2 DEF WillGrade

\* A request that has loaded the rules and will grade: it is shown nothing that stops it.
LEMMA ShownBare ==
    ASSUME NEW c \in Callers, NEW a, WillGrade(c, a), Rights!RoleRules!Loaded(c),
           call[c].at \in {"check", "allow"}, a \in apps
    PROVE  Rights!MayAsk(c) /\ Rights!Shown(c) = {} /\ MayGrade(call[c]) /\ call[c].app = a
<1>1. Bare(a, call[c].by, known[call[c].server]) /\ call[c].app = a /\ MayGrade(call[c])
  BY DEF WillGrade, Rights!RoleRules!Loaded
<1> QED
  BY <1>1 DEF Bare, Rights!MayAsk, Rights!Shown

\* What the invariant says of one request.
LEMMA RequestFacts ==
    ASSUME RightsInv, NEW c \in Callers
    PROVE  /\ call[c] \in Requests /\ RequestFits(call[c]) /\ c \in Rights!Threads
           /\ call[c].at \in {"check", "delete"} /\ call[c].role = "none" => call[c].app \in excused
           /\ roleLoad[c] \in LoadsOf(Rules) /\ grantLoad[c] \in LoadsOf(Values)
           /\ call[c].at \notin {"roles", "check", "allow", "drop", "look"} => roleLoad[c].at = "idle"
           /\ Rights!Over \in Requests /\ RequestFits(Rights!Over)
<1>1. c \in Rights!Threads
  BY DEF Rights!Threads
<1>2. Rights!Over \in Requests /\ RequestFits(Rights!Over)
  BY DEF Rights!Over, Rights!Off, Requests, RequestFits, Asked, Elsewhere
<1> QED
  BY <1>1, <1>2 DEF RightsInv, CallsFit, LoadsFit

\* A request that acts on what it has been shown, or is refused.
LEMMA ReadKeeps ==
    ASSUME RightsInv, NEW c \in Callers, Rights!RoleRules!Read(c), NEW r \in Requests, RequestFits(r),
           call' = [call EXCEPT ![c] = r],
           r.at \in {"check", "delete"} /\ r.role = "none" => r.app \in excused,
           UNCHANGED <<rows, known, granted, held, grantLoad, excused>>, apps' \subseteq apps,
           \A a \in apps' \ excused : WillGrade(c, a) => WillGrade(c, a)'
    PROVE  RightsInv'
<1>1. CallsFit' /\ call'[c] = r /\ \A d \in Callers \ {c} : call'[d] = call[d]
  BY RequestGoes DEF RightsInv
<1>2. Rights!PermissionTypeOK'
  BY DEF RightsInv, Rights!PermissionTypeOK
<1>3. /\ roleLoad' \in [Rights!Threads -> LoadsOf(Rules)] /\ roleLoad'[c].at = "idle"
      /\ \A d \in Callers \ {c} : roleLoad'[d] = roleLoad[d]
  BY RequestFacts DEF RightsInv, LoadsFit, LoadsOf, Rights!RoleRules!Read, Rights!RoleRules!Idle, Rights!Threads
<1>4. LoadsFit'
  BY <1>1, <1>3 DEF RightsInv, LoadsFit
<1>5. ASSUME NEW a \in apps' \ excused', NEW d \in Callers, WillGrade(d, a)
      PROVE  WillGrade(d, a)'
  <2>1. CASE d = c
    BY <1>5, <2>1
  <2>2. CASE d # c
    BY <1>1, <1>3, <1>5, <2>2, OtherStays
  <2> QED
    BY <2>1, <2>2
<1>6. RoleOrWriter'
  BY <1>5, WriterStays DEF RightsInv
<1> QED
  BY <1>1, <1>2, <1>4, <1>6 DEF RightsInv

\* A request that does not grade an app, comes or goes on.
LEMMA OthersKeep ==
    ASSUME RightsInv, NEW c \in Callers, NEW r \in Requests, RequestFits(r),
           call' = [call EXCEPT ![c] = r], call[c].at \in {"off", "give", "take", "takeAll"},
           r.at \in {"check", "delete"} /\ r.role = "none" => r.app \in excused',
           UNCHANGED <<rows, known, roleLoad, apps>>, excused \subseteq excused', excused' \subseteq Apps,
           granted' \subseteq Values, held' \in [Servers -> SUBSET Values],
           grantLoad' \in [Rights!Threads -> LoadsOf(Values)]
    PROVE  RightsInv'
<1>1. CallsFit' /\ call'[c] = r /\ \A d \in Callers \ {c} : call'[d] = call[d]
  BY RequestGoes DEF RightsInv
<1>2. Rights!PermissionTypeOK'
  BY DEF RightsInv, Rights!PermissionTypeOK, Values
<1>3. LoadsFit'
  BY <1>1, RequestFacts DEF RightsInv, LoadsFit
<1>4. ASSUME NEW a \in apps' \ excused', NEW d \in Callers, WillGrade(d, a)
      PROVE  WillGrade(d, a)'
  <2>1. d # c
    BY <1>4 DEF WillGrade
  <2> QED
    BY <1>1, <1>4, <2>1, OtherStays
<1>5. RoleOrWriter'
  BY <1>4, WriterStays DEF RightsInv
<1> QED
  BY <1>1, <1>2, <1>3, <1>5 DEF RightsInv

\* grant reads the roles that it is to delete.
LEMMA GetRolesKeeps ==
    ASSUME RightsInv, NEW c \in Callers, Rights!GetRoles(c)
    PROVE  RightsInv'
<1> USE DEF Rights!GetRoles, Rights!grantVars
<1>1. PICK r : r = IF Rights!MayAsk(c)
                   THEN [call[c] EXCEPT !.todo = Rights!Shown(c),
                                        !.at = IF Rights!Shown(c) = {} THEN "allow" ELSE "check"]
                   ELSE Rights!Over
  OBVIOUS
<1>2. call[c] \in Requests /\ RequestFits(call[c]) /\ call[c].at = "roles" /\ Rights!Shown(c) \subseteq Rights!Grades
  BY RequestFacts DEF Rights!Shown, Rights!RolesOf
<1>3. CASE r = Rights!Over
  BY <1>1, <1>2, <1>3, RequestFacts, ReadKeeps DEF Rights!Over, Rights!Off, WillGrade
<1>4. CASE r = [call[c] EXCEPT !.todo = Rights!Shown(c), !.at = IF Rights!Shown(c) = {} THEN "allow" ELSE "check"]
  <2>1. /\ r \in Requests /\ r.at \in {"allow", "check"} /\ r.role = call[c].role /\ r.app = call[c].app
        /\ r.server = call[c].server /\ r.todo \subseteq Rights!Grades
    BY <1>2, <1>4 DEF Requests, Asked, Elsewhere
  <2>2. RequestFits(r) /\ r.role # "none"
    BY <1>2, <2>1 DEF RequestFits, Asked, Elsewhere, Rights!Grades
  <2>3. call' = [call EXCEPT ![c] = r]
    BY <1>1, RequestFacts DEF RightsInv, CallsFit
  <2>4. \A a \in apps' \ excused : ~WillGrade(c, a)
    BY <1>2 DEF WillGrade
  <2> QED
    BY <2>1, <2>2, <2>3, <2>4, ReadKeeps
<1> QED
  BY <1>1, <1>3, <1>4

\* Where a request goes on to.
LEMMA GoesOn ==
    ASSUME RightsInv, NEW c \in Callers, NEW place \in Asked \cup {"done"}, Rights!Goto(c, place)
    PROVE  \E r \in Requests :
              /\ call' = [call EXCEPT ![c] = r] /\ r.at = place
              /\ IF place = "done" THEN r = Rights!Over
                 ELSE /\ r.role = call[c].role /\ r.app = call[c].app /\ r.by = call[c].by
                      /\ r.server = call[c].server /\ r.todo = call[c].todo
<1>1. PICK r : r = IF place = "done" THEN Rights!Over ELSE [call[c] EXCEPT !.at = place]
  OBVIOUS
<1>2. call' = [call EXCEPT ![c] = r]
  BY <1>1, RequestFacts DEF Rights!Goto, RightsInv, CallsFit
<1>3. CASE place = "done"
  BY <1>1, <1>2, <1>3, RequestFacts DEF Rights!Over, Rights!Off
<1>4. CASE place # "done"
  <2>1. /\ r \in Requests /\ r.at = place /\ r.role = call[c].role /\ r.app = call[c].app
        /\ r.by = call[c].by /\ r.server = call[c].server /\ r.todo = call[c].todo
    BY <1>1, <1>4, RequestFacts DEF Requests
  <2> QED
    BY <1>2, <1>4, <2>1
<1> QED
  BY <1>3, <1>4

\* Before each role that is to be deleted.
LEMMA CheckDeleteKeeps ==
    ASSUME RightsInv, NEW c \in Callers, Rights!CheckDelete(c)
    PROVE  RightsInv'
<1> DEFINE place == IF Rights!MayDelete(c) /\ Rights!TypeFits(call[c].role) THEN "delete" ELSE "done"
<1>1. /\ call[c].at = "check" /\ Rights!RoleRules!Read(c) /\ Rights!Goto(c, place)
      /\ UNCHANGED <<rows, known, apps, granted, held, grantLoad, excused>>
  BY DEF Rights!CheckDelete, Rights!grantVars
<1>2. PICK r \in Requests :
         /\ call' = [call EXCEPT ![c] = r] /\ r.at = place
         /\ IF place = "done" THEN r = Rights!Over
            ELSE /\ r.role = call[c].role /\ r.app = call[c].app /\ r.by = call[c].by
                 /\ r.server = call[c].server /\ r.todo = call[c].todo
  <2>1. place \in Asked \cup {"done"}
    BY DEF Asked
  <2> QED
    BY <1>1, <2>1, GoesOn
<1>3. place = "delete" => MayGrade(call[c])
  BY DEF MayGrade, Rights!MayDelete
<1>4. RequestFits(r) /\ (r.at \in {"check", "delete"} /\ r.role = "none" => r.app \in excused)
  <2>1. CASE place = "done"
    BY <1>2, <2>1, RequestFacts DEF Rights!Over, Rights!Off
  <2>2. CASE place = "delete"
    <3>1. MayGrade(r)
      BY <1>2, <1>3, <2>2 DEF MayGrade
    <3> QED
      BY <1>1, <1>2, <2>2, <3>1, RequestFacts DEF RequestFits, Asked, Elsewhere
  <2> QED
    BY <2>1, <2>2
<1>5. ASSUME NEW a \in apps' \ excused, WillGrade(c, a) PROVE WillGrade(c, a)'
  <2>1. Rights!MayAsk(c) /\ Rights!Shown(c) = {} /\ MayGrade(call[c]) /\ call[c].app = a /\ call[c].role # "none"
    BY <1>1, <1>5, ShownBare DEF Rights!RoleRules!Read, WillGrade
  <2>2. place = "delete"
    BY <2>1 DEF Rights!MayDelete, MayGrade
  <2>3. call'[c] = r /\ r.at = "delete" /\ r.role = call[c].role /\ r.app = a /\ MayGrade(r)
    BY <1>2, <2>1, <2>2, RequestFacts DEF MayGrade, RightsInv, CallsFit
  <2> QED
    BY <2>1, <2>3 DEF WillGrade
<1> HIDE DEF place
<1> QED
  BY <1>1, <1>2, <1>4, <1>5, ReadKeeps

\* Before the role that is to be added.
LEMMA CheckAddKeeps ==
    ASSUME RightsInv, NEW c \in Callers, Rights!CheckAdd(c)
    PROVE  RightsInv'
<1> DEFINE may == /\ Rights!MayAsk(c) /\ Rights!TypeFits(call[c].role)
                  /\ call[c].by # "admin" => Rights!Shown(c) = {} /\ call[c].role # "super_client"
           place == IF may THEN "add" ELSE "done"
<1>1. /\ call[c].at = "allow" /\ Rights!RoleRules!Read(c) /\ Rights!Goto(c, place)
      /\ UNCHANGED <<rows, known, apps, granted, held, grantLoad, excused>>
  BY DEF Rights!CheckAdd, Rights!grantVars
<1>2. PICK r \in Requests :
         /\ call' = [call EXCEPT ![c] = r] /\ r.at = place
         /\ IF place = "done" THEN r = Rights!Over
            ELSE /\ r.role = call[c].role /\ r.app = call[c].app /\ r.by = call[c].by
                 /\ r.server = call[c].server /\ r.todo = call[c].todo
  <2>1. place \in Asked \cup {"done"}
    BY DEF Asked
  <2> QED
    BY <1>1, <2>1, GoesOn
<1>4. RequestFits(r) /\ r.at \notin {"check", "delete"}
  <2>1. CASE place = "done"
    BY <1>2, <2>1, RequestFacts DEF Rights!Over, Rights!Off
  <2>2. CASE place = "add"
    BY <1>1, <1>2, <2>2, RequestFacts DEF RequestFits, Asked, Elsewhere
  <2> QED
    BY <2>1, <2>2
<1>5. ASSUME NEW a \in apps' \ excused, WillGrade(c, a) PROVE WillGrade(c, a)'
  <2>1. Rights!MayAsk(c) /\ Rights!Shown(c) = {} /\ MayGrade(call[c]) /\ call[c].app = a /\ call[c].role # "none"
    BY <1>1, <1>5, ShownBare DEF Rights!RoleRules!Read, WillGrade
  <2>2. place = "add"
    BY <2>1 DEF MayGrade
  <2>3. /\ call'[c] = r /\ r.at = "add" /\ r.role = call[c].role /\ r.app = a /\ MayGrade(r)
        /\ r.server = call[c].server
    BY <1>2, <2>1, <2>2, RequestFacts DEF MayGrade, RightsInv, CallsFit
  <2>4. Rights!RolesOf(a, known[r.server]) = {} /\ known' = known
    BY <1>1, <2>1, <2>3 DEF Rights!Shown
  <2> QED
    BY <2>1, <2>3, <2>4 DEF WillGrade
<1> HIDE DEF place
<1> QED
  BY <1>1, <1>2, <1>4, <1>5, ReadKeeps

\* The row of an app goes, and its roles stay; or who asks is authenticated.
LEMMA DropKeeps ==
    ASSUME RightsInv, NEW c \in Callers, Rights!DropApp(c) \/ Rights!Authenticated(c)
    PROVE  RightsInv'
<1>1. /\ call[c].at \in {"drop", "look"} /\ Rights!RoleRules!Read(c) /\ Rights!Goto(c, "done")
      /\ UNCHANGED <<rows, known, granted, held, grantLoad, excused>> /\ apps' \subseteq apps
  BY DEF Rights!DropApp, Rights!Authenticated, Rights!grantVars
<1>2. call' = [call EXCEPT ![c] = Rights!Over] /\ Rights!Over.at = "done"
  BY <1>1 DEF Rights!Goto, Rights!Over, Rights!Off
<1>3. \A a \in apps' \ excused : ~WillGrade(c, a)
  BY <1>1 DEF WillGrade
<1> QED
  BY <1>1, <1>2, <1>3, RequestFacts, ReadKeeps

\* Rules that change under requests that wait, all of which are left with what they need.
LEMMA RulesKeep ==
    ASSUME RightsInv, NEW c \in Callers, NEW r \in Requests, RequestFits(r), call' = [call EXCEPT ![c] = r],
           r.at \in {"check", "delete"} /\ r.role = "none" => r.app \in excused,
           UNCHANGED <<roleLoad, granted, held, grantLoad, apps, excused>>, call[c].at \in {"delete", "add"},
           rows' \subseteq Rules, known' \in [Servers -> SUBSET Rules], Rights!BossRule \in rows',
           \A s \in Servers : Rights!BossRule \in known[s] => Rights!BossRule \in known'[s],
           \A a \in Apps, s \in Servers : Rights!RolesOf(a, rows') = {} =>
              Rights!RolesOf(a, known'[s]) \subseteq Rights!RolesOf(a, known[s]),
           \A a \in apps \ excused : Rights!RolesOf(a, rows') = {} =>
              /\ Rights!RolesOf(a, rows) = {} \/ WillGrade(c, a)'
              /\ WillGrade(c, a) => WillGrade(c, a)'
    PROVE  RightsInv'
<1>1. CallsFit' /\ call'[c] = r /\ \A d \in Callers \ {c} : call'[d] = call[d]
  BY RequestGoes DEF RightsInv
<1>2. Rights!PermissionTypeOK' /\ apps \subseteq Apps
  BY DEF RightsInv, Rights!PermissionTypeOK, Rules
<1>3. LoadsFit'
  BY <1>1, RequestFacts DEF RightsInv, LoadsFit
<1>4. ASSUME NEW a \in apps \ excused, NEW d \in Callers, WillGrade(d, a), Rights!RolesOf(a, rows') = {}
      PROVE  WillGrade(d, a)'
  <2>1. CASE d = c
    BY <1>4, <2>1
  <2>2. CASE d # c
    <3>1. call[d].server \in Servers
      BY <1>4, RequestFacts DEF WillGrade, RequestFits, Asked
    <3> QED
      BY <1>1, <1>2, <1>4, <2>2, <3>1, OtherStays
  <2> QED
    BY <2>1, <2>2
<1>5. RoleOrWriter'
  BY <1>4, WriterStays DEF RightsInv
<1> QED
  BY <1>1, <1>2, <1>3, <1>5 DEF RightsInv

\* The enforcer deletes a role that its memory has: the request goes on to grant one.
LEMMA DeleteKeeps ==
    ASSUME RightsInv, NEW c \in Callers, Rights!Delete(c)
    PROVE  RightsInv'
<1>0. /\ call[c].at = "delete" /\ UNCHANGED <<roleLoad, granted, held, grantLoad, apps, excused>>
      /\ call[c] \in Requests /\ RequestFits(call[c])
  BY RequestFacts DEF Rights!Delete, Rights!grantVars
<1>1. PICK role \in call[c].todo :
         /\ Rights!RoleRules!RemoveRule(call[c].server, <<call[c].app, role>>)
         /\ call' = [call EXCEPT ![c] = IF call[c].todo = {role} /\ call[c].role = "none" THEN Rights!Over
                                       ELSE [call[c] EXCEPT !.todo = @ \ {role},
                                                      !.at = IF call[c].todo = {role} THEN "allow" ELSE "check"]]
  BY DEF Rights!Delete
<1>2. PICK r : r = IF call[c].todo = {role} /\ call[c].role = "none" THEN Rights!Over
                   ELSE [call[c] EXCEPT !.todo = @ \ {role},
                                        !.at = IF call[c].todo = {role} THEN "allow" ELSE "check"]
  OBVIOUS
<1>3. call' = [call EXCEPT ![c] = r]
  BY <1>1, <1>2
<1>4. PICK s \in Servers : s = call[c].server
  BY <1>0 DEF RequestFits
<1>5. PICK l \in Rules : l = <<call[c].app, role>> /\ l # Rights!BossRule
  <2>1. call[c].app \in Apps /\ role \in Rights!Grades
    BY <1>0, <1>1 DEF RequestFits, Asked
  <2>2. <<call[c].app, role>> \in Rules
    BY <2>1 DEF Rules
  <2>3. call[c].app # Boss
    BY <2>1, SiteAssumption
  <2>4. <<call[c].app, role>> # Rights!BossRule
    BY <2>3 DEF Rights!BossRule
  <2> QED
    BY <2>2, <2>4
<1>6. /\ rows' \subseteq rows /\ rows \ {l} \subseteq rows' /\ known' \in [Servers -> SUBSET Rules]
      /\ \A t \in Servers : known'[t] \subseteq known[t] /\ known[t] \ {l} \subseteq known'[t]
  BY <1>1, <1>4, <1>5 DEF Rights!RoleRules!RemoveRule, RightsInv, Rights!PermissionTypeOK, Rules
<1>7. CASE r = Rights!Over /\ call[c].role = "none"
  <2>1. \A a \in apps \ excused : call[c].app # a /\ ~WillGrade(c, a)
    BY <1>0, <1>7, RequestFacts DEF WillGrade
  <2>2. \A a \in apps \ excused : Rights!RolesOf(a, rows') = Rights!RolesOf(a, rows)
    BY <1>5, <1>6, <2>1 DEF Rights!RolesOf
  <2>3. \A a \in Apps, t \in Servers : Rights!RolesOf(a, known'[t]) \subseteq Rights!RolesOf(a, known[t])
    BY <1>6 DEF Rights!RolesOf
  <2>4. rows' \subseteq Rules /\ Rights!BossRule \in rows'
    BY <1>5, <1>6 DEF RightsInv, Rights!PermissionTypeOK, LoadsFit, Rules
  <2>5. \A t \in Servers : Rights!BossRule \in known[t] => Rights!BossRule \in known'[t]
    BY <1>5, <1>6
  <2>6. r \in Requests /\ RequestFits(r) /\ r.at = "done"
    BY <1>7, RequestFacts DEF Rights!Over, Rights!Off
  <2> QED
    BY <1>0, <1>3, <1>6, <2>1, <2>2, <2>3, <2>4, <2>5, <2>6, RulesKeep
<1>8. CASE /\ ~(call[c].todo = {role} /\ call[c].role = "none")
           /\ r = [call[c] EXCEPT !.todo = @ \ {role}, !.at = IF call[c].todo = {role} THEN "allow" ELSE "check"]
  <2>1. /\ r \in Requests /\ r.at \in {"allow", "check"} /\ r.role = call[c].role /\ r.app = call[c].app
        /\ r.by = call[c].by /\ r.server = s /\ r.todo \subseteq Rights!Grades
        /\ (r.at = "allow" => r.role # "none") /\ MayGrade(r)
    BY <1>0, <1>4, <1>8 DEF Requests, Asked, Elsewhere, RequestFits, MayGrade
  <2>2. RequestFits(r)
    BY <1>0, <2>1 DEF RequestFits, Asked, Elsewhere, Requests
  <2>3. r.role = "none" => r.app \in excused
    BY <1>0, <2>1, RequestFacts
  <2>4. call'[c] = r /\ roleLoad'[c].at = "idle"
    BY <1>0, <1>3, RequestFacts DEF RightsInv, CallsFit
  <2>5. ASSUME NEW a \in apps \ excused, call[c].app = a PROVE WillGrade(c, a)'
    BY <2>1, <2>3, <2>4, <2>5 DEF WillGrade
  <2>6. ASSUME NEW a \in apps \ excused, Rights!RolesOf(a, rows') = {}
        PROVE  /\ Rights!RolesOf(a, rows) = {} \/ WillGrade(c, a)'
               /\ WillGrade(c, a) => WillGrade(c, a)'
    <3>1. CASE call[c].app = a
      BY <2>5, <3>1
    <3>2. CASE call[c].app # a
      <4>1. Rights!RolesOf(a, rows) = {}
        BY <1>5, <1>6, <2>6, <3>2 DEF Rights!RolesOf
      <4> QED
        BY <3>2, <4>1 DEF WillGrade
    <3> QED
      BY <3>1, <3>2
  <2>7. \A a \in Apps, t \in Servers : Rights!RolesOf(a, known'[t]) \subseteq Rights!RolesOf(a, known[t])
    BY <1>6 DEF Rights!RolesOf
  <2>8. rows' \subseteq Rules /\ Rights!BossRule \in rows'
    BY <1>5, <1>6 DEF RightsInv, Rights!PermissionTypeOK, LoadsFit, Rules
  <2>9. \A t \in Servers : Rights!BossRule \in known[t] => Rights!BossRule \in known'[t]
    BY <1>5, <1>6
  <2> QED
    BY <1>0, <1>3, <1>6, <2>1, <2>2, <2>3, <2>6, <2>7, <2>8, <2>9, RulesKeep
<1> QED
  BY <1>2, <1>7, <1>8

\* The enforcer adds a role unless its memory has it.
LEMMA AddKeeps ==
    ASSUME RightsInv, NEW c \in Callers, Rights!Add(c)
    PROVE  RightsInv'
<1>0. /\ call[c].at = "add" /\ UNCHANGED <<roleLoad, granted, held, grantLoad, apps, excused>>
      /\ Rights!RoleRules!AddRule(call[c].server, <<call[c].app, call[c].role>>)
      /\ call[c] \in Requests /\ RequestFits(call[c])
  BY RequestFacts DEF Rights!Add, Rights!grantVars
<1>1. PICK r \in Requests : r = Rights!Over /\ call' = [call EXCEPT ![c] = r] /\ RequestFits(r) /\ r.at = "done"
  BY RequestFacts DEF Rights!Add, Rights!Goto, Rights!Over, Rights!Off
<1>2. PICK s \in Servers : s = call[c].server
  BY <1>0 DEF RequestFits
<1>3. PICK l \in Rules : l = <<call[c].app, call[c].role>> /\ call[c].role \in Rights!Grades
  BY <1>0 DEF RequestFits, Asked, Rules
<1>4. /\ rows \subseteq rows' /\ rows' \subseteq Rules /\ known' \in [Servers -> SUBSET Rules]
      /\ \A t \in Servers : known[t] \subseteq known'[t]
      /\ \/ l \in rows' /\ \A t \in Servers : known'[t] \subseteq known[t] \cup {l}
         \/ known' = known /\ rows' = rows
      /\ l \notin known[s] => l \in rows'
  <2>1. IF l \in known[s] THEN UNCHANGED <<rows, known>>
        ELSE rows' = rows \cup {l} /\ known' = [known EXCEPT ![s] = @ \cup {l}]
    BY <1>0, <1>2, <1>3 DEF Rights!RoleRules!AddRule
  <2>2. rows \subseteq Rules /\ known \in [Servers -> SUBSET Rules]
    BY DEF RightsInv, Rights!PermissionTypeOK, Rules
  <2> QED
    BY <2>1, <2>2
<1>5. ASSUME NEW a \in Apps, NEW t \in Servers, Rights!RolesOf(a, rows') = {}
      PROVE  /\ Rights!RolesOf(a, known'[t]) \subseteq Rights!RolesOf(a, known[t])
             /\ Rights!RolesOf(a, rows) = {}
  <2>1. ASSUME l \in rows' PROVE call[c].app # a
    BY <1>3, <1>5, <2>1 DEF Rights!RolesOf
  <2>2. CASE known' = known /\ rows' = rows
    BY <1>5, <2>2
  <2>3. CASE l \in rows' /\ \A u \in Servers : known'[u] \subseteq known[u] \cup {l}
    <3>1. known'[t] \subseteq known[t] \cup {l} /\ call[c].app # a /\ rows \subseteq rows'
      BY <1>4, <2>1, <2>3
    <3> QED
      BY <1>3, <1>5, <3>1 DEF Rights!RolesOf
  <2> QED
    BY <1>4, <2>2, <2>3
<1>6. ASSUME NEW a \in apps \ excused, Rights!RolesOf(a, rows') = {} PROVE ~WillGrade(c, a)
  BY <1>0, <1>2, <1>3, <1>4, <1>6 DEF WillGrade, Rights!RolesOf
<1>7. apps \subseteq Apps /\ Rights!BossRule \in rows'
  BY <1>4 DEF RightsInv, Rights!PermissionTypeOK, LoadsFit
<1>8. \A t \in Servers : Rights!BossRule \in known[t] => Rights!BossRule \in known'[t]
  BY <1>4
<1>9. Servers # {}
  BY <1>2
<1> QED
  BY <1>0, <1>1, <1>4, <1>5, <1>6, <1>7, <1>8, <1>9, RulesKeep

\* A load: who else grades an app at the server is shown no role of it, or is excused.
LEMMA LoadRolesKeeps ==
    ASSUME RightsInv, NEW c \in Callers, Rights!LoadRoles(c)
    PROVE  RightsInv'
<1> DEFINE s == call[c].server
<1>1. /\ call[c].at \in {"roles", "check", "allow", "drop", "look"}
      /\ Rights!RoleRules!Load(c, s) /\ UNCHANGED <<apps, call, granted, held, grantLoad, rows>>
      /\ excused' = excused \cup {call[d].app : d \in
                      {e \in Rights!Grading(s) \ {c} : Rights!Misled(e, known'[s])}}
  BY DEF Rights!LoadRoles, Rights!grantVars, Rights!RoleRules!Load, Rights!RoleRules!Select, Rights!RoleRules!Clear,
         Rights!RoleRules!Line
<1>2. /\ call[c] \in Requests /\ RequestFits(call[c]) /\ s \in Servers /\ c \in Rights!Threads
      /\ roleLoad[c] \in LoadsOf(Rules) /\ rows \subseteq Rules /\ Rights!BossRule \in rows /\ apps \subseteq Apps
      /\ known \in [Servers -> SUBSET Rules] /\ roleLoad \in [Rights!Threads -> LoadsOf(Rules)]
  BY <1>1, RequestFacts DEF RequestFits, RightsInv, LoadsFit, Rights!PermissionTypeOK, Rules
<1>3. excused \subseteq excused' /\ excused' \subseteq Apps
  <2>1. \A d \in Rights!Grading(s) : call[d].app \in Apps
    BY RequestFacts DEF Rights!Grading, RequestFits, Asked
  <2> QED
    BY <1>1, <2>1 DEF RightsInv, Rights!PermissionTypeOK
<1>4. \A a \in apps \ excused', d \in Callers \ {c} :
         WillGrade(d, a) /\ call[d].server = s => ~Rights!Misled(d, known'[s])
  <2> SUFFICES ASSUME NEW a \in apps \ excused', NEW d \in Callers \ {c}, WillGrade(d, a), call[d].server = s,
                      Rights!Misled(d, known'[s])
               PROVE  FALSE
    OBVIOUS
  <2>1. d \in Rights!Grading(s)
    BY DEF WillGrade, Rights!Grading
  <2>2. call[d].app \in excused'
    BY <1>1, <2>1
  <2> QED
    BY <2>2 DEF WillGrade
\* The copy that is put in holds what the rows held, and the memory what was put in.
<1>5. /\ roleLoad' \in [Rights!Threads -> LoadsOf(Rules)] /\ known' \in [Servers -> SUBSET Rules]
      /\ \A d \in Callers \ {c} : roleLoad'[d] = roleLoad[d]
      /\ \A t \in Servers \ {s} : known'[t] = known[t]
      /\ \/ roleLoad[c].at = "idle" /\ roleLoad'[c].at = "selected" /\ roleLoad'[c].copy = rows /\ known' = known
         \/ /\ roleLoad[c].at = "selected" /\ roleLoad'[c].at = "filling" /\ roleLoad'[c].copy = roleLoad[c].copy
            /\ known'[s] = {}
         \/ /\ roleLoad[c].at = "filling" /\ roleLoad'[c].at = "filling"
            /\ known'[s] \cup roleLoad'[c].copy = known[s] \cup roleLoad[c].copy
            /\ known[s] \subseteq known'[s]
  <2>1. CASE Rights!RoleRules!Select(c)
    BY <1>2, <2>1 DEF Rights!RoleRules!Select, LoadsOf
  <2>2. CASE Rights!RoleRules!Clear(c, s)
    <3>1. roleLoad'[c] = [roleLoad[c] EXCEPT !.at = "filling"]
      BY <1>2, <2>2 DEF Rights!RoleRules!Clear
    <3>2. roleLoad'[c] \in LoadsOf(Rules) /\ roleLoad'[c].at = "filling" /\ roleLoad'[c].copy = roleLoad[c].copy
      BY <1>2, <3>1 DEF LoadsOf
    <3> HIDE DEF s
    <3> QED
      BY <1>2, <2>2, <3>2 DEF Rights!RoleRules!Clear
  <2>3. CASE Rights!RoleRules!Line(c, s)
    <3>0. PICK l \in roleLoad[c].copy : /\ roleLoad' = [roleLoad EXCEPT ![c].copy = @ \ {l}]
                                        /\ known' = [known EXCEPT ![s] = @ \cup {l}]
      BY <2>3 DEF Rights!RoleRules!Line
    <3>1. roleLoad'[c] = [roleLoad[c] EXCEPT !.copy = @ \ {l}] /\ l \in Rules
      BY <1>2, <3>0 DEF LoadsOf
    <3>2. /\ roleLoad'[c] \in LoadsOf(Rules) /\ roleLoad'[c].at = roleLoad[c].at
          /\ roleLoad'[c].copy = roleLoad[c].copy \ {l} /\ roleLoad[c].at = "filling"
      BY <1>2, <2>3, <3>1 DEF LoadsOf, Rights!RoleRules!Line
    <3> HIDE DEF s
    <3>3. known'[s] = known[s] \cup {l} /\ known' \in [Servers -> SUBSET Rules] /\ \A t \in Servers \ {s} : known'[t] = known[t]
      BY <1>2, <3>0, <3>1
    <3>4. known'[s] \cup roleLoad'[c].copy = known[s] \cup roleLoad[c].copy
      BY <3>0, <3>2, <3>3
    <3> QED
      BY <1>2, <3>0, <3>2, <3>3, <3>4
  <2> QED
    BY <1>1, <2>1, <2>2, <2>3 DEF Rights!RoleRules!Load
<1>6. CallsFit'
  BY <1>1, <1>3 DEF RightsInv, CallsFit
<1>7. LoadsFit'
  BY <1>1, <1>2, <1>5 DEF RightsInv, LoadsFit
<1>8. Rights!PermissionTypeOK'
  BY <1>1, <1>3, <1>5 DEF RightsInv, Rights!PermissionTypeOK, Rules
\* The request itself.
<1>9. ASSUME NEW a \in apps \ excused', Rights!RolesOf(a, rows) = {}, WillGrade(c, a) PROVE WillGrade(c, a)'
  <2>1. Bare(a, call[c].by, rows)
    BY <1>2, <1>9 DEF Bare
  <2>2. /\ call[c].at \in {"check", "allow"}
        /\ call[c].app = a /\ call[c].role # "none" /\ MayGrade(call[c])
        /\ \/ roleLoad[c].at = "idle"
           \/ roleLoad[c].at = "selected" /\ Bare(a, call[c].by, roleLoad[c].copy)
           \/ roleLoad[c].at = "filling" /\ Bare(a, call[c].by, known[s] \cup roleLoad[c].copy)
    BY <1>1, <1>9 DEF WillGrade
  <2>3. \/ roleLoad'[c].at = "selected" /\ Bare(a, call[c].by, roleLoad'[c].copy)
        \/ roleLoad'[c].at = "filling" /\ Bare(a, call[c].by, known'[s] \cup roleLoad'[c].copy)
    <3>1. CASE roleLoad'[c].at = "selected"
      BY <1>5, <2>1, <3>1
    <3>2. CASE roleLoad[c].at = "selected"
      <4>1. {} \cup roleLoad'[c].copy = roleLoad[c].copy /\ known'[s] = {} /\ roleLoad'[c].at = "filling"
        BY <1>5, <3>2
      <4> QED
        BY <2>2, <3>2, <4>1
    <3>3. CASE roleLoad[c].at = "filling"
      BY <1>5, <2>2, <3>3
    <3> QED
      BY <1>5, <3>1, <3>2, <3>3
  <2> QED
    BY <1>1, <2>2, <2>3 DEF WillGrade
\* The others.
<1>10. ASSUME NEW a \in apps \ excused', NEW d \in Callers \ {c}, Rights!RolesOf(a, rows) = {}, WillGrade(d, a)
       PROVE  WillGrade(d, a)'
  <2>1. call[d].server \in Servers /\ roleLoad'[d] = roleLoad[d] /\ call'[d] = call[d] /\ call[d].app = a
    BY <1>1, <1>5, <1>10, RequestFacts DEF WillGrade, RequestFits, Asked
  <2>2. CASE call[d].server # s
    BY <1>5, <1>10, <2>1, <2>2, OtherStays
  <2>3. CASE call[d].server = s
    <3>1. ~Rights!Misled(d, known'[s])
      BY <1>4, <1>10, <2>3
    <3>2. CASE call[d].at = "add"
      BY <1>1, <1>10, <2>1, <2>3, <3>1, <3>2 DEF WillGrade, Rights!Misled
    <3>3. CASE call[d].at \in {"check", "allow"} /\ roleLoad[d].at = "filling"
      <4>1. /\ Rights!RolesOf(a, known'[s]) = {}
            /\ (call[d].by # "admin" => Rights!BossRule \in known'[s] \cup roleLoad[d].copy)
        BY <1>10, <2>1, <3>1, <3>3 DEF Rights!Misled
      <4>2. Bare(a, call[d].by, known[s] \cup roleLoad[d].copy)
        BY <1>10, <2>3, <3>3 DEF WillGrade
      <4>3. Bare(a, call[d].by, known'[s] \cup roleLoad[d].copy)
        BY <4>1, <4>2 DEF Bare, Rights!RolesOf
      <4> QED
        BY <1>10, <2>1, <2>3, <3>3, <4>3 DEF WillGrade
    <3> QED
      BY <1>10, <2>1, <3>2, <3>3 DEF WillGrade
  <2> QED
    BY <2>2, <2>3
<1>11. RoleOrWriter'
  BY <1>1, <1>3, <1>9, <1>10, WriterStays DEF RightsInv
<1> QED
  BY <1>6, <1>7, <1>8, <1>11 DEF RightsInv

\* A request of an administrator or of a client comes.
LEMMA ComesKeeps ==
    ASSUME RightsInv, NEW c \in Callers, NEW s \in Servers, NEW r \in Requests, RequestFits(r),
           call[c].at = "off", call' = [call EXCEPT ![c] = r],
           r.at \in {"check", "delete"} /\ r.role = "none" => r.app \in excused',
           UNCHANGED <<rows, known, roleLoad, apps, granted, held, grantLoad>>,
           excused \subseteq excused', excused' \subseteq Apps
    PROVE  RightsInv'
<1>1. /\ granted' \subseteq Values /\ held' \in [Servers -> SUBSET Values]
      /\ grantLoad' \in [Rights!Threads -> LoadsOf(Values)]
  BY DEF RightsInv, LoadsFit, Rights!PermissionTypeOK, Values
<1> QED
  BY <1>1, OthersKeep

\* A request about the role of an app comes.
LEMMA RoleRequestComes ==
    ASSUME RightsInv, NEW c \in Callers, NEW s \in Servers, NEW a \in Apps, NEW by \in {"admin", Boss},
           \/ \E role \in Rights!Grades : Rights!Grant(c, s, by, a, role) \/ Rights!DeleteRole(c, s, by, a, role)
           \/ Rights!DeleteApp(c, s, by, a)
    PROVE  RightsInv'
<1> USE DEF Rights!Comes, Rights!ruleVars, Rights!grantVars, Requests, RequestFits, Asked, Elsewhere, Rights!Grades
<1>0. excused \subseteq Apps
  BY DEF RightsInv, Rights!PermissionTypeOK
<1>1. ASSUME NEW role \in Rights!Grades, Rights!Grant(c, s, by, a, role) PROVE RightsInv'
  <2>1. PICK r : r = [at |-> "roles", server |-> s, by |-> by, app |-> a, role |-> role, todo |-> {}]
    OBVIOUS
  <2>2. r \in Requests /\ RequestFits(r) /\ r.at = "roles"
    BY <2>1
  <2>3. call[c].at = "off" /\ call' = [call EXCEPT ![c] = r]
    BY <1>1, <2>1 DEF Rights!Grant
  <2>4. UNCHANGED <<rows, known, roleLoad, apps, granted, held, grantLoad, excused>>
    BY <1>1 DEF Rights!Grant
  <2> HIDE DEF Requests, RequestFits
  <2> QED
    BY <1>0, <2>2, <2>3, <2>4, ComesKeeps
<1>2. ASSUME NEW role \in Rights!Grades, Rights!DeleteRole(c, s, by, a, role) PROVE RightsInv'
  <2>1. PICK r : r = [at |-> "check", server |-> s, by |-> by, app |-> a, role |-> "none", todo |-> {role}]
    OBVIOUS
  <2>2. r \in Requests /\ RequestFits(r) /\ r.app = a
    BY <1>2, <2>1
  <2>3. call[c].at = "off" /\ call' = [call EXCEPT ![c] = r]
    BY <1>2, <2>1 DEF Rights!DeleteRole
  <2>4. UNCHANGED <<rows, known, roleLoad, apps, granted, held, grantLoad>> /\ excused' = excused \cup {a}
    BY <1>2 DEF Rights!DeleteRole
  <2> HIDE DEF Requests, RequestFits
  <2> QED
    BY <1>0, <2>2, <2>3, <2>4, ComesKeeps
<1>3. ASSUME Rights!DeleteApp(c, s, by, a) PROVE RightsInv'
  <2>1. PICK r : r = [at |-> "drop", server |-> s, by |-> by, app |-> a, role |-> "none", todo |-> {}]
    OBVIOUS
  <2>2. r \in Requests /\ RequestFits(r) /\ r.at = "drop"
    BY <2>1
  <2>3. call[c].at = "off" /\ call' = [call EXCEPT ![c] = r]
    BY <1>3, <2>1 DEF Rights!DeleteApp
  <2>4. UNCHANGED <<rows, known, roleLoad, apps, granted, held, grantLoad, excused>>
    BY <1>3 DEF Rights!DeleteApp
  <2> HIDE DEF Requests, RequestFits
  <2> QED
    BY <1>0, <2>2, <2>3, <2>4, ComesKeeps
<1> HIDE DEF Rights!Comes, Requests, RequestFits
<1> QED
  BY <1>1, <1>2, <1>3

\* Any other request comes: of a client, or about the components.
LEMMA OtherRequestComes ==
    ASSUME RightsInv, NEW c \in Callers, NEW s \in Servers,
           \/ Rights!Authenticate(c, s)
           \/ \E kind \in {"give", "take", "takeAll"}, values \in SUBSET Values :
                 Rights!Change(c, s, kind, values, Catalog!Registered)
    PROVE  RightsInv'
<1>1. PICK kind \in {"look", "give", "take", "takeAll"}, values \in SUBSET Values :
         Rights!Comes(c, s, kind, "none", "none", "none", values)
  BY DEF Rights!Authenticate, Rights!Change
<1>2. PICK r : r = [at |-> kind, server |-> s, by |-> "none", app |-> "none", role |-> "none", todo |-> values]
  OBVIOUS
<1>3. r \in Requests /\ RequestFits(r) /\ r.at \notin {"check", "delete"}
  BY <1>2 DEF Requests, RequestFits, Asked, Elsewhere
<1>4. call[c].at = "off" /\ call' = [call EXCEPT ![c] = r]
  BY <1>1, <1>2 DEF Rights!Comes
<1>5. UNCHANGED <<rows, known, roleLoad, apps, granted, held, grantLoad, excused>> /\ excused \subseteq Apps
  BY DEF Rights!Authenticate, Rights!Change, Rights!ruleVars, Rights!grantVars, RightsInv, Rights!PermissionTypeOK
<1> QED
  BY <1>3, <1>4, <1>5, ComesKeeps

\* A load of the components that are granted, of whichever thread.
LEMMA GrantsLoad ==
    ASSUME RightsInv, NEW t \in Rights!Threads, NEW s \in Servers, Rights!GrantRules!Load(t, s)
    PROVE  /\ granted' = granted /\ held' \in [Servers -> SUBSET Values]
           /\ grantLoad' \in [Rights!Threads -> LoadsOf(Values)]
<1>1. /\ granted \subseteq Values /\ held \in [Servers -> SUBSET Values]
      /\ grantLoad \in [Rights!Threads -> LoadsOf(Values)]
  BY DEF RightsInv, LoadsFit, Rights!PermissionTypeOK, Values
<1>2. CASE Rights!GrantRules!Select(t)
  BY <1>1, <1>2 DEF Rights!GrantRules!Select, LoadsOf
<1>3. CASE Rights!GrantRules!Clear(t, s)
  <2>1. [grantLoad[t] EXCEPT !.at = "filling"] \in LoadsOf(Values)
    BY <1>1 DEF LoadsOf
  <2> QED
    BY <1>1, <1>3, <2>1 DEF Rights!GrantRules!Clear
<1>4. CASE Rights!GrantRules!Line(t, s)
  <2>1. PICK l \in grantLoad[t].copy : /\ grantLoad' = [grantLoad EXCEPT ![t].copy = @ \ {l}]
                                       /\ held' = [held EXCEPT ![s] = @ \cup {l}] /\ granted' = granted
    BY <1>4 DEF Rights!GrantRules!Line
  <2>2. [grantLoad[t] EXCEPT !.copy = @ \ {l}] \in LoadsOf(Values) /\ l \in Values
    BY <1>1, <2>1 DEF LoadsOf
  <2> QED
    BY <1>1, <2>1, <2>2
<1> QED
  BY <1>2, <1>3, <1>4 DEF Rights!GrantRules!Load

\* The memory of the components that are granted is read.
LEMMA GrantsRead ==
    ASSUME RightsInv, NEW t \in Rights!Threads, Rights!GrantRules!Read(t)
    PROVE  grantLoad' \in [Rights!Threads -> LoadsOf(Values)]
<1>1. Rights!GrantRules!Idle \in LoadsOf(Values) /\ grantLoad' = [grantLoad EXCEPT ![t] = Rights!GrantRules!Idle]
  BY DEF Rights!GrantRules!Read, Rights!GrantRules!Idle, LoadsOf
<1> QED
  BY <1>1 DEF RightsInv, LoadsFit

\* What is granted changes, and the roles do not.
LEMMA GrantsChange ==
    ASSUME RightsInv, UNCHANGED <<rows, known, roleLoad, apps, call, excused>>,
           granted' \subseteq Values, held' \in [Servers -> SUBSET Values],
           grantLoad' \in [Rights!Threads -> LoadsOf(Values)]
    PROVE  RightsInv'
<1>1. Rights!PermissionTypeOK'
  BY DEF RightsInv, Rights!PermissionTypeOK, Values
<1>2. CallsFit' /\ LoadsFit'
  BY DEF RightsInv, CallsFit, LoadsFit
<1>3. RoleOrWriter'
  BY DEF RightsInv, RoleOrWriter, WillGrade
<1> QED
  BY <1>1, <1>2, <1>3 DEF RightsInv

\* The requests about the components.
LEMMA ComponentsKeep ==
    ASSUME RightsInv, NEW c \in Callers,
           \/ Rights!LoadGrants(c) \/ Rights!GrantComponent(c) \/ Rights!RevokeComponent(c) \/ Rights!RevokeAll(c)
    PROVE  RightsInv'
<1> USE DEF Rights!ruleVars
<1>0. /\ call[c].at \in {"give", "take", "takeAll"} /\ call[c] \in Requests /\ RequestFits(call[c]) /\ c \in Rights!Threads
      /\ Rights!Over \in Requests /\ RequestFits(Rights!Over) /\ call[c].server \in Servers
      /\ granted \subseteq Values /\ held \in [Servers -> SUBSET Values] /\ excused \subseteq Apps
      /\ UNCHANGED <<rows, known, roleLoad, apps, excused>>
  <2>1. call[c].at \in {"give", "take", "takeAll"} /\ UNCHANGED <<rows, known, roleLoad, apps, excused>>
    BY DEF Rights!LoadGrants, Rights!GrantComponent, Rights!RevokeComponent, Rights!RevokeAll
  <2>2. granted \subseteq Values /\ held \in [Servers -> SUBSET Values] /\ excused \subseteq Apps
    BY DEF RightsInv, Rights!PermissionTypeOK, Values
  <2> QED
    BY <2>1, <2>2, RequestFacts DEF RequestFits
<1>1. CASE Rights!LoadGrants(c)
  BY <1>0, <1>1, GrantsLoad, GrantsChange DEF Rights!LoadGrants
<1>2. ASSUME Rights!GrantRules!Read(c), NEW v \in call[c].todo, Rights!Done(c, v), granted' \subseteq Values,
             held' \in [Servers -> SUBSET Values]
      PROVE  RightsInv'
  <2>1. PICK r : r = IF call[c].todo = {v} THEN Rights!Over ELSE [call[c] EXCEPT !.todo = @ \ {v}]
    OBVIOUS
  <2>2. r \in Requests /\ RequestFits(r) /\ r.at \notin {"check", "delete"}
    <3>1. CASE r = Rights!Over
      BY <1>0, <3>1 DEF Rights!Over, Rights!Off
    <3>2. CASE r = [call[c] EXCEPT !.todo = @ \ {v}]
      BY <1>0, <3>2 DEF Requests, RequestFits, Asked
    <3> QED
      BY <2>1, <3>1, <3>2
  <2>3. call' = [call EXCEPT ![c] = r]
    BY <1>2, <2>1 DEF Rights!Done
  <2> QED
    BY <1>0, <1>2, <2>2, <2>3, GrantsRead, OthersKeep
<1>3. CASE Rights!GrantComponent(c)
  <2>1. PICK v \in call[c].todo : Rights!GrantRules!AddRule(call[c].server, v) /\ Rights!Done(c, v)
    BY <1>3 DEF Rights!GrantComponent
  <2>2. v \in Values
    BY <1>0, <1>3, <2>1 DEF Rights!GrantComponent, RequestFits
  <2>3. granted' \subseteq Values /\ held' \in [Servers -> SUBSET Values]
    BY <1>0, <2>1, <2>2 DEF Rights!GrantRules!AddRule
  <2> QED
    BY <1>2, <1>3, <2>1, <2>3 DEF Rights!GrantComponent
<1>4. CASE Rights!RevokeComponent(c)
  <2>1. PICK v \in call[c].todo : Rights!GrantRules!RemoveRule(call[c].server, v) /\ Rights!Done(c, v)
    BY <1>4 DEF Rights!RevokeComponent
  <2>3. granted' \subseteq Values /\ held' \in [Servers -> SUBSET Values]
    BY <1>0, <2>1 DEF Rights!GrantRules!RemoveRule
  <2> QED
    BY <1>2, <1>4, <2>1, <2>3 DEF Rights!RevokeComponent
<1>5. CASE Rights!RevokeAll(c)
  <2>1. granted' \subseteq Values /\ held' \in [Servers -> SUBSET Values]
    BY <1>0, <1>5 DEF Rights!RevokeAll, Rights!GrantRules!RemoveAll
  <2>2. call' = [call EXCEPT ![c] = Rights!Over] /\ Rights!Over.at = "done" /\ Rights!GrantRules!Read(c)
    BY <1>5 DEF Rights!RevokeAll, Rights!Goto, Rights!Over, Rights!Off
  <2> QED
    BY <1>0, <2>1, <2>2, GrantsRead, OthersKeep
<1> QED
  BY <1>1, <1>3, <1>4, <1>5

\* A server dies: who graded there is excused, and the others do not notice.
LEMMA ServerDiesKeeps ==
    ASSUME RightsInv, NEW s \in Servers, NEW threads \in SUBSET {Rights!Job}, Rights!ServerDies(s, threads)
    PROVE  RightsInv'
<1> DEFINE here == threads \cup {c \in Callers : call[c].server = s}
<1>0. /\ excused' = excused \cup {call[c].app : c \in Rights!Grading(s)}
      /\ call' = [c \in Callers |-> IF c \in here THEN Rights!Over ELSE call[c]]
      /\ Rights!RoleRules!Restart(s, here) /\ Rights!GrantRules!Restart(s, here) /\ apps' = apps
  BY DEF Rights!ServerDies
<1>1. /\ rows' = rows /\ known' = [known EXCEPT ![s] = rows]
      /\ roleLoad' = [t \in Rights!Threads |-> IF t \in here THEN Rights!RoleRules!Idle ELSE roleLoad[t]]
      /\ granted' = granted /\ held' = [held EXCEPT ![s] = granted]
      /\ grantLoad' = [t \in Rights!Threads |-> IF t \in here THEN Rights!GrantRules!Idle ELSE grantLoad[t]]
  BY <1>0, Zenon DEF Rights!RoleRules!Restart, Rights!GrantRules!Restart
<1>2. \A c \in Callers : c \notin threads
  BY SiteAssumption DEF Rights!Job
<1>3. \A c \in Callers : IF call[c].server = s THEN call'[c] = Rights!Over ELSE call'[c] = call[c]
  BY <1>0, <1>2
<1>4. excused \subseteq excused' /\ excused' \subseteq Apps
  <2>1. \A d \in Rights!Grading(s) : call[d].app \in Apps
    BY RequestFacts DEF Rights!Grading, RequestFits, Asked
  <2> QED
    BY <1>0, <2>1 DEF RightsInv, Rights!PermissionTypeOK
<1>5. Rights!PermissionTypeOK'
  BY <1>0, <1>1, <1>4 DEF RightsInv, Rights!PermissionTypeOK
<1>6. CallsFit'
  <2>1. \A c \in Callers : call'[c] \in Requests /\ RequestFits(call'[c])
    BY <1>3, RequestFacts
  <2>2. \A c \in Callers : call'[c].at \in {"check", "delete"} /\ call'[c].role = "none" => call'[c].app \in excused'
    BY <1>3, <1>4, RequestFacts DEF Rights!Over, Rights!Off
  <2>3. call' \in [Callers -> Requests]
    BY <1>0, <2>1
  <2> HIDE DEF here, RequestFits
  <2> QED
    BY <2>1, <2>2, <2>3 DEF CallsFit
<1>7. Rights!RoleRules!Idle.at = "idle" /\ Rights!RoleRules!Idle \in LoadsOf(Rules) /\ Rights!GrantRules!Idle \in LoadsOf(Values)
  BY DEF Rights!RoleRules!Idle, Rights!GrantRules!Idle, LoadsOf
<1>8. \A c \in Callers : IF call[c].server = s THEN roleLoad'[c] = Rights!RoleRules!Idle ELSE roleLoad'[c] = roleLoad[c]
  BY <1>1, <1>2 DEF Rights!Threads
<1>9. LoadsFit'
  <2>1. roleLoad' \in [Rights!Threads -> LoadsOf(Rules)] /\ grantLoad' \in [Rights!Threads -> LoadsOf(Values)]
    BY <1>1, <1>7 DEF RightsInv, LoadsFit
  <2>2. \A c \in Callers :
           call'[c].at \notin {"roles", "check", "allow", "drop", "look"} => roleLoad'[c].at = "idle"
    BY <1>3, <1>7, <1>8, RequestFacts
  <2> QED
    BY <1>1, <2>1, <2>2 DEF RightsInv, LoadsFit
<1>10. ASSUME NEW a \in apps' \ excused', NEW d \in Callers, WillGrade(d, a) PROVE WillGrade(d, a)'
  <2>1. call[d].server \in Servers /\ d \in Callers /\ call[d].app = a /\ call[d].role # "none" /\ call[d].at \in Asked
    BY <1>10, RequestFacts DEF WillGrade, RequestFits, Asked
  <2>2. call[d].server # s
    BY <1>0, <1>10, <2>1 DEF Rights!Grading, Asked
  <2>3. call'[d] = call[d] /\ roleLoad'[d] = roleLoad[d] /\ known'[call[d].server] = known[call[d].server]
    BY <1>1, <1>3, <1>8, <2>1, <2>2 DEF RightsInv, Rights!PermissionTypeOK
  <2> QED
    BY <1>10, <2>3, OtherStays
<1>11. RoleOrWriter'
  <2> SUFFICES ASSUME NEW a \in apps' \ excused', Rights!RolesOf(a, rows') = {}
               PROVE  \E d \in Callers : WillGrade(d, a)'
    BY DEF RoleOrWriter
  <2>1. PICK d \in Callers : WillGrade(d, a)
    BY <1>0, <1>1, <1>4 DEF RightsInv, RoleOrWriter
  <2> QED
    BY <1>10, <2>1
<1> QED
  BY <1>5, <1>6, <1>9, <1>11 DEF RightsInv
-----------------------------------------------------------------------------
(* The providers (Providers): whole or gone, whatever requests do at once.     *)

\* The provider is listed with all that it was registered with, or not at all.
OffersWhole(p) == Catalog!OfferedBy(p) = owed[p] /\ (p \notin providers => owed[p] = {})

\* What a request may have to do, and which rows there may be.
Works == [at : {"off", "register", "save", "delete", "forget", "done"}, name : Names \cup {"none"},
          todo : SUBSET UNION {Catalog!Offers(p) : p \in Names}]

CatalogFits ==
    /\ components \subseteq {x \in Catalog!Offered : x[2] \in Catalog!Offers(x[1])}
    /\ work \in [Clerks -> Works]
    /\ \A c \in Clerks :
          work[c].at # "off" => work[c].name \in Names /\ work[c].todo \subseteq Catalog!Offers(work[c].name)
    /\ owed \in [Names -> SUBSET UNION {Catalog!Offers(p) : p \in Names}]

\* Who works on a provider is alone with it, and how far it has come shows in the rows:
\* a request that registers has the rows of what is not left to do.
WorkFitsAt(p) ==
    /\ \A c, d \in Catalog!Busy(p) : c = d
    /\ \A c \in Catalog!Busy(p) :
          /\ work[c].at = "register" => OffersWhole(p)
          /\ work[c].at = "save" =>
                /\ p \in providers /\ work[c].todo \subseteq owed[p]
                /\ owed[p] \ work[c].todo \subseteq Catalog!OfferedBy(p)
                /\ Catalog!OfferedBy(p) \subseteq owed[p]
          /\ work[c].at = "forget" => p \notin providers /\ owed[p] = {}
    /\ Catalog!Busy(p) = {} => OffersWhole(p)

WorkFits == \A p \in Names \ clash : WorkFitsAt(p)

CatalogInv == CatalogFits /\ WorkFits

\* A row for a component that its provider does not offer is never written.
LEMMA ListedAreOffered ==
    ASSUME CatalogFits
    PROVE  /\ Catalog!Registered \subseteq UNION {Catalog!Offers(p) : p \in Names}
           /\ \A p \in Names : Catalog!OfferedBy(p) \subseteq Catalog!Offers(p)
BY DEF CatalogFits, Catalog!Registered, Catalog!OfferedBy, Catalog!Offered

\* Every provider is whole when the server has started.
LEMMA CatalogInit == Catalog!ProvidersInit(Names) => CatalogInv
<1> SUFFICES ASSUME Catalog!ProvidersInit(Names) PROVE CatalogInv
  OBVIOUS
<1>1. CatalogFits
  <2>1. owed \in [Names -> SUBSET UNION {Catalog!Offers(p) : p \in Names}]
        /\ \A p \in Names : owed[p] \subseteq Catalog!Offers(p)
    BY DEF Catalog!ProvidersInit, Catalog!Offers
  <2>2. components \subseteq {x \in Catalog!Offered : x[2] \in Catalog!Offers(x[1])}
    BY <2>1 DEF Catalog!ProvidersInit, Catalog!Offered
  <2> QED
    BY <2>1, <2>2 DEF CatalogFits, Works, Catalog!ProvidersInit, Catalog!Idle
<1>2. ASSUME NEW p \in Names PROVE Catalog!Busy(p) = {} /\ OffersWhole(p)
  <2>1. Catalog!Busy(p) = {}
    BY DEF Catalog!ProvidersInit, Catalog!Idle, Catalog!Busy
  <2>2. owed[p] \subseteq UNION {Catalog!Offers(q) : q \in Names} /\ p \in providers
    BY DEF Catalog!ProvidersInit
  <2>3. ASSUME NEW v \in owed[p] PROVE v \in Catalog!OfferedBy(p)
    <3>1. PICK x : x = <<p, v>>
      OBVIOUS
    <3>2. x \in components /\ x[1] = p /\ x[2] = v
      BY <2>2, <3>1 DEF Catalog!ProvidersInit, Catalog!Offered
    <3> QED BY <3>2 DEF Catalog!OfferedBy
  <2>4. Catalog!OfferedBy(p) \subseteq owed[p]
    BY DEF Catalog!OfferedBy, Catalog!ProvidersInit
  <2> QED
    BY <2>1, <2>2, <2>3, <2>4 DEF OffersWhole
<1> QED
  BY <1>1, <1>2 DEF CatalogInv, WorkFits, WorkFitsAt


\* A step of one request for a provider leaves the others alone.
LEMMA OtherProviders ==
    ASSUME CatalogInv, NEW c \in Clerks, NEW p \in Names, NEW w \in Works, w.name = p,
           work' = [work EXCEPT ![c] = w], work[c].at = "off" \/ work[c].name = p,
           providers' \ {p} = providers \ {p},
           \A q \in Names \ {p} : Catalog!OfferedBy(q)' = Catalog!OfferedBy(q) /\ owed'[q] = owed[q],
           clash \subseteq clash',
           p \notin clash' => WorkFitsAt(p)'
    PROVE  WorkFits'
<1> SUFFICES ASSUME NEW q \in Names \ clash', q # p PROVE WorkFitsAt(q)'
  BY DEF WorkFits
<1>1. WorkFitsAt(q)
  BY DEF CatalogInv, WorkFits
<1>2. \A d \in Clerks \ {c} : work'[d] = work[d]
  BY DEF CatalogInv, CatalogFits
<1>3. c \notin Catalog!Busy(q) /\ c \notin Catalog!Busy(q)'
  BY DEF Catalog!Busy, CatalogInv, CatalogFits
<1>4. Catalog!Busy(q)' = Catalog!Busy(q)
  BY <1>2, <1>3 DEF Catalog!Busy
<1>5. \A d \in Catalog!Busy(q) : work'[d] = work[d]
  BY <1>2, <1>3 DEF Catalog!Busy
<1> QED
  BY <1>1, <1>4, <1>5 DEF WorkFitsAt, OffersWhole

\* Who is busy with a provider, after a step of one request for it.
LEMMA BusyAfter ==
    ASSUME CatalogFits, NEW c \in Clerks, NEW p \in Names, NEW w \in Works, w.name = p,
           work' = [work EXCEPT ![c] = w]
    PROVE  /\ work'[c] = w
           /\ \A d \in Catalog!Busy(p)' : d = c \/ d \in Catalog!Busy(p)
           /\ w.at \in {"off", "done"} => c \notin Catalog!Busy(p)'
           /\ w.at \notin {"off", "done"} => c \in Catalog!Busy(p)'
BY DEF Catalog!Busy, CatalogFits

\* What a request writes is of its provider.
LEMMA WorkTyped ==
    ASSUME CatalogFits, NEW c \in Clerks, NEW p \in Names, NEW w \in Works, w.name = p,
           work' = [work EXCEPT ![c] = w], w.todo \subseteq Catalog!Offers(p),
           owed' \in [Names -> SUBSET UNION {Catalog!Offers(q) : q \in Names}],
           components' \subseteq components \cup {<<p, v>> : v \in Catalog!Offers(p)}
    PROVE  CatalogFits'
<1>1. components' \subseteq {x \in Catalog!Offered : x[2] \in Catalog!Offers(x[1])}
  BY DEF CatalogFits, Catalog!Offered
<1>2. \A d \in Clerks : work'[d] = IF d = c THEN w ELSE work[d]
  BY DEF CatalogFits
<1> QED
  BY <1>1, <1>2 DEF CatalogFits, Catalog!Offered

\* A request to register or to delete a provider arrives.
LEMMA AskKeeps ==
    ASSUME CatalogInv, NEW c \in Clerks, NEW p \in Names, NEW kind \in {"register", "delete"},
           Catalog!Ask(c, p, kind)
    PROVE  CatalogInv'
<1> USE DEF Catalog!Ask
<1>0. PICK list \in SUBSET Catalog!Offers(p) : work' = [work EXCEPT ![c] = [at |-> kind, name |-> p, todo |-> list]]
  BY DEF Catalog!Offers
<1>1. PICK w : w = [at |-> kind, name |-> p, todo |-> list]
  OBVIOUS
<1>2. w \in Works /\ w.at = kind /\ w.name = p /\ w.todo \subseteq Catalog!Offers(p)
  BY <1>1 DEF Works
<1>3. work' = [work EXCEPT ![c] = w]
  BY <1>0, <1>1
<1>9. CatalogFits /\ WorkFits /\ components' = components /\ providers' = providers /\ owed' = owed
  BY DEF CatalogInv
<1>4. CatalogFits'
  <2>1. owed' \in [Names -> SUBSET UNION {Catalog!Offers(q) : q \in Names}]
    BY <1>9 DEF CatalogFits
  <2> HIDE DEF Catalog!Ask
  <2> QED
    BY <1>2, <1>3, <1>9, <2>1, WorkTyped
<1>5. ASSUME p \notin clash' PROVE WorkFitsAt(p)'
  <2>1. Catalog!Busy(p) = {} /\ p \notin clash
    BY <1>5
  <2>2. OffersWhole(p)'
    <3>1. OffersWhole(p)
      BY <1>9, <2>1 DEF WorkFits, WorkFitsAt
    <3> QED
      BY <1>9, <3>1 DEF OffersWhole, Catalog!OfferedBy
  <2>3. \A d \in Catalog!Busy(p)' : d = c
    <3>1. \A d \in Catalog!Busy(p)' : d = c \/ d \in Catalog!Busy(p)
      BY <1>2, <1>3, <1>9, BusyAfter
    <3> QED
      BY <2>1, <3>1
  <2>4. work'[c].at \in {"register", "delete"} /\ c \in Catalog!Busy(p)'
    BY <1>2, <1>3, BusyAfter DEF CatalogInv
  <2> QED
    BY <2>2, <2>3, <2>4 DEF WorkFitsAt
<1>6. \A q \in Names \ {p} : Catalog!OfferedBy(q)' = Catalog!OfferedBy(q)
  BY DEF Catalog!OfferedBy
<1>7. WorkFits'
  BY <1>2, <1>3, <1>5, <1>6, OtherProviders
<1> QED
  BY <1>4, <1>7 DEF CatalogInv

\* A request that goes on with its provider.
LEMMA WorkKeeps ==
    ASSUME CatalogInv, NEW c \in Clerks,
           \/ Catalog!ClerkDies(c) \/ Catalog!RegisterFails(c) \/ Catalog!SaveProvider(c) \/ Catalog!SaveComponent(c)
           \/ Catalog!DeleteProvider(c) \/ Catalog!DeleteComponents(c)
    PROVE  CatalogInv'
<1>1. work[c].at \notin {"off", "done"} /\ work[c] \in Works
  BY DEF CatalogInv, CatalogFits, Catalog!ClerkDies, Catalog!RegisterFails, Catalog!SaveProvider, Catalog!SaveComponent,
         Catalog!DeleteProvider, Catalog!DeleteComponents
<1>2. PICK p \in Names : p = work[c].name
  BY <1>1 DEF CatalogInv, CatalogFits
<1>3. c \in Catalog!Busy(p)
  BY <1>1, <1>2 DEF Catalog!Busy
<1>4. ASSUME p \notin clash PROVE Catalog!Busy(p) = {c} /\ WorkFitsAt(p)
  BY <1>3, <1>4 DEF CatalogInv, WorkFits, WorkFitsAt
\* What it is to show of this provider, once it is alone with it.
<1>5. ASSUME NEW w \in Works, w.name = p, work' = [work EXCEPT ![c] = w], w.todo \subseteq Catalog!Offers(p), w.at # "register",
             owed' \in [Names -> SUBSET UNION {Catalog!Offers(q) : q \in Names}],
             components' \subseteq components \cup {<<p, v>> : v \in Catalog!Offers(p)},
             providers' \ {p} = providers \ {p},
             \A q \in Names \ {p} : Catalog!OfferedBy(q)' = Catalog!OfferedBy(q) /\ owed'[q] = owed[q],
             clash \subseteq clash',
             p \notin clash' =>
                /\ w.at = "save" => /\ p \in providers' /\ w.todo \subseteq owed'[p]
                                    /\ owed'[p] \ w.todo \subseteq Catalog!OfferedBy(p)'
                                    /\ Catalog!OfferedBy(p)' \subseteq owed'[p]
                /\ w.at = "forget" => p \notin providers' /\ owed'[p] = {}
                /\ w.at \in {"off", "done"} => OffersWhole(p)'
      PROVE  CatalogInv'
  <2>1. CatalogFits'
    BY <1>5, WorkTyped DEF CatalogInv
  <2>2. ASSUME p \notin clash' PROVE WorkFitsAt(p)'
    <3>0. Catalog!Busy(p) = {c} /\ CatalogFits
      BY <1>4, <1>5, <2>2 DEF CatalogInv
    <3>1. work'[c] = w /\ \A d \in Catalog!Busy(p)' : d = c
      BY <1>5, <3>0, BusyAfter
    <3>2. w.at \notin {"off", "done"} => c \in Catalog!Busy(p)'
      BY <1>5, BusyAfter DEF CatalogInv
    <3> QED
      BY <1>5, <2>2, <3>1, <3>2 DEF WorkFitsAt
  <2>3. WorkFits'
    BY <1>2, <1>5, <2>2, OtherProviders
  <2> QED
    BY <2>1, <2>3 DEF CatalogInv
<1>6. work[c].todo \subseteq Catalog!Offers(p)
  BY <1>1, <1>2 DEF CatalogInv, CatalogFits
<1>12. owed \in [Names -> SUBSET UNION {Catalog!Offers(q) : q \in Names}]
  BY DEF CatalogInv, CatalogFits
<1>7. CASE Catalog!ClerkDies(c) \/ Catalog!RegisterFails(c)
  <2>1. PICK w : w = [work[c] EXCEPT !.at = "done"]
    OBVIOUS
  <2>2. w \in Works /\ w.at = "done" /\ w.name = p /\ w.todo = work[c].todo
    BY <1>1, <1>2, <2>1 DEF Works
  <2>3. /\ work' = [work EXCEPT ![c] = w] /\ providers' = providers /\ components' = components
        /\ clash' = clash \cup {p} /\ owed' = owed
    BY <1>2, <1>7, <2>1 DEF Catalog!ClerkDies, Catalog!RegisterFails, CatalogInv, CatalogFits
  <2>4. \A q \in Names \ {p} : Catalog!OfferedBy(q)' = Catalog!OfferedBy(q)
    BY <2>3 DEF Catalog!OfferedBy
  <2> QED
    BY <1>5, <1>6, <1>12, <2>2, <2>3, <2>4
<1>8. CASE Catalog!SaveProvider(c)
  <2>1. PICK w : w = [work[c] EXCEPT !.at = IF work[c].todo = {} THEN "done" ELSE "save"]
    OBVIOUS
  <2>2. /\ w \in Works /\ w.at \in {"done", "save"} /\ (w.at = "done" => w.todo = {})
        /\ w.name = p /\ w.todo = work[c].todo
    BY <1>1, <1>2, <2>1 DEF Works
  <2>3. /\ work' = [work EXCEPT ![c] = w] /\ providers' = providers \cup {p} /\ components' = components
        /\ clash' = clash /\ owed' = [owed EXCEPT ![p] = @ \cup work[c].todo] /\ work[c].at = "register"
    BY <1>2, <1>8, <2>1 DEF Catalog!SaveProvider, CatalogInv, CatalogFits
  <2>4. \A q \in Names : Catalog!OfferedBy(q)' = Catalog!OfferedBy(q)
    BY <2>3 DEF Catalog!OfferedBy
  <2>5. /\ owed'[p] = owed[p] \cup work[c].todo /\ \A q \in Names \ {p} : owed'[q] = owed[q]
        /\ owed' \in [Names -> SUBSET UNION {Catalog!Offers(q) : q \in Names}]
    BY <1>6, <1>12, <2>3
  <2>6. ASSUME p \notin clash PROVE Catalog!OfferedBy(p) = owed[p]
    BY <1>3, <1>4, <2>3, <2>6 DEF WorkFitsAt, OffersWhole
  <2>7. ASSUME p \notin clash, w.at = "done" PROVE OffersWhole(p)'
    BY <2>2, <2>3, <2>4, <2>5, <2>6, <2>7 DEF OffersWhole
  <2>8. ASSUME p \notin clash
        PROVE  /\ p \in providers' /\ w.todo \subseteq owed'[p]
               /\ owed'[p] \ w.todo \subseteq Catalog!OfferedBy(p)'
               /\ Catalog!OfferedBy(p)' \subseteq owed'[p]
    BY <2>2, <2>3, <2>4, <2>5, <2>6, <2>8
  <2>9. \A q \in Names \ {p} : Catalog!OfferedBy(q)' = Catalog!OfferedBy(q) /\ owed'[q] = owed[q]
    BY <2>4, <2>5
  <2>10. /\ w.todo \subseteq Catalog!Offers(p) /\ w.at \notin {"register", "forget", "off"}
         /\ components' \subseteq components \cup {<<p, v>> : v \in Catalog!Offers(p)}
         /\ providers' \ {p} = providers \ {p} /\ clash' = clash
    BY <1>6, <2>2, <2>3
  <2> QED
    BY <1>5, <2>2, <2>3, <2>5, <2>7, <2>8, <2>9, <2>10
<1>9. CASE Catalog!SaveComponent(c)
  <2>1. PICK v \in work[c].todo :
           /\ components' = components \cup {<<work[c].name, v>>}
           /\ work' = [work EXCEPT ![c].todo = @ \ {v}, ![c].at = IF work[c].todo = {v} THEN "done" ELSE @]
    BY <1>9 DEF Catalog!SaveComponent
  <2>2. PICK w : w = [work[c] EXCEPT !.todo = @ \ {v}, !.at = IF work[c].todo = {v} THEN "done" ELSE @]
    OBVIOUS
  <2>3. w \in Works /\ w.at = (IF work[c].todo = {v} THEN "done" ELSE "save") /\ w.name = p /\ w.todo = work[c].todo \ {v}
    BY <1>1, <1>2, <1>9, <2>2 DEF Works, Catalog!SaveComponent
  <2>4. /\ work' = [work EXCEPT ![c] = w] /\ components' = components \cup {<<p, v>>}
        /\ providers' = providers /\ clash' = clash /\ owed' = owed
    BY <1>2, <1>9, <2>1, <2>2 DEF Catalog!SaveComponent, CatalogInv, CatalogFits
  <2>5. \A q \in Names : Catalog!OfferedBy(q)' = Catalog!OfferedBy(q) \cup (IF q = p THEN {v} ELSE {})
    <3>1. \A x : x \in components' <=> x \in components \/ x = <<p, v>>
      BY <2>4
    <3>2. PICK new : new = <<p, v>>
      OBVIOUS
    <3>3. new[1] = p /\ new[2] = v /\ new \in components'
      BY <3>1, <3>2
    <3> QED
      BY <3>1, <3>2, <3>3 DEF Catalog!OfferedBy
  <2>6. ASSUME p \notin clash
        PROVE  /\ p \in providers /\ work[c].todo \subseteq owed[p]
               /\ owed[p] \ work[c].todo \subseteq Catalog!OfferedBy(p) /\ Catalog!OfferedBy(p) \subseteq owed[p]
    BY <1>3, <1>4, <1>9, <2>6 DEF WorkFitsAt, Catalog!SaveComponent
  <2>7. ASSUME p \notin clash, work[c].todo = {v} PROVE OffersWhole(p)'
    BY <2>4, <2>5, <2>6, <2>7 DEF OffersWhole
  <2>8. w.todo \subseteq Catalog!Offers(p) /\ v \in Catalog!Offers(p) /\ w.at \in {"save", "done"} /\ (w.at = "done" => work[c].todo = {v})
    BY <1>6, <2>3
  <2>9. components' \subseteq components \cup {<<p, u>> : u \in Catalog!Offers(p)}
    BY <2>4, <2>8
  <2>10. p \notin clash => /\ p \in providers' /\ w.todo \subseteq owed'[p]
                           /\ owed'[p] \ w.todo \subseteq Catalog!OfferedBy(p)'
                           /\ Catalog!OfferedBy(p)' \subseteq owed'[p]
    BY <2>3, <2>4, <2>5, <2>6
  <2>11. \A q \in Names \ {p} : Catalog!OfferedBy(q)' = Catalog!OfferedBy(q) /\ owed'[q] = owed[q]
    BY <2>4, <2>5
  <2> QED
    BY <1>5, <1>12, <2>3, <2>4, <2>7, <2>8, <2>9, <2>10, <2>11
<1>10. CASE Catalog!DeleteProvider(c)
  <2>1. PICK w : w = [work[c] EXCEPT !.at = "forget"]
    OBVIOUS
  <2>2. w \in Works /\ w.at = "forget" /\ w.name = p /\ w.todo = work[c].todo
    BY <1>1, <1>2, <2>1 DEF Works
  <2>3. /\ work' = [work EXCEPT ![c] = w] /\ providers' = providers \ {p} /\ components' = components
        /\ clash' = clash /\ owed' = [owed EXCEPT ![p] = {}]
    BY <1>2, <1>10, <2>1 DEF Catalog!DeleteProvider, CatalogInv, CatalogFits
  <2>4. \A q \in Names : Catalog!OfferedBy(q)' = Catalog!OfferedBy(q)
    BY <2>3 DEF Catalog!OfferedBy
  <2>5. /\ owed'[p] = {} /\ \A q \in Names \ {p} : owed'[q] = owed[q]
        /\ owed' \in [Names -> SUBSET UNION {Catalog!Offers(q) : q \in Names}]
    BY <1>12, <2>3
  <2> QED
    BY <1>5, <1>6, <2>2, <2>3, <2>4, <2>5
<1>11. CASE Catalog!DeleteComponents(c)
  <2>1. PICK w : w = [work[c] EXCEPT !.at = "done"]
    OBVIOUS
  <2>2. w \in Works /\ w.at = "done" /\ w.name = p /\ w.todo = work[c].todo
    BY <1>1, <1>2, <2>1 DEF Works
  <2>3. /\ work' = [work EXCEPT ![c] = w] /\ providers' = providers /\ clash' = clash /\ owed' = owed
        /\ components' = {x \in components : x[1] # p}
    BY <1>2, <1>11, <2>1 DEF Catalog!DeleteComponents, CatalogInv, CatalogFits
  <2>4. \A q \in Names : Catalog!OfferedBy(q)' = IF q = p THEN {} ELSE Catalog!OfferedBy(q)
    BY <2>3 DEF Catalog!OfferedBy
  <2>5. ASSUME p \notin clash PROVE OffersWhole(p)'
    BY <1>3, <1>4, <1>11, <2>3, <2>4, <2>5 DEF OffersWhole, WorkFitsAt, Catalog!DeleteComponents
  <2> QED
    BY <1>5, <1>6, <1>12, <2>2, <2>3, <2>4, <2>5
<1> QED
  BY <1>7, <1>8, <1>9, <1>10, <1>11
-----------------------------------------------------------------------------
(* The inheritance (JobInheritance): loaded in parts, whole in the end.        *)

\* What the rows, the calls and the cleaning can be.
LoadPlaces == {"off", "tracking", "model", "metric", "status", "end", "failed", "done", "gone"}
Loadings == [at : LoadPlaces, version : Versions, status : TaskStatus \cup {"none"}]

InheritanceTyped ==
    /\ source \in [there : BOOLEAN, version : Versions, status : TaskStatus]
    /\ target \in [job : {"none", "asked", "refused"} \cup JobStatus, task : TaskStatus]
    /\ load \in [Loaders -> Loadings]
    /\ clean \in [at : {"off", "metric", "data", "model", "rows"}, job : {"none", "source", "target"},
                  version : Versions]
    /\ model \in Nat /\ (model <= source.version \/ model = NoModel)

\* Before the job is let in, nothing is inherited.
NothingYet ==
    target.job \in {"none", "asked"} =>
        /\ target.task = WAITING
        /\ \A l \in Loaders : load[l].at = "off"
        /\ \A v \in Versions : <<"target", v>> \notin tracked

\* A source that was not cleaned is there, with the outputs of the version that succeeded.
SourceWhole ==
    /\ clean.at # "off" => "cleaned" \in touched
    /\ "cleaned" \notin touched =>
          /\ source.there /\ source.status \in {RUNNING, FAILED, SUCCESS}
          /\ source.status # FAILED /\ model = source.version =>
                /\ source.version \in tables /\ "source" \in metas
                /\ <<"source", source.version>> \in tracked /\ <<"source", source.version>> \in metrics
          /\ source.status = SUCCESS => model = source.version

\* What a call of start_job has loaded when it is at the next part.
Loaded(r) ==
    /\ r.at # "off" => r.version = source.version /\ r.status = SUCCESS
    /\ r.at \in {"model", "metric", "status", "end"} => <<"target", source.version>> \in tracked
    /\ r.at \in {"metric", "status", "end"} => "target" \in metas
    /\ r.at \in {"status", "end"} => <<"target", source.version>> \in metrics

\* Since the check the source is as it was, and each call has loaded the parts before its
\* place, from the version that is still the latest.
TargetLoaded ==
    touched = {} =>
        /\ source.status = SUCCESS
        /\ \A v \in Versions : <<"target", v>> \in tracked => v = source.version
        /\ \A l \in Loaders : Loaded(load[l])
        /\ target.task = SUCCESS =>
              /\ <<"target", source.version>> \in tracked /\ "target" \in metas
              /\ <<"target", source.version>> \in metrics

InheritanceInv == InheritanceTyped /\ NothingYet /\ SourceWhole /\ TargetLoaded

\* The source has succeeded once, and the target is not there.
LEMMA InheritanceInitially == InheritanceInit => InheritanceInv
<1> SUFFICES ASSUME InheritanceInit PROVE InheritanceInv
  OBVIOUS
<1> USE InheritanceAssumption DEF InheritanceInit
<1>0. 0 \in Versions
  BY DEF Versions
<1>1. InheritanceTyped
  BY <1>0 DEF InheritanceTyped, Loadings, LoadPlaces, TaskStatus, JobStatus, SUCCESS, WAITING, NoModel
<1>2. NothingYet
  BY DEF NothingYet
<1>3. SourceWhole
  BY DEF SourceWhole
<1>4. TargetLoaded
  BY DEF TargetLoaded, Loaded, SUCCESS, WAITING
<1> QED
  BY <1>1, <1>2, <1>3, <1>4 DEF InheritanceInv

\* What the source does.
LEMMA SourceKeeps ==
    ASSUME InheritanceInv, Rerun \/ Output \/ Ends
    PROVE  InheritanceInv'
<1> USE InheritanceAssumption DEF InheritanceInv, outputVars
<1>0. source.version \in Nat
  BY DEF InheritanceTyped, Versions
<1>1. CASE Rerun
  <2>1. InheritanceTyped'
    BY <1>1, <1>0 DEF Rerun, InheritanceTyped, Versions, NoModel, TaskStatus, RUNNING
  <2>2. NothingYet'
    BY <1>1 DEF Rerun, NothingYet
  <2>3. SourceWhole'
    BY <1>1, <1>0 DEF Rerun, SourceWhole, InheritanceTyped, NoModel, RUNNING, SUCCESS
  <2>4. TargetLoaded'
    BY <1>1 DEF Rerun, TargetLoaded
  <2> QED
    BY <2>1, <2>2, <2>3, <2>4
<1>2. CASE Output
  <2>1. InheritanceTyped'
    BY <1>2, <1>0 DEF Output, InheritanceTyped
  <2>2. NothingYet'
    BY <1>2 DEF Output, NothingYet
  <2>3. SourceWhole'
    BY <1>2 DEF Output, SourceWhole
  <2>4. TargetLoaded'
    BY <1>2 DEF Output, TargetLoaded, RUNNING, SUCCESS
  <2> QED
    BY <2>1, <2>2, <2>3, <2>4
<1>3. CASE Ends
  <2>0. PICK st \in {FAILED} \cup (IF model = source.version THEN {SUCCESS} ELSE {}) :
           source' = [source EXCEPT !.status = st]
    BY <1>3, Zenon DEF Ends
  <2>6. st \in {FAILED, SUCCESS} /\ (st = SUCCESS => model = source.version)
    BY DEF FAILED, SUCCESS
  <2>5. source' \in [there : BOOLEAN, version : Versions, status : TaskStatus]
        /\ source'.there = source.there /\ source'.version = source.version /\ source'.status = st
    BY <2>0, <2>6 DEF InheritanceTyped, TaskStatus
  <2>1. InheritanceTyped'
    BY <1>3, <2>5 DEF Ends, InheritanceTyped
  <2>2. NothingYet'
    BY <1>3 DEF Ends, NothingYet
  <2>3. SourceWhole'
    BY <1>3, <2>6, <2>5 DEF Ends, SourceWhole, RUNNING, SUCCESS, FAILED
  <2>4. TargetLoaded'
    BY <1>3 DEF Ends, TargetLoaded, RUNNING, SUCCESS
  <2> QED
    BY <2>1, <2>2, <2>3, <2>4
<1> QED
  BY <1>1, <1>2, <1>3

\* The target until it is let in.
LEMMA TargetKeeps ==
    ASSUME InheritanceInv, Submit \/ Create \/ Refuse
    PROVE  InheritanceInv'
<1> USE InheritanceAssumption DEF InheritanceInv, outputVars
<1>1. \E place \in {"asked", "refused", WAITING} :
         /\ target' = [target EXCEPT !.job = place]
         /\ target.job \in {"none", "asked"}
  BY Zenon DEF Submit, Create, Refuse
<1>2. PICK place \in {"asked", "refused", WAITING} :
         /\ target' = [target EXCEPT !.job = place]
         /\ target.job \in {"none", "asked"}
  BY <1>1
<1>3. target' \in [job : {"none", "asked", "refused"} \cup JobStatus, task : TaskStatus]
      /\ target'.task = target.task /\ target'.job = place
  BY <1>2 DEF InheritanceTyped, JobStatus
<1>4. UNCHANGED <<source, outputVars, load, clean>> /\ touched' \subseteq touched
      /\ ("cleaned" \in touched' <=> "cleaned" \in touched)
      /\ (touched' # touched => source.status \in {SUCCESS, PASS})
  BY DEF Submit, Create, Refuse
<1>5. InheritanceTyped'
  BY <1>3, <1>4 DEF InheritanceTyped
<1>6. NothingYet'
  BY <1>2, <1>3, <1>4 DEF NothingYet
<1>7. SourceWhole'
  BY <1>4 DEF SourceWhole
<1>8. TargetLoaded'
  BY <1>2, <1>3, <1>4 DEF TargetLoaded, NothingYet, SourceWhole, Loaded, WAITING, SUCCESS, PASS, RUNNING, FAILED
<1> QED
  BY <1>5, <1>6, <1>7, <1>8

\* A call of start_job.
LEMMA StartKeeps ==
    ASSUME InheritanceInv, NEW l \in Loaders, Start(l)
    PROVE  InheritanceInv'
<1> USE InheritanceAssumption DEF InheritanceInv, outputVars, Start
<1>1. PICK r : r = [at |-> "tracking", version |-> source.version,
                    status |-> IF source.there THEN source.status ELSE "none"]
  OBVIOUS
<1>2. /\ r \in Loadings /\ r.at = "tracking" /\ r.version = source.version
      /\ r.status = IF source.there THEN source.status ELSE "none"
  BY <1>1 DEF Loadings, LoadPlaces, InheritanceTyped
<1>3. load' = [load EXCEPT ![l] = r] /\ UNCHANGED <<source, outputVars, target, clean, touched>>
  BY <1>1
<1>4. load' \in [Loaders -> Loadings] /\ \A m \in Loaders : load'[m] = IF m = l THEN r ELSE load[m]
  BY <1>2, <1>3 DEF InheritanceTyped
<1> HIDE DEF Start
<1>5. InheritanceTyped'
  BY <1>3, <1>4 DEF InheritanceTyped
<1>6. NothingYet'
  BY <1>3 DEF Start, NothingYet
<1>7. SourceWhole'
  BY <1>3 DEF SourceWhole
<1>8. TargetLoaded'
  BY <1>2, <1>3, <1>4 DEF TargetLoaded, Loaded, SourceWhole, SUCCESS
<1> QED
  BY <1>5, <1>6, <1>7, <1>8

\* The call, at place r.at, whatever becomes of it.
LEMMA LoaderMoves ==
    ASSUME InheritanceTyped, NEW l \in Loaders, NEW place \in LoadPlaces, load' = [load EXCEPT ![l].at = place]
    PROVE  /\ load' \in [Loaders -> Loadings]
           /\ load'[l].at = place /\ load'[l].version = load[l].version /\ load'[l].status = load[l].status
           /\ \A m \in Loaders \ {l} : load'[m] = load[m]
BY DEF InheritanceTyped, Loadings, LoadPlaces

\* A part is loaded, or fails, or start_job answers.
LEMMA LoadKeeps ==
    ASSUME InheritanceInv, NEW l \in Loaders,
           LoadTracking(l) \/ LoadModelMeta(l) \/ LoadMetric(l) \/ LoadStatus(l) \/ LoadFails(l) \/ Answer(l)
    PROVE  InheritanceInv'
<1> USE InheritanceAssumption DEF InheritanceInv, outputVars
<1>0. PICK place \in {"model", "metric", "status", "end", "failed", "done", "gone"} :
         load' = [load EXCEPT ![l].at = place]
  BY DEF LoadTracking, LoadModelMeta, LoadMetric, LoadStatus, LoadFails, Answer, Loads, After
<1>1. /\ load' \in [Loaders -> Loadings]
      /\ load'[l].at = place /\ load'[l].version = load[l].version /\ load'[l].status = load[l].status
      /\ \A m \in Loaders \ {l} : load'[m] = load[m]
  BY <1>0, LoaderMoves DEF LoadPlaces
<1>2. load[l].at # "off" /\ UNCHANGED <<source, tables, model, clean, touched>>
  BY DEF LoadTracking, LoadModelMeta, LoadMetric, LoadStatus, LoadFails, Answer, Loads, After
<1>3. target.job \notin {"none", "asked"}
  BY <1>2 DEF NothingYet
<1>4. /\ target' \in [job : {"none", "asked", "refused"} \cup JobStatus, task : TaskStatus]
      /\ target'.job \notin {"none", "asked"}
  <2>1. CASE LoadStatus(l)
    <3>1. target' = [target EXCEPT !.task = load[l].status] \/ target' = target
      BY <2>1 DEF LoadStatus
    <3>2. TaskMayBecome(target.task, load[l].status) => load[l].status \in TaskStatus
      BY DEF TaskMayBecome, TaskRules, TaskStatus
    <3>3. target' = target \/ (target' = [target EXCEPT !.task = load[l].status] /\ load[l].status \in TaskStatus)
      BY <2>1, <3>2 DEF LoadStatus
    <3> QED
      BY <1>3, <3>3 DEF InheritanceTyped
  <2>2. CASE Answer(l)
    <3>1. target' = target \/ \E st \in {RUNNING, FAILED} : target' = [target EXCEPT !.job = st]
      BY <2>2, Zenon DEF Answer
    <3>2. \A st \in {RUNNING, FAILED} : st \in JobStatus /\ st \notin {"none", "asked"}
      BY DEF JobStatus, RUNNING, FAILED
    <3> QED
      BY <1>3, <3>1, <3>2 DEF InheritanceTyped
  <2>3. CASE target' = target
    BY <1>3, <2>3 DEF InheritanceTyped
  <2> QED
    BY <2>1, <2>2, <2>3 DEF LoadTracking, LoadModelMeta, LoadMetric, LoadFails
<1>5. InheritanceTyped'
  BY <1>1, <1>2, <1>4 DEF InheritanceTyped
<1>6. NothingYet'
  BY <1>4 DEF NothingYet
<1>7. tracked \subseteq tracked' /\ metas \subseteq metas' /\ metrics \subseteq metrics'
  BY DEF LoadTracking, LoadModelMeta, LoadMetric, LoadStatus, LoadFails, Answer, Loads
<1>8. SourceWhole'
  BY <1>2, <1>7 DEF SourceWhole
<1>9. TargetLoaded'
  <2> SUFFICES ASSUME touched = {} PROVE TargetLoaded'
    BY <1>2 DEF TargetLoaded
  <2>1. /\ source.status = SUCCESS /\ \A m \in Loaders : Loaded(load[m])
        /\ \A v \in Versions : <<"target", v>> \in tracked => v = source.version
    BY DEF TargetLoaded
  <2>2. /\ "source" \in metas /\ <<"source", source.version>> \in tracked /\ <<"source", source.version>> \in metrics
    BY <2>1 DEF SourceWhole, SUCCESS, FAILED
  <2>3. load[l].version = source.version /\ load[l].status = SUCCESS /\ load[l].status # "none"
    BY <1>2, <2>1 DEF Loaded, SUCCESS
  <2>4. \A m \in Loaders \ {l} : Loaded(load[m])'
    BY <1>1, <1>2, <1>7, <2>1 DEF Loaded
  <2>5. CASE LoadTracking(l)
    <3>1. load' = [load EXCEPT ![l].at = "model"] /\ UNCHANGED <<metas, metrics, target>>
      BY <2>5 DEF LoadTracking, Loads, After
    <3>2. place = "model"
      BY <1>1, <3>1 DEF InheritanceTyped, Loadings
    <3>3. tracked' = tracked \cup {<<"target", x[2]>> : x \in {<<"source", source.version>>} \cap tracked}
      BY <2>3, <2>5 DEF LoadTracking, Found
    <3>4. tracked' = tracked \cup {<<"target", source.version>>}
      BY <2>2, <3>3
    <3> QED
      BY <1>1, <1>2, <2>1, <2>3, <2>4, <3>1, <3>2, <3>4 DEF TargetLoaded, Loaded
  <2>6. CASE LoadModelMeta(l)
    <3>1. load' = [load EXCEPT ![l].at = "metric"] /\ load[l].at = "model" /\ UNCHANGED <<tracked, metrics, target>>
      BY <2>6 DEF LoadModelMeta, Loads, After
    <3>2. place = "metric"
      BY <1>1, <3>1 DEF InheritanceTyped, Loadings
    <3>3. metas' = metas \cup {"target"}
      BY <2>2, <2>3, <2>6 DEF LoadModelMeta, Found
    <3> QED
      BY <1>1, <1>2, <2>1, <2>3, <2>4, <3>1, <3>2, <3>3 DEF TargetLoaded, Loaded
  <2>7. CASE LoadMetric(l)
    <3>1. load' = [load EXCEPT ![l].at = "status"] /\ load[l].at = "metric" /\ UNCHANGED <<tracked, metas, target>>
      BY <2>7 DEF LoadMetric, Loads, After
    <3>2. place = "status"
      BY <1>1, <3>1 DEF InheritanceTyped, Loadings
    <3>4. metrics' = metrics \cup {<<"target", x[2]>> : x \in {<<"source", source.version>>} \cap metrics}
      BY <2>3, <2>7 DEF LoadMetric, Found
    <3>3. metrics' = metrics \cup {<<"target", source.version>>}
      BY <2>2, <3>4
    <3> QED
      BY <1>1, <1>2, <2>1, <2>3, <2>4, <3>1, <3>2, <3>3 DEF TargetLoaded, Loaded
  <2>8. CASE LoadStatus(l)
    <3>1. load' = [load EXCEPT ![l].at = "end"] /\ load[l].at = "status" /\ UNCHANGED <<tracked, metas, metrics>>
      BY <2>8 DEF LoadStatus, Loads, After
    <3>2. place = "end"
      BY <1>1, <3>1 DEF InheritanceTyped, Loadings
    <3>3. <<"target", source.version>> \in tracked /\ "target" \in metas /\ <<"target", source.version>> \in metrics
      BY <2>1, <3>1 DEF Loaded
    <3> QED
      BY <1>1, <1>2, <2>1, <2>3, <2>4, <3>1, <3>2, <3>3 DEF TargetLoaded, Loaded
  <2>9. CASE LoadFails(l) \/ Answer(l)
    <3>1. UNCHANGED <<tracked, metas, metrics>> /\ \E q \in {"failed", "done", "gone"} : load' = [load EXCEPT ![l].at = q]
      BY <2>9 DEF LoadFails, Answer
    <3>2. place \in {"failed", "done", "gone"}
      BY <1>1, <3>1 DEF InheritanceTyped, Loadings
    <3>4. target' = target \/ \E st \in {RUNNING, FAILED} : target' = [target EXCEPT !.job = st]
      BY <2>9, Zenon DEF Answer, LoadFails
    <3>3. target'.task = target.task
      BY <3>4 DEF InheritanceTyped
    <3> QED
      BY <1>1, <1>2, <2>1, <2>3, <2>4, <3>1, <3>2, <3>3 DEF TargetLoaded, Loaded
  <2> QED
    BY <2>5, <2>6, <2>7, <2>8, <2>9
<1> QED
  BY <1>5, <1>6, <1>8, <1>9

\* Cleaning, of either job, is remembered until the end.
LEMMA CleanKeeps ==
    ASSUME InheritanceInv,
           \/ \E j \in {"source", "target"} : CleanStart(j)
           \/ CleanMetric \/ CleanData \/ CleanModel \/ CleanRows
    PROVE  InheritanceInv'
<1> USE InheritanceAssumption DEF InheritanceInv, outputVars, Cleans
<1>1. "cleaned" \in touched' /\ load' = load
  BY DEF CleanStart, CleanMetric, CleanData, CleanModel, CleanRows, SourceWhole
<1>2. SourceWhole' /\ TargetLoaded'
  BY <1>1 DEF SourceWhole, TargetLoaded
<1>3. InheritanceTyped' /\ (target'.job \in {"none", "asked"} => target' = target /\ tracked' = tracked)
  <2>1. ASSUME NEW j \in {"source", "target"}, CleanStart(j)
        PROVE  InheritanceTyped' /\ (target'.job \in {"none", "asked"} => target' = target /\ tracked' = tracked)
    <3>1. clean' = [at |-> "metric", job |-> j, version |-> IF j = "source" THEN source.version ELSE 0]
          /\ UNCHANGED outputVars
      BY <2>1 DEF CleanStart
    <3>2. 0 \in Versions /\ source.version \in Versions
      BY DEF Versions, InheritanceTyped
    <3>3. clean' \in [at : {"off", "metric", "data", "model", "rows"}, job : {"none", "source", "target"},
                      version : Versions]
      BY <3>1, <3>2
    <3>4. source' = source \/ source' = [source EXCEPT !.status = CANCELED]
      BY <2>1 DEF CleanStart
    <3>5. source' \in [there : BOOLEAN, version : Versions, status : TaskStatus] /\ source'.version = source.version
      BY <3>4 DEF InheritanceTyped, TaskStatus
    <3>6. target' = target \/ target' = [target EXCEPT !.job = CANCELED]
      BY <2>1 DEF CleanStart
    <3>7. target' \in [job : {"none", "asked", "refused"} \cup JobStatus, task : TaskStatus]
          /\ (target' = target \/ target'.job = CANCELED)
      BY <3>6 DEF InheritanceTyped, JobStatus
    <3> QED
      BY <1>1, <3>1, <3>3, <3>5, <3>7 DEF InheritanceTyped, CANCELED
  <2>2. CASE CleanMetric \/ CleanData \/ CleanModel
    <3>1. UNCHANGED <<source, target>> /\ model' \in {model, NoModel} /\ tracked' = tracked
      BY <2>2 DEF CleanMetric, CleanData, CleanModel
    <3>2. \E part \in {"data", "model", "rows"} : clean' = [clean EXCEPT !.at = part]
      BY <2>2 DEF CleanMetric, CleanData, CleanModel
    <3>3. clean' \in [at : {"off", "metric", "data", "model", "rows"}, job : {"none", "source", "target"},
                      version : Versions]
      BY <3>2 DEF InheritanceTyped
    <3> QED
      BY <1>1, <3>1, <3>3 DEF InheritanceTyped, NoModel
  <2>3. CASE CleanRows
    <3>1. clean' = [clean EXCEPT !.at = "off"] /\ UNCHANGED outputVars
          /\ (target' = target \/ target' = [job |-> "refused", task |-> WAITING])
          /\ (source' = source \/ source' = [source EXCEPT !.there = FALSE])
      BY <2>3 DEF CleanRows
    <3>2. clean' \in [at : {"off", "metric", "data", "model", "rows"}, job : {"none", "source", "target"},
                      version : Versions]
      BY <3>1 DEF InheritanceTyped
    <3>3. target' \in [job : {"none", "asked", "refused"} \cup JobStatus, task : TaskStatus]
          /\ (target' = target \/ target'.job = "refused")
      BY <3>1 DEF InheritanceTyped, TaskStatus
    <3>4. source' \in [there : BOOLEAN, version : Versions, status : TaskStatus] /\ source'.version = source.version
      BY <3>1 DEF InheritanceTyped
    <3> QED
      BY <1>1, <3>1, <3>2, <3>3, <3>4 DEF InheritanceTyped
  <2> QED
    BY <2>1, <2>2, <2>3
<1>4. NothingYet'
  BY <1>1, <1>3 DEF NothingYet
<1> QED
  BY <1>2, <1>3, <1>4

\* The server dies with the calls that load and with the cleaning.
LEMMA PartyDiesKeeps ==
    ASSUME InheritanceInv, PartyDies
    PROVE  InheritanceInv'
<1> USE InheritanceAssumption DEF InheritanceInv, outputVars, PartyDies
<1>1. \A l \in Loaders : /\ load'[l] \in Loadings
                         /\ load[l].at = "off" => load'[l] = load[l]
                         /\ load[l].at # "off" => /\ load'[l].at = "done" /\ load'[l].version = load[l].version
                                                  /\ load'[l].status = load[l].status
  BY DEF InheritanceTyped, Loadings, LoadPlaces
<1>2. clean' \in [at : {"off", "metric", "data", "model", "rows"}, job : {"none", "source", "target"},
                  version : Versions]
      /\ clean'.at = "off"
  BY DEF InheritanceTyped
<1>3. InheritanceTyped'
  BY <1>1, <1>2 DEF InheritanceTyped
<1>4. NothingYet'
  BY <1>1 DEF NothingYet
<1>5. SourceWhole'
  BY <1>2 DEF SourceWhole
<1>6. TargetLoaded'
  <2>1. UNCHANGED <<source, tracked, metas, metrics, target, touched>>
    OBVIOUS
  <2> HIDE DEF PartyDies
  <2> QED
    BY <1>1, <2>1 DEF TargetLoaded, Loaded
<1> QED
  BY <1>3, <1>4, <1>5, <1>6

\* Steps of the rest of the site leave the inheritance alone.
LEMMA InheritanceStutters ==
    ASSUME InheritanceInv, UNCHANGED inheritanceVars
    PROVE  InheritanceInv'
BY DEF InheritanceInv, inheritanceVars, outputVars, InheritanceTyped, NothingYet, SourceWhole, TargetLoaded, Loaded

\* What the calls have loaded is all that the source has.
LEMMA WholeFromInv == InheritanceInv => InheritedWhole
<1> SUFFICES ASSUME InheritanceInv, target.task = SUCCESS, touched = {} PROVE InheritedWhole
  BY DEF InheritedWhole
<1>1. source.version \in Versions
  BY DEF InheritanceInv, InheritanceTyped
<1>2. SourceWhole /\ TargetLoaded
  BY DEF InheritanceInv
<1> QED
  BY <1>1, <1>2 DEF SourceWhole, TargetLoaded, InheritedWhole, SUCCESS, FAILED

-----------------------------------------------------------------------------
(* The site.                                                                   *)

\* While the job asks, no thread has a component of which it is not remembered that it was
\* granted: not in the copy that it has yet to put in, and once the job's thread has emptied
\* the memory for its check, not in that memory.
Remembered ==
    /\ granted \subseteq seen
    /\ \A t \in Rights!Threads : grantLoad[t].copy \subseteq seen
    /\ grantLoad[Rights!Job].at = "filling" => held[desk] \subseteq seen

CheckedSinceAsked ==
    /\ desk \in Servers
    /\ target.job = "none" => grantLoad[Rights!Job] = Rights!GrantRules!Idle
    /\ target.job = "asked" => needs \ todo \subseteq seen /\ Remembered
    /\ AllowedSinceAsked

SiteInv == RightsInv /\ CatalogInv /\ CheckedSinceAsked /\ InheritanceInv

\* Other steps leave the roles and permissions alone.
LEMMA RightsStutter == ASSUME RightsInv, UNCHANGED permissionVars PROVE RightsInv'
<1>1. UNCHANGED <<rows, known, roleLoad, apps, call, excused, granted, held, grantLoad>>
  BY DEF permissionVars
<1>2. granted \subseteq Values /\ held \in [Servers -> SUBSET Values] /\ grantLoad \in [Rights!Threads -> LoadsOf(Values)]
  BY DEF RightsInv, LoadsFit, Rights!PermissionTypeOK, Values
<1> QED
  BY <1>1, <1>2, GrantsChange

\* Other steps leave the providers alone.
LEMMA CatalogStutters == ASSUME CatalogInv, UNCHANGED providerVars PROVE CatalogInv'
BY DEF CatalogInv, providerVars, CatalogFits, WorkFits, WorkFitsAt, OffersWhole, Catalog!Busy, Catalog!OfferedBy

\* A server dies, and with it the job's request if the job asks there.
LEMMA DiesKeeps ==
    ASSUME RightsInv, NEW s \in Servers, Dies(s)
    PROVE  RightsInv'
<1>1. Rights!ServerDies(s, {Rights!Job}) \/ Rights!ServerDies(s, {})
  BY DEF Dies
<1>2. {Rights!Job} \in SUBSET {Rights!Job} /\ {} \in SUBSET {Rights!Job}
  OBVIOUS
<1> QED
  BY <1>1, <1>2, ServerDiesKeeps

\* A request of an administrator, or what is left of one.
LEMMA RightsStep ==
    ASSUME RightsInv, CatalogInv, Administer
    PROVE  RightsInv'
<1>1. ASSUME NEW c \in Callers, NEW s \in Servers, Roles(c, s) PROVE RightsInv'
  BY <1>1, RoleRequestComes, OtherRequestComes DEF Roles
<1>2. ASSUME NEW c \in Callers, NEW s \in Servers, Grants(c, s) PROVE RightsInv'
  <2>1. Catalog!Registered \subseteq Values
    BY ListedAreOffered DEF CatalogInv, Values
  <2>2. PICK kind \in {"give", "take", "takeAll"}, values \in SUBSET Values :
           Rights!Change(c, s, kind, values, Catalog!Registered)
    BY <1>2, <2>1, Zenon DEF Grants, Rights!Change
  <2> QED
    BY <2>2, OtherRequestComes
<1>3. CASE Rights!PermissionStep
  <2>1. PICK c \in Callers :
           \/ Rights!LoadRoles(c) \/ Rights!GetRoles(c) \/ Rights!CheckDelete(c) \/ Rights!Delete(c)
           \/ Rights!CheckAdd(c) \/ Rights!Add(c) \/ Rights!DropApp(c) \/ Rights!Authenticated(c)
           \/ Rights!LoadGrants(c) \/ Rights!GrantComponent(c) \/ Rights!RevokeComponent(c) \/ Rights!RevokeAll(c)
    BY <1>3, Zenon DEF Rights!PermissionStep
  <2> QED
    BY <2>1, LoadRolesKeeps, GetRolesKeeps, CheckDeleteKeeps, DeleteKeeps, CheckAddKeeps, AddKeeps, DropKeeps,
       ComponentsKeep
<1> QED
  BY <1>1, <1>2, <1>3, DiesKeeps DEF Administer

\* The thread of the job asks the memory, and changes nothing but it.
LEMMA JobChecks ==
    ASSUME RightsInv, desk \in Servers, LoadRules \/ \E v \in Wanted : CheckComponent(v)
    PROVE  RightsInv'
<1>1. Rights!Job \in Rights!Threads
  BY DEF Rights!Threads
<1>2. CASE LoadRules
  <2>1. UNCHANGED <<rows, known, roleLoad, apps, call, excused>> /\ Rights!GrantRules!Load(Rights!Job, desk)
    BY <1>2 DEF LoadRules
  <2>2. granted \subseteq Values
    BY DEF RightsInv, Rights!PermissionTypeOK, Values
  <2> QED
    BY <1>1, <2>1, <2>2, GrantsLoad, GrantsChange
<1>3. ASSUME NEW v \in Wanted, CheckComponent(v) PROVE RightsInv'
  <2>1. granted' \subseteq Values /\ held' \in [Servers -> SUBSET Values]
    BY <1>3 DEF CheckComponent, RightsInv, Rights!PermissionTypeOK, Values
  <2> QED
    BY <1>1, <1>3, <2>1, GrantsRead, GrantsChange DEF CheckComponent
<1> QED
  BY <1>2, <1>3

\* A request about providers, or what is left of one.
LEMMA CatalogStep ==
    ASSUME CatalogInv, Provide
    PROVE  CatalogInv'
<1>1. ASSUME NEW c \in Clerks, NEW p \in Names, NEW kind \in {"register", "delete"}, Catalog!Ask(c, p, kind)
      PROVE  CatalogInv'
  BY <1>1, AskKeeps
<1>2. PICK c \in Clerks :
         \/ \E p \in Names, kind \in {"register", "delete"} : Catalog!Ask(c, p, kind)
         \/ Catalog!ClerkDies(c) \/ Catalog!RegisterFails(c) \/ Catalog!SaveProvider(c) \/ Catalog!SaveComponent(c)
         \/ Catalog!DeleteProvider(c) \/ Catalog!DeleteComponents(c)
  BY Zenon DEF Provide, Catalog!ProviderStep
<1> QED
  BY <1>1, <1>2, WorkKeeps

\* A step of the two jobs at this party.
LEMMA InheritanceStepKeeps ==
    ASSUME InheritanceInv, Inherit
    PROVE  InheritanceInv'
BY SourceKeeps, StartKeeps, LoadKeeps, CleanKeeps, PartyDiesKeeps DEF Inherit, InheritanceStep

\* A thread loads what is granted: what was, since its copy was selected, is remembered.
LEMMA LoadRemembers ==
    ASSUME RightsInv, NEW t \in Rights!Threads, NEW s \in Servers, t = Rights!Job => s = desk, desk \in Servers,
           Rights!GrantRules!Load(t, s), Remembered, seen \subseteq seen', desk' = desk
    PROVE  Remembered'
<1>0. /\ Rights!Job \in Rights!Threads /\ held \in [Servers -> SUBSET Values]
      /\ grantLoad \in [Rights!Threads -> LoadsOf(Values)]
  BY DEF Rights!Threads, RightsInv, LoadsFit, Rights!PermissionTypeOK, Values
<1>1. CASE Rights!GrantRules!Select(t)
  BY <1>0, <1>1 DEF Remembered, Rights!GrantRules!Select, LoadsOf
<1>2. CASE Rights!GrantRules!Clear(t, s)
  <2>1. PICK m \in LoadsOf(Values) : m = [grantLoad[t] EXCEPT !.at = "filling"]
    BY <1>0 DEF LoadsOf
  <2>2. m.copy = grantLoad[t].copy /\ grantLoad' = [grantLoad EXCEPT ![t] = m]
    BY <1>0, <1>2, <2>1 DEF Rights!GrantRules!Clear, LoadsOf
  <2>3. grantLoad'[Rights!Job].at = "filling" => held'[desk] \subseteq seen'
    BY <1>0, <1>2, <2>2 DEF Remembered, Rights!GrantRules!Clear
  <2>4. \A u \in Rights!Threads : grantLoad'[u].copy = grantLoad[u].copy
    BY <1>0, <2>2
  <2>5. granted' = granted
    BY <1>2 DEF Rights!GrantRules!Clear
  <2> QED
    BY <2>3, <2>4, <2>5 DEF Remembered
<1>3. CASE Rights!GrantRules!Line(t, s)
  <2>1. PICK l \in grantLoad[t].copy : /\ grantLoad' = [grantLoad EXCEPT ![t].copy = @ \ {l}]
                                       /\ held' = [held EXCEPT ![s] = @ \cup {l}] /\ granted' = granted
    BY <1>3 DEF Rights!GrantRules!Line
  <2>2. PICK m \in LoadsOf(Values) : m = [grantLoad[t] EXCEPT !.copy = @ \ {l}]
    BY <1>0 DEF LoadsOf
  <2>3. m.copy \subseteq grantLoad[t].copy /\ m.at = grantLoad[t].at /\ grantLoad' = [grantLoad EXCEPT ![t] = m]
    BY <1>0, <2>1, <2>2 DEF LoadsOf
  <2>4. \A u \in Rights!Threads : grantLoad'[u].copy \subseteq grantLoad[u].copy /\ grantLoad'[u].at = grantLoad[u].at
    BY <1>0, <2>3
  <2>5. held'[desk] \subseteq held[desk] \cup {l} /\ l \in seen
    BY <1>0, <2>1 DEF Remembered
  <2> QED
    BY <1>0, <2>1, <2>4, <2>5 DEF Remembered
<1> QED
  BY <1>1, <1>2, <1>3 DEF Rights!GrantRules!Load

\* What an administrator grants while the job asks is remembered.
LEMMA AdministerRemembers ==
    ASSUME RightsInv, InheritanceInv, desk \in Servers, Administer, target'.job = "asked", target.job = "asked", Remembered
    PROVE  Remembered'
<1>0. /\ Rights!Job \in Rights!Threads /\ held \in [Servers -> SUBSET Values] /\ Rights!Job \notin Callers
      /\ grantLoad \in [Rights!Threads -> LoadsOf(Values)]
  BY SiteAssumption DEF Rights!Threads, Rights!Job, RightsInv, LoadsFit, Rights!PermissionTypeOK, Values
<1>1. seen' = seen \cup granted' /\ desk' = desk
  BY DEF Administer
<1>2. CASE UNCHANGED <<granted, held, grantLoad>>
  BY <1>1, <1>2 DEF Remembered
<1>3. ASSUME NEW c \in Callers, Rights!LoadGrants(c) PROVE Remembered'
  <2>1. call[c].server \in Servers /\ c \in Rights!Threads /\ c # Rights!Job
    BY <1>0, <1>3, RequestFacts DEF Rights!LoadGrants, RequestFits
  <2> QED
    BY <1>1, <1>3, <2>1, LoadRemembers DEF Rights!LoadGrants
<1>4. ASSUME NEW c \in Callers, Rights!GrantRules!Read(c), held'[desk] \subseteq held[desk] \cup granted' PROVE Remembered'
  <2>1. c \in Rights!Threads /\ c # Rights!Job /\ grantLoad' = [grantLoad EXCEPT ![c] = Rights!GrantRules!Idle]
    BY <1>0, <1>4, RequestFacts DEF Rights!GrantRules!Read
  <2>2. \A t \in Rights!Threads : grantLoad'[t] = IF t = c THEN Rights!GrantRules!Idle ELSE grantLoad[t]
    BY <1>0, <2>1
  <2>3. \A t \in Rights!Threads : grantLoad'[t].copy \subseteq seen'
    BY <1>1, <2>2 DEF Rights!GrantRules!Idle, Remembered
  <2> QED
    BY <1>0, <1>1, <1>4, <2>1, <2>2, <2>3 DEF Remembered
<1>5. ASSUME NEW c \in Callers, Rights!GrantComponent(c) PROVE Remembered'
  <2>1. PICK v : Rights!GrantRules!AddRule(call[c].server, v)
    BY <1>5 DEF Rights!GrantComponent
  <2>2. held'[desk] \subseteq held[desk] \cup granted'
    BY <1>0, <2>1 DEF Rights!GrantRules!AddRule
  <2> QED
    BY <1>4, <1>5, <2>2 DEF Rights!GrantComponent
<1>6. ASSUME NEW c \in Callers, Rights!RevokeComponent(c) PROVE Remembered'
  <2>1. PICK v : Rights!GrantRules!RemoveRule(call[c].server, v)
    BY <1>6 DEF Rights!RevokeComponent
  <2>2. held'[desk] \subseteq held[desk] \cup granted'
    BY <1>0, <2>1 DEF Rights!GrantRules!RemoveRule
  <2> QED
    BY <1>4, <1>6, <2>2 DEF Rights!RevokeComponent
<1>7. ASSUME NEW c \in Callers, Rights!RevokeAll(c) PROVE Remembered'
  <2>1. held'[desk] \subseteq held[desk] \cup granted'
    BY <1>0, <1>7 DEF Rights!RevokeAll, Rights!GrantRules!RemoveAll
  <2> QED
    BY <1>4, <1>7, <2>1 DEF Rights!RevokeAll
<1>8. ASSUME NEW s \in Servers, Dies(s) PROVE Remembered'
  <2>1. CASE desk = s
    BY <1>8, <2>1 DEF Dies, Refuse, InheritanceInv, InheritanceTyped
  <2>2. CASE desk # s
    <3>1. PICK here : Rights!GrantRules!Restart(s, here) /\ Rights!Job \notin here
      <4>1. Rights!Job \notin {} \cup {c \in Callers : call[c].server = s}
        BY <1>0
      <4> QED
        BY <1>8, <2>2, <4>1 DEF Dies, Rights!ServerDies
    <3>2. /\ granted' = granted /\ held'[desk] = held[desk] /\ grantLoad'[Rights!Job] = grantLoad[Rights!Job]
          /\ \A t \in Rights!Threads : grantLoad'[t].copy \subseteq grantLoad[t].copy
      BY <1>0, <2>2, <3>1 DEF Rights!GrantRules!Restart, Rights!GrantRules!Idle
    <3> QED
      BY <1>1, <3>2 DEF Remembered
  <2> QED
    BY <2>1, <2>2
<1>9. ASSUME NEW c \in Callers, NEW s \in Servers, Roles(c, s) \/ Grants(c, s) PROVE UNCHANGED <<granted, held, grantLoad>>
  <2>1. UNCHANGED Rights!grantVars
    <3>1. CASE Roles(c, s)
      BY <3>1 DEF Roles, Rights!Grant, Rights!DeleteRole, Rights!DeleteApp, Rights!Authenticate
    <3>2. CASE Grants(c, s)
      BY <3>2, Zenon DEF Grants, Rights!Change
    <3> QED
      BY <1>9, <3>1, <3>2
  <2> QED
    BY <2>1 DEF Rights!grantVars
<1>10. CASE Rights!PermissionStep
  <2>1. PICK c \in Callers :
           \/ Rights!LoadRoles(c) \/ Rights!GetRoles(c) \/ Rights!CheckDelete(c) \/ Rights!Delete(c)
           \/ Rights!CheckAdd(c) \/ Rights!Add(c) \/ Rights!DropApp(c) \/ Rights!Authenticated(c)
           \/ Rights!LoadGrants(c) \/ Rights!GrantComponent(c) \/ Rights!RevokeComponent(c) \/ Rights!RevokeAll(c)
    BY <1>10, Zenon DEF Rights!PermissionStep
  <2>2. \/ Rights!LoadGrants(c) \/ Rights!GrantComponent(c) \/ Rights!RevokeComponent(c) \/ Rights!RevokeAll(c)
        \/ UNCHANGED <<granted, held, grantLoad>>
    <3>1. \/ Rights!LoadGrants(c) \/ Rights!GrantComponent(c) \/ Rights!RevokeComponent(c) \/ Rights!RevokeAll(c)
          \/ UNCHANGED Rights!grantVars
      BY <2>1, Zenon DEF Rights!LoadRoles, Rights!GetRoles, Rights!CheckDelete, Rights!Delete, Rights!CheckAdd,
         Rights!Add, Rights!DropApp, Rights!Authenticated
    <3> QED
      BY <3>1 DEF Rights!grantVars
  <2> QED
    BY <1>2, <1>3, <1>5, <1>6, <1>7, <2>2
<1> QED
  BY <1>2, <1>8, <1>9, <1>10 DEF Administer

\* No step of the two jobs lets the other job ask, or lets it in, a second time.
LEMMA TargetGoesOn ==
    ASSUME InheritanceInv, Inherit
    PROVE  /\ target'.job = "none" => target.job = "none"
           /\ target'.job = "asked" => target.job = "asked"
           /\ target'.job \notin {"none", "asked", "refused"} => target.job \notin {"none", "asked", "refused"}
<1> DEFINE Goes == \/ target' = target
                   \/ target' = [job |-> "refused", task |-> WAITING]
                   \/ \E l \in Loaders : target' = [target EXCEPT !.task = load[l].status]
                   \/ \E st \in {RUNNING, FAILED, CANCELED} :
                         JobMayBecome(target.job, st) /\ target' = [target EXCEPT !.job = st]
<1>1. Goes
  <2>1. ASSUME NEW l \in Loaders, LoadStatus(l) PROVE Goes
    BY <2>1 DEF LoadStatus
  <2>2. ASSUME NEW l \in Loaders, Answer(l) PROVE Goes
    BY <2>2, Zenon DEF Answer
  <2>3. ASSUME NEW j \in {"source", "target"}, CleanStart(j) PROVE Goes
    BY <2>3 DEF CleanStart
  <2>4. CASE CleanRows
    BY <2>4 DEF CleanRows
  <2>5. CASE target' = target
    BY <2>5
  <2> QED
    BY <2>1, <2>2, <2>3, <2>4, <2>5
    DEF Inherit, Rerun, LoadFails, Start, PartyDies, InheritanceStep, LoadTracking, LoadModelMeta, LoadMetric,
        Output, Ends, CleanMetric, CleanData, CleanModel
<1>2. \A st \in {RUNNING, FAILED, CANCELED} :
         JobMayBecome(target.job, st) => target.job \notin {"none", "asked", "refused"} /\ st \notin {"none", "asked"}
  BY DEF JobMayBecome, JobRules, READY, WAITING, RUNNING, CANCELED, TIMEOUT, FAILED, SUCCESS
<1> QED
  BY <1>1, <1>2 DEF InheritanceInv, InheritanceTyped

\* A check of a component is of what is remembered.
LEMMA CheckRemembers ==
    ASSUME RightsInv, InheritanceInv, CheckedSinceAsked, NEW v \in Wanted, CheckComponent(v)
    PROVE  CheckedSinceAsked'
<1>0. Rights!Job \in Rights!Threads /\ grantLoad \in [Rights!Threads -> LoadsOf(Values)]
  BY DEF Rights!Threads, RightsInv, LoadsFit
<1>1. /\ target.job = "asked" /\ Rights!GrantRules!Loaded(Rights!Job)
      /\ grantLoad' = [grantLoad EXCEPT ![Rights!Job] = Rights!GrantRules!Idle]
      /\ UNCHANGED <<granted, held, desk, needs, seen>>
      /\ \/ v \in held[desk] /\ todo' = todo \ {v} /\ UNCHANGED target
         \/ Refuse /\ UNCHANGED todo
  BY DEF CheckComponent, inheritanceVars, Rights!GrantRules!Read
<1>2. CASE v \in held[desk] /\ todo' = todo \ {v} /\ UNCHANGED target
  <2>1. v \in seen
    BY <1>1, <1>2 DEF CheckedSinceAsked, Remembered, Rights!GrantRules!Loaded
  <2>2. \A t \in Rights!Threads : grantLoad'[t] = IF t = Rights!Job THEN Rights!GrantRules!Idle ELSE grantLoad[t]
    BY <1>0, <1>1
  <2>3. Remembered'
    BY <1>0, <1>1, <2>2 DEF CheckedSinceAsked, Remembered, Rights!GrantRules!Idle
  <2> QED
    BY <1>1, <1>2, <2>1, <2>3 DEF CheckedSinceAsked, AllowedSinceAsked
<1>3. CASE Refuse
  <2>1. target'.job = "refused"
    BY <1>3 DEF Refuse, InheritanceInv, InheritanceTyped
  <2> QED
    BY <1>1, <2>1 DEF CheckedSinceAsked, AllowedSinceAsked
<1> QED
  BY <1>1, <1>2, <1>3

\* An administrator's step leaves the job's thread alone, or ends its request.
LEMMA AdministerSpares ==
    ASSUME RightsInv, InheritanceInv, Administer
    PROVE  /\ target' = target \/ (target.job = "asked" /\ target'.job = "refused")
           /\ target.job = "none" => grantLoad'[Rights!Job] = grantLoad[Rights!Job]
           /\ UNCHANGED <<desk, needs, todo>>
           /\ seen' = IF target.job = "asked" THEN seen \cup granted' ELSE seen
<1>0. /\ Rights!Job \in Rights!Threads /\ Rights!Job \notin Callers
      /\ grantLoad \in [Rights!Threads -> LoadsOf(Values)]
  BY SiteAssumption DEF Rights!Threads, Rights!Job, RightsInv, LoadsFit
<1>1. ASSUME NEW s \in Servers, Dies(s)
      PROVE  /\ target' = target \/ (target.job = "asked" /\ target'.job = "refused")
             /\ target.job = "none" => grantLoad'[Rights!Job] = grantLoad[Rights!Job]
  <2>1. CASE desk = s /\ target.job = "asked"
    BY <1>1, <2>1 DEF Dies, Refuse, InheritanceInv, InheritanceTyped
  <2>2. CASE ~(desk = s /\ target.job = "asked")
    <3>1. PICK here : Rights!GrantRules!Restart(s, here) /\ Rights!Job \notin here
      <4>1. Rights!Job \notin {} \cup {c \in Callers : call[c].server = s}
        BY <1>0
      <4> QED
        BY <1>1, <2>2, <4>1 DEF Dies, Rights!ServerDies
    <3>2. grantLoad'[Rights!Job] = grantLoad[Rights!Job]
      BY <1>0, <3>1 DEF Rights!GrantRules!Restart
    <3> QED
      BY <1>1, <2>2, <3>2 DEF Dies, inheritanceVars
  <2> QED
    BY <2>1, <2>2
<1>2. ASSUME NEW c \in Callers, NEW s \in Servers, Roles(c, s) \/ Grants(c, s) PROVE grantLoad' = grantLoad
  <2>1. UNCHANGED Rights!grantVars
    <3>1. CASE Roles(c, s)
      BY <3>1 DEF Roles, Rights!Grant, Rights!DeleteRole, Rights!DeleteApp, Rights!Authenticate
    <3>2. CASE Grants(c, s)
      BY <3>2, Zenon DEF Grants, Rights!Change
    <3> QED
      BY <1>2, <3>1, <3>2
  <2> QED
    BY <2>1 DEF Rights!grantVars
<1>3. ASSUME Rights!PermissionStep PROVE grantLoad'[Rights!Job] = grantLoad[Rights!Job]
  <2>1. PICK c \in Callers :
           \/ Rights!LoadRoles(c) \/ Rights!GetRoles(c) \/ Rights!CheckDelete(c) \/ Rights!Delete(c)
           \/ Rights!CheckAdd(c) \/ Rights!Add(c) \/ Rights!DropApp(c) \/ Rights!Authenticated(c)
           \/ Rights!LoadGrants(c) \/ Rights!GrantComponent(c) \/ Rights!RevokeComponent(c) \/ Rights!RevokeAll(c)
    BY <1>3, Zenon DEF Rights!PermissionStep
  <2>2. \/ UNCHANGED Rights!grantVars
        \/ Rights!GrantRules!Load(c, call[c].server)
        \/ Rights!GrantRules!Read(c)
    BY <2>1, Zenon DEF Rights!LoadRoles, Rights!GetRoles, Rights!CheckDelete, Rights!Delete, Rights!CheckAdd,
       Rights!Add, Rights!DropApp, Rights!Authenticated, Rights!LoadGrants, Rights!GrantComponent,
       Rights!RevokeComponent, Rights!RevokeAll
  <2>3. c # Rights!Job
    BY <1>0
  <2>4. CASE UNCHANGED Rights!grantVars
    BY <2>4 DEF Rights!grantVars
  <2>5. CASE Rights!GrantRules!Load(c, call[c].server)
    BY <1>0, <2>3, <2>5 DEF Rights!GrantRules!Load, Rights!GrantRules!Select, Rights!GrantRules!Clear, Rights!GrantRules!Line
  <2>6. CASE Rights!GrantRules!Read(c)
    BY <1>0, <2>3, <2>6 DEF Rights!GrantRules!Read
  <2> QED
    BY <2>2, <2>4, <2>5, <2>6
<1>4. \/ Rights!PermissionStep /\ target' = target
      \/ \E s \in Servers : Dies(s)
      \/ \E s \in Servers, c \in Callers : (Roles(c, s) \/ Grants(c, s)) /\ target' = target
  <2>1. UNCHANGED inheritanceVars => target' = target
    BY DEF inheritanceVars
  <2> QED
    BY <2>1, Zenon DEF Administer
<1>5. UNCHANGED <<desk, needs, todo>> /\ seen' = IF target.job = "asked" THEN seen \cup granted' ELSE seen
  BY DEF Administer
<1> QED
  BY <1>1, <1>2, <1>3, <1>4, <1>5

\* What the job was told when it asked holds on.
LEMMA AskedStays ==
    ASSUME RightsInv, CheckedSinceAsked, InheritanceInv, SiteNext
    PROVE  CheckedSinceAsked'
<1>0. /\ desk \in Servers /\ Rights!Job \in Rights!Threads
      /\ grantLoad \in [Rights!Threads -> LoadsOf(Values)]
  BY DEF CheckedSinceAsked, Rights!Threads, RightsInv, LoadsFit
<1>1. CASE Administer
  <2>1. target'.job = "asked" => target.job = "asked" /\ Remembered'
    BY <1>0, <1>1, AdministerSpares, AdministerRemembers DEF CheckedSinceAsked
  <2> QED
    BY <1>1, <2>1, AdministerSpares DEF CheckedSinceAsked, AllowedSinceAsked
<1>2. CASE Provide
  <2>1. UNCHANGED <<target, granted, held, grantLoad, desk, needs, todo, seen>>
    BY <1>2 DEF Provide, inheritanceVars, permissionVars, letInVars
  <2> QED
    BY <2>1 DEF CheckedSinceAsked, AllowedSinceAsked, Remembered
<1>3. CASE Ask
  <2>1. target.job = "none" /\ target'.job = "asked"
    BY <1>3 DEF Ask, Submit, InheritanceInv, InheritanceTyped
  <2>2. /\ UNCHANGED <<granted, held, grantLoad, desk>> /\ todo' = needs'
        /\ seen' = granted \cup UNION {grantLoad[c].copy : c \in Callers}
    BY <1>3 DEF Ask, permissionVars
  <2>3. grantLoad[Rights!Job] = Rights!GrantRules!Idle
    BY <2>1 DEF CheckedSinceAsked
  <2>4. \A t \in Rights!Threads : grantLoad[t].copy \subseteq seen'
    BY <2>2, <2>3 DEF Rights!Threads, Rights!Job, Rights!GrantRules!Idle
  <2>5. Remembered'
    BY <2>2, <2>3, <2>4 DEF Remembered, Rights!GrantRules!Idle
  <2> QED
    BY <1>0, <2>1, <2>2, <2>5 DEF CheckedSinceAsked, AllowedSinceAsked
<1>4. CASE LetIn
  <2>1. UNCHANGED <<desk, needs, todo, seen>> /\ todo = {} /\ target.job = "asked" /\ target'.job = WAITING
    BY <1>4 DEF LetIn, Create, letInVars, InheritanceInv, InheritanceTyped
  <2> QED
    BY <1>0, <2>1 DEF CheckedSinceAsked, AllowedSinceAsked, WAITING
<1>5. CASE LoadRules
  <2>1. /\ target.job = "asked" /\ Rights!GrantRules!Load(Rights!Job, desk)
        /\ UNCHANGED <<target, desk, needs, todo, seen>>
    BY <1>5 DEF LoadRules, inheritanceVars, letInVars
  <2>2. Remembered'
    BY <1>0, <2>1, LoadRemembers DEF CheckedSinceAsked
  <2> QED
    BY <2>1, <2>2 DEF CheckedSinceAsked, AllowedSinceAsked
<1>6. CASE Inherit
  <2>1. UNCHANGED <<granted, held, grantLoad, desk, needs, todo, seen>>
    BY <1>6 DEF Inherit, permissionVars, letInVars
  <2>2. Remembered => Remembered'
    BY <2>1 DEF Remembered
  <2> QED
    BY <1>6, <2>1, <2>2, TargetGoesOn DEF CheckedSinceAsked, AllowedSinceAsked
<1> QED
  BY <1>1, <1>2, <1>3, <1>4, <1>5, <1>6, CheckRemembers DEF SiteNext

\* A site that has just been set up.
LEMMA SiteInitially == SiteInit => SiteInv
<1> SUFFICES ASSUME SiteInit PROVE SiteInv
  OBVIOUS
<1>1. CheckedSinceAsked
  BY DEF SiteInit, CheckedSinceAsked, AllowedSinceAsked, InheritanceInit, Rights!PermissionInit, Rights!Threads
<1> QED
  BY <1>1, RightsInit, CatalogInit, InheritanceInitially DEF SiteInit, SiteInv

\* Every step at the site keeps all of it.
LEMMA SiteStep == SiteInv /\ [SiteNext]_siteVars => SiteInv'
<1> SUFFICES ASSUME SiteInv, [SiteNext]_siteVars PROVE SiteInv'
  OBVIOUS
<1> USE DEF SiteInv
<1>1. CASE Administer
  <2>1. UNCHANGED providerVars
    BY <1>1 DEF Administer
  <2>2. InheritanceInv'
    BY <1>1, TargetKeeps, InheritanceStutters DEF Administer, Dies
  <2> QED
    BY <1>1, <2>1, <2>2, RightsStep, CatalogStutters, AskedStays DEF SiteNext
<1>2. CASE Provide
  <2>1. UNCHANGED <<inheritanceVars, permissionVars>>
    BY <1>2 DEF Provide
  <2> QED
    BY <1>2, <2>1, RightsStutter, CatalogStep, InheritanceStutters, AskedStays DEF SiteNext
<1>3. CASE Ask \/ LetIn \/ Inherit
  <2>1. UNCHANGED <<permissionVars, providerVars>>
    BY <1>3 DEF Ask, LetIn, Inherit
  <2>2. InheritanceInv'
    BY <1>3, TargetKeeps, InheritanceStepKeeps DEF Ask, LetIn
  <2> QED
    BY <1>3, <2>1, <2>2, RightsStutter, CatalogStutters, AskedStays DEF SiteNext
<1>4. CASE LoadRules \/ \E v \in Wanted : CheckComponent(v)
  <2>1. UNCHANGED providerVars
    BY <1>4 DEF LoadRules, CheckComponent
  <2>2. InheritanceInv'
    BY <1>4, TargetKeeps, InheritanceStutters DEF LoadRules, CheckComponent
  <2>3. desk \in Servers
    BY DEF CheckedSinceAsked
  <2> QED
    BY <1>4, <2>1, <2>2, <2>3, JobChecks, CatalogStutters, AskedStays DEF SiteNext
<1>5. CASE UNCHANGED siteVars
  <2>1. UNCHANGED <<inheritanceVars, permissionVars, providerVars, letInVars>>
    BY <1>5 DEF siteVars
  <2>2. UNCHANGED <<target, granted, held, grantLoad, desk, needs, todo, seen>>
    BY <2>1 DEF inheritanceVars, permissionVars, letInVars
  <2>3. CheckedSinceAsked'
    BY <2>2 DEF CheckedSinceAsked, AllowedSinceAsked, Remembered
  <2> QED
    BY <2>1, <2>3, RightsStutter, CatalogStutters, InheritanceStutters
<1> QED
  BY <1>1, <1>2, <1>3, <1>4, <1>5 DEF SiteNext

\* The invariant says what AccessInv asks for.
LEMMA AccessFromInv == SiteInv => AccessInv
<1> SUFFICES ASSUME SiteInv PROVE AccessInv
  OBVIOUS
<1> USE DEF SiteInv
<1>1. Rights!KeepsARole
  <2> SUFFICES ASSUME NEW a \in apps \ excused, Rights!RolesOf(a, rows) = {}
               PROVE  \E s \in Servers, c \in Callers : c \in Rights!Grading(s) /\ call[c].app = a
    BY DEF Rights!KeepsARole
  <2>1. PICK c \in Callers : WillGrade(c, a)
    BY DEF RightsInv, RoleOrWriter
  <2>2. call[c].server \in Servers
    BY <2>1, RequestFacts DEF WillGrade, RequestFits, Asked
  <2> QED
    BY <2>1, <2>2 DEF WillGrade, Rights!Grading
<1>2. Catalog!WholeOrGone
  BY DEF CatalogInv, WorkFits, WorkFitsAt, OffersWhole, Catalog!WholeOrGone
<1> QED
  BY <1>1, <1>2 DEF AccessInv, RightsInv, CheckedSinceAsked

\* Whatever administrators and servers do, apps that are graded keep a role unless another
\* thread's load misleads who grades them, providers are listed whole or not at all unless
\* two requests meet or one fails, and a job that is let in had every component granted
\* since it asked: for any number of callers, servers, apps, providers and components.
THEOREM AccessIsRight == SiteSpec => []AccessInv
BY SiteInitially, SiteStep, AccessFromInv, PTL DEF SiteSpec

\* A task that counts as inherited has all its outputs (load_tracking to load_status), for
\* any number of calls of start_job and of reruns of the source.
THEOREM InheritsAll == SiteSpec => []InheritedWhole
<1>1. SiteInv => InheritedWhole
  BY WholeFromInv DEF SiteInv
<1> QED
  BY <1>1, SiteInitially, SiteStep, PTL DEF SiteSpec
=============================================================================
