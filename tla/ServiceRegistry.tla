--------------------------- MODULE ServiceRegistry ---------------------------
(***************************************************************************)
(* The registry of the servers of a party in ZooKeeper (service_manager.py) *)
(* and the detector that asks it about the servers that run tasks          *)
(* (detector.py).  A server registers once, when it starts, an ephemeral   *)
(* node named after its address; if the node of its last life is still     *)
(* there a thread tries again until that one's session is gone.            *)
(***************************************************************************)
EXTENDS Naturals, FiniteSets

CONSTANTS
    Servers,
    Hosts,       \* the servers that run tasks
    MaxTrouble   \* bound on the calls to ZooKeeper that fail and the sessions that get lost

VARIABLES
    phase,   \* of the process at each address: down, booting or up
    node,    \* who owns the node of the address: nobody, this process or one before it
    watch,   \* the item in the queue of the watcher, and whether it has met the old node
    task,    \* the task this server runs: Task.f_party_status with f_run_ip and f_run_port
    look,    \* what the detector of each server is asking about, and has read
    cut,     \* history: the process has met trouble with ZooKeeper and is not registered
    reborn,  \* history: the server has been started again
    trouble  \* failures so far

troubleVars == <<cut, trouble>>
registryVars == <<phase, node, watch, task, look, cut, reborn, trouble>>

Idle == [at |-> "off", about |-> {}, todo |-> {}, got |-> {}]
Looks ==
    [at : {"off", "doubt", "read"}, about : SUBSET Servers, todo : SUBSET Servers,
     got : SUBSET Servers]

RegistryInit ==
    /\ phase = [s \in Servers |-> "booting"]
    /\ node = [s \in Servers |-> "none"]
    /\ watch = [s \in Servers |-> "none"]
    /\ task = [s \in Servers |-> "none"]
    /\ look = [s \in Servers |-> Idle]
    /\ cut = [s \in Servers |-> FALSE]
    /\ reborn = [s \in Servers |-> FALSE]
    /\ trouble = 0

Set(f, s, value) == f' = [f EXCEPT ![s] = value]
Trouble(s) == trouble < MaxTrouble /\ trouble' = trouble + 1 /\ Set(cut, s, TRUE)
-----------------------------------------------------------------------------
(* Registration *)

\* Mutant: the address is put in the watch list in any case.
M_Register(s) ==
    /\ phase[s] = "booting"
    /\ Set(phase, s, "up")
    /\ Set(watch, s, "queued")
    /\ Set(node, s, IF node[s] = "none" THEN "own" ELSE node[s])
    /\ UNCHANGED <<task, look, troubleVars, reborn>>

\* server_init: register_flow comes before the threads and the HTTP interface.
Register(s) ==
    /\ phase[s] = "booting"
    /\ Set(phase, s, "up")
    /\ \/ node[s] = "none" /\ Set(node, s, "own") /\ UNCHANGED <<watch, troubleVars>>
       \/ node[s] # "none" /\ Set(watch, s, "queued") /\ UNCHANGED <<node, troubleVars>>
       \/ Trouble(s) /\ UNCHANGED <<node, watch>>
    /\ UNCHANGED <<task, look, reborn>>

\* The watcher takes the item and tries again; any error but NodeExistsError ends the
\* thread.
WatchCreate(s) ==
    /\ phase[s] # "down" /\ watch[s] = "queued"
    /\ \/ node[s] = "none" /\ Set(node, s, "own") /\ Set(watch, s, "none")
          /\ UNCHANGED troubleVars
       \/ node[s] # "none" /\ Set(watch, s, "exists") /\ UNCHANGED <<node, troubleVars>>
       \/ Trouble(s) /\ Set(watch, s, "none") /\ UNCHANGED node
    /\ UNCHANGED <<phase, task, look, reborn>>

\* Mutant: a node that exists is taken for a duplicate, whoever owns it.
M_WatchLook(s) ==
    /\ phase[s] # "down" /\ watch[s] = "exists"
    /\ Set(watch, s, IF node[s] = "none" THEN "queued" ELSE "none")
    /\ UNCHANGED <<phase, node, task, look, troubleVars, reborn>>

\* It asks who owns the node: its own is a duplicate; one that is gone or belongs to
\* another session is tried again.
WatchLook(s) ==
    /\ phase[s] # "down" /\ watch[s] = "exists"
    /\ Set(watch, s, IF node[s] = "own" THEN "none" ELSE "queued")
    /\ UNCHANGED <<phase, node, task, look, troubleVars, reborn>>

\* ZooKeeper: the session of a process that died runs out, and its node goes.
SessionEnds(s) ==
    /\ node[s] = "old"
    /\ Set(node, s, "none")
    /\ UNCHANGED <<phase, watch, task, look, troubleVars, reborn>>

\* That of a process that lives is lost: it gets another, but nobody registers it again.
SessionLost(s) ==
    /\ node[s] = "own"
    /\ Set(node, s, "none")
    /\ Trouble(s)
    /\ UNCHANGED <<phase, watch, task, look, reborn>>

Die(s) ==
    /\ phase[s] # "down"
    /\ Set(phase, s, "down")
    /\ Set(node, s, IF node[s] = "own" THEN "old" ELSE node[s])
    /\ Set(watch, s, "none")
    /\ Set(look, s, Idle)
    /\ Set(cut, s, FALSE)
    /\ Set(reborn, s, TRUE)
    /\ UNCHANGED <<task, trouble>>

Boot(s) ==
    /\ phase[s] = "down"
    /\ Set(phase, s, "booting")
    /\ UNCHANGED <<node, watch, task, look, troubleVars, reborn>>
-----------------------------------------------------------------------------
(* Tasks, and the detector that looks for their servers *)

StartTask(s) ==
    /\ s \in Hosts
    /\ phase[s] = "up" /\ task[s] = "none"
    /\ Set(task, s, "running")
    /\ UNCHANGED <<phase, node, watch, look, troubleVars, reborn>>

EndTask(s) ==
    /\ task[s] = "running"
    /\ Set(task, s, "none")
    /\ UNCHANGED <<phase, node, watch, look, troubleVars, reborn>>

\* Mutant: the servers are listed before the tasks are.
M_Doubt(r, s) ==
    /\ phase[r] = "up" /\ look[r].at = "off" /\ s \in Hosts
    /\ Set(look, r, [Idle EXCEPT !.at = "doubt", !.about = {s}])
    /\ UNCHANGED <<phase, node, watch, task, troubleVars, reborn>>

\* detect_running_task: a task that runs at another server.
Doubt(r, s) ==
    /\ phase[r] = "up" /\ look[r].at = "off"
    /\ task[s] = "running"
    /\ Set(look, r, [Idle EXCEPT !.at = "doubt", !.about = {s}])
    /\ UNCHANGED <<phase, node, watch, task, troubleVars, reborn>>

\* get_servers: first the names of the nodes ...
List(r) ==
    /\ look[r].at = "doubt"
    /\ Set(look, r, [look[r] EXCEPT !.at = "read",
                                    !.todo = {s \in Servers : node[s] # "none"}])
    /\ UNCHANGED <<phase, node, watch, task, troubleVars, reborn>>

\* ... and then each one's value.  For a node that has gone there is an empty value,
\* which json does not take: the whole look fails.
Fetch(r, s) ==
    /\ look[r].at = "read" /\ s \in look[r].todo
    /\ Set(look, r, IF node[s] = "none" THEN Idle
                    ELSE [look[r] EXCEPT !.todo = @ \ {s}, !.got = @ \cup {s}])
    /\ UNCHANGED <<phase, node, watch, task, troubleVars, reborn>>

\* A call that fails counts as an empty list.
ListFails(r) ==
    /\ look[r].at # "off" /\ trouble < MaxTrouble
    /\ trouble' = trouble + 1
    /\ Set(look, r, [look[r] EXCEPT !.at = "read", !.todo = {}, !.got = {}])
    /\ UNCHANGED <<phase, node, watch, task, cut, reborn>>

\* The job of a task whose server is not in the list is stopped.
Judge(r) ==
    /\ look[r].at = "read" /\ look[r].todo = {}
    /\ task' = [s \in Servers |->
                   IF s \in look[r].about \ look[r].got /\ task[s] = "running"
                   THEN "stopped" ELSE task[s]]
    /\ Set(look, r, Idle)
    /\ UNCHANGED <<phase, node, watch, troubleVars, reborn>>
-----------------------------------------------------------------------------
Registering(s) == Register(s) \/ WatchCreate(s) \/ WatchLook(s)
Looking(r) == List(r) \/ Judge(r) \/ \E s \in Servers : Fetch(r, s)

RegistryStep ==
    \E s \in Servers :
        \/ Registering(s) \/ SessionEnds(s) \/ SessionLost(s)
        \/ StartTask(s) \/ EndTask(s)
        \/ Looking(s) \/ ListFails(s)
        \/ \E r \in Servers \ {s} : Doubt(r, s)

RegistryTypeOK ==
    /\ phase \in [Servers -> {"down", "booting", "up"}]
    /\ node \in [Servers -> {"none", "own", "old"}]
    /\ watch \in [Servers -> {"none", "queued", "exists"}]
    /\ task \in [Servers -> {"none", "running", "stopped"}]
    /\ look \in [Servers -> Looks]
    /\ cut \in [Servers -> BOOLEAN] /\ reborn \in [Servers -> BOOLEAN]
    /\ trouble \in 0..MaxTrouble

\* A server has one node: while the watcher tries for it the process does not own it yet,
\* so the case of a duplicate never comes, and a process that is down owns none.
OneNode ==
    /\ RegistryTypeOK
    /\ \A s \in Servers : node[s] = "own" => phase[s] = "up" /\ watch[s] = "none"

\* A task is never taken for lost, by any detector and however the look at the tasks and
\* the looks at the registry are spread out, while its server has been up all the time
\* and ZooKeeper has answered.  After a restart that is not so: between the end of the
\* old session and the new node the server is not in the list.
NoFalseAlarm ==
    [][\A s \in Servers :
          task[s] = "running" /\ task'[s] = "stopped" => reborn[s] \/ trouble > 0]_registryVars

\* A server that has been started comes to be in the list under its own session, also
\* when it was started before the session of its last life ran out.
EveryServerListed ==
    \A s \in Servers :
        (phase[s] = "up" /\ ~cut[s]) ~> (node[s] = "own" \/ phase[s] # "up" \/ cut[s])
=============================================================================
