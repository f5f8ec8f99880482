------------------------------- MODULE Cluster -------------------------------
(***************************************************************************)
(* The servers of a party: the schedulers that take turns at a job under   *)
(* its lock (ScheduleLock) live and die with the servers that register in  *)
(* ZooKeeper and watch one another's tasks (ServiceRegistry).  A scheduler *)
(* is started only after its server has registered.                        *)
(***************************************************************************)
EXTENDS ScheduleLock, FiniteSets

CONSTANTS
    Hosts,      \* the servers that run tasks
    MaxTrouble  \* bound on what fails at ZooKeeper

ASSUME ClusterAssumption == Hosts \subseteq Schedulers /\ MaxTrouble \in Nat

VARIABLES phase, node, watch, task, look, cut, reborn, trouble

registryVars == <<phase, node, watch, task, look, cut, reborn, trouble>>
clusterVars == <<vars, registryVars>>

Registry == INSTANCE ServiceRegistry WITH Servers <- Schedulers

ClusterInit == Init /\ Registry!RegistryInit

\* The job's rounds begin when the server is up; the server dies and is started whole.
Schedule(s) == phase[s] = "up" /\ TryLock(s) /\ UNCHANGED registryVars
Go(s) == (Probe(s) \/ Expire(s) \/ Finish(s) \/ Release(s)) /\ UNCHANGED registryVars
ServerDies(s) == Crash(s) /\ Registry!Die(s)
ServerStarts(s) == Restart(s) /\ Registry!Boot(s)
TimePasses == Tick /\ UNCHANGED registryVars
Registers(s) == Registry!Registering(s) /\ UNCHANGED vars
Looks(s) == Registry!Looking(s) /\ UNCHANGED vars

ClusterNext ==
    \/ TimePasses
    \/ \E s \in Schedulers : Schedule(s) \/ Go(s) \/ ServerDies(s) \/ ServerStarts(s)
    \/ Registry!RegistryStep /\ UNCHANGED vars

ClusterSpec == ClusterInit /\ [][ClusterNext]_clusterVars

\* As in ScheduleLock; and a server that boots registers, the watcher goes on, and a
\* session whose process is dead runs out.
ClusterFairness ==
    /\ WF_clusterVars(TimePasses)
    /\ \A s \in Schedulers :
          /\ WF_clusterVars(Schedule(s) \/ ServerStarts(s)
                 \/ ((Probe(s) \/ Expire(s) \/ Release(s)) /\ UNCHANGED registryVars))
          /\ WF_clusterVars(Registers(s))
          /\ WF_clusterVars(Registry!SessionEnds(s) /\ UNCHANGED vars)
          /\ WF_clusterVars(Looks(s))

ClusterFairSpec == ClusterSpec /\ ClusterFairness

\* The properties of the registry.
OneNode == Registry!OneNode
NoFalseAlarm == Registry!NoFalseAlarm
EveryServerListed == Registry!EveryServerListed
=============================================================================
