# FATE Flow in TLA+

Models of FATE Flow (the scheduler of federated jobs in `src/python/fate_flow`),
TLC runs that check them on small instances, and proofs for instances of any
size. Paths below are relative to `src/python/fate_flow/` unless they start with
`src/`. `PROJECT.json` maps every definition to the lines it stands for, and lists
the hazards of the code, at their lines, with the properties about them.

Contents: 1 the system, 2 the modules, 3 the runs (with bounds and fairness), 4 the
proofs, 5 what the code does that one would not expect, 6 what the modelled parts
leave out, 7 what could come next, 8 not modelled.

## 1. The system

A *job* is a DAG of *tasks*; every task runs at several *parties*. One party is
the *scheduler* of the job; all parties, the scheduler included, are servers of
the same program, talking HTTP. State lives in each party's database.

| Component | State | Operations | Interacts with |
|---|---|---|---|
| Job scheduling `scheduler/scheduler.py` | `ScheduleJob`, `ScheduleTask`, `ScheduleTaskStatus` | a cron round every 2 s (`run_do`): waiting, running, rerun jobs; stop, cancel, create | every party through `controller/federated.py`; the job lock |
| Status rules `entity/types/_status.py` | none | which status may follow which; federated status | base savers, scheduler |
| Reruns `controller/task.py`, `scheduler/scheduler.py` | versions of tasks, the rerun signal | automatic retries, requests of users, new versions at all parties | scheduler, parties |
| Job lock `utils/schedule_utils.py`, `utils/wraps_utils.py` | `f_schedule_signal`, `f_schedule_time` | take, release, time out | all scheduler threads of all servers |
| Resource books `manager/service/resource_manager.py` | cores of the engine, of a job, flags on jobs and tasks | register, apply and return for jobs and for tasks | parties' handlers, detector, server start |
| Task at a party `controller/task.py`, `manager/operation/base_saver.py` | `Task` row, the process | create, start, stop, status update, report, new version | scheduler (commands, reports), worker process |
| Job at a party `controller/job.py` | `Job` row | create, start, status, stop, request to stop, inherit, clean | scheduler, its tasks, resource books |
| Detector `scheduler/detector.py` | none of its own | a cron round every 5 s over running tasks, ended tasks, cores, sessions, servers | tasks, job scheduler (request to stop), registry |
| Calls `src/python/ofx/api/models/fate_flow/resource.py` | none | commands with retries and timeouts | everything above |
| Worker and its wrapper `hub/components_wraps/fate/_wraps.py`, `manager/service/worker_manager.py`, `utils/process_utils.py` | processes, `WorkerInfo`, outputs | get inputs, run the component, store outputs, report; find, kill | tasks, outputs, storage |
| Outputs `manager/outputs/*` | rows and files of data, models, metrics, logs | record, look up, delete | worker, inheritance, cleaning |
| Storage `engine/storage/*` | `StorageTableMeta`, sessions, tables of the engines | create, fill, read, bind, destroy; federation push and pull | worker, components, clients, detector |
| DAG parser `controller/parser.py` | none kept | from the job to the nodes, inputs and settings of every party | job creation, scheduler |
| BFIA adapter `adapter/bfia` | rows of its own for jobs and tasks, containers | another protocol's scheduler, handlers, detector; translation of jobs | parties that speak BFIA |
| Service registry `manager/service/service_manager.py` | ephemeral nodes in ZooKeeper | register, look up, retry | detector |
| Providers `manager/service/provider_manager.py` | `ProviderInfo`, `ComponentInfo` | register, delete | permissions |
| Permissions `controller/permission.py`, `db/casbin_models.py` | apps, roles, grants | grade, grant, delete, check | job creation |
| HTTP interface `apps/*` | none | routing | all |

What is hard in it:

- *Threads over one row.* Start, stop, worker reports and the detector update a
  task concurrently; only a compare-and-set UPDATE after a SELECT keeps them apart.
- *Several schedulers*, one lock per job, without an owner and with a timeout; and
  requests (rerun, stop, the whole BFIA adapter) that take no lock at all.
- *Stale reads.* A round works with the job row that was read before it took the
  lock, and with task statuses that lag behind what the parties know.
- *Commands and reports that are lost, repeated or reordered*; in callback mode
  reports are not repeated; in poll mode short-lived statuses are never seen.
- *Partial failure*: every command goes to all parties, some of which answer.
- *Several rows for one thing*: a table is a row, an engine's record and partitions; a
  grant is a delete and an insert behind a memory per server that all its threads fill; a provider is a row and
  the rows of its components. Each is written step by step.
- *Crashes* between two updates that belong together, and processes killed at any point.

What makes each component correct: the books neither lose nor invent cores and a
job's tasks stay inside it; at most one scheduler works on a job, and a dead one
is replaced; the end of a task is final, its cores come back and its verdict is the
same everywhere; a job succeeds only when all of its tasks have, everywhere, starts
nothing before its inputs exist, and its end reaches every party; versions of a task
follow one another; a worker finds its inputs, a stop leaves none of its processes;
what a table is said to hold it holds; what a party runs is what the job says; nobody
gets in without a grant.

## 2. The modules

| Module | Models | Checked by | Proofs |
|---|---|---|---|
| `FlowStatus` | statuses, transition rules, the status of a task over all parties and of a job over its tasks | its users | |
| `ResourceManager` | the cores of one party | `rm_books` | `PartyProofs` |
| `ScheduleLock` | the lock of one job | `cluster` | `SiteProofs` |
| `ServiceRegistry` | servers in ZooKeeper, and the detector that asks who lives | `cluster` | `SiteProofs` |
| `Cluster` | composes the two: schedulers live and die with their servers | `cluster` | `SiteProofs` |
| `PartyTask` | one task at one party, and the scheduler's record of it | `task` | `PartyProofs` |
| `JobScheduling` | one job over all its parties | `job` | `JobSchedulingProofs` |
| `JobRerun` | the versions of the tasks of a job | `rerun` | `JobRerunProofs` |
| `JobAdmission` | several jobs from submission to RUNNING, and the cores held for them | `admission` | `JobAdmissionProofs` |
| `TaskExecution` | processes, inputs and outputs of tasks at one party | `execution` | `TaskExecutionProofs` |
| `StandaloneStore` | the standalone computing engine and its federation | `store` | |
| `Warehouse` | abstract: what users of a named table may count on | through `data` | |
| `DataTables` | its implementation: row, engine's record, partitions, sessions | `data` | `DataTablesProofs` |
| `DagParser` | from a submitted job to what each party runs | `dag` | |
| `BfiaTranslator` | the way of a job over BFIA and back; extends `DagParser` | `dag` | |
| `BfiaAdapter` | scheduler, handlers, detector and containers of BFIA | `bfia` | `BfiaAdapterProofs` |
| `Enforcer` | rules in a table and in the memory of each server, loaded by all its threads without a lock | `site` | `SiteProofs` |
| `Permissions`, `Providers` | roles and grants (two `Enforcer`s); providers and their components | `site` | `SiteProofs` |
| `JobInheritance` | a job that takes over tasks of another, against reruns and cleaning | `site` | `SiteProofs` |
| `Site` | composes the three with the check of another party's job | `site` | `SiteProofs` |

A module `MC...` gives a module its values for TLC. How they fit together:
`PartyTask`, `JobScheduling`, `JobRerun` and `TaskExecution` describe one thing at
several grains. `PartyTask` interleaves the threads of a party at every SELECT and
UPDATE; in `JobScheduling` a party handles a command in one step, and what is
interleaved are the steps of a round with commands, losses, reports and processes;
`JobRerun` takes a round as two steps and adds versions; `TaskExecution` is what
happens inside the party's processes. `Cluster` is what lets `JobScheduling` have one
round at a time. `JobAdmission` looks at several jobs and abstracts from their tasks;
the books of a party (`ResourceManager`) are reduced there to which jobs fit together.
`DagParser` yields the dependencies that the other modules take as given.

**ResourceManager.** Variables are columns. `Admit` is `resource_for_job` up to the
limit check, `ApplyJob`/`ReturnJob` its transaction or its rollback, so that a
restart with another configuration may come in between; `ApplyTask`/`ReturnTask` are
the transactions of `resource_for_task`; `RegisterRead`/`RegisterWrite` the SELECT
and UPDATE of `register_engine`; `DeleteJob` the rows `clean_job` removes. Any
operation may come at any time and any number of times, because calls are repeated
and reordered on the way. `drift` and `leaked` are history variables: how much
overlapping registrations, and deletions of jobs in use, have put into the books.

**ScheduleLock, ServiceRegistry, Cluster.** `TryLock`, `Probe`, `Expire`, `Release` are
the statements of `schedule_signal` and `schedule_timeout_signal`; `Finish` ends the
work under the lock, `Tick` is the clock; `expired` is history: some lock has been
timed out. In `ServiceRegistry` a server boots, creates its node or finds the one of
its last life, whereupon a watcher thread retries; `Doubt`, `List`, `Fetch` and the
steps after them are one look of `detect_cluster_instance_status`, which reads the list
of servers node by node. `Cluster` conjoins them: a crash takes the server and its
scheduler thread together, a scheduler starts once its server has registered, and every
step of one leaves the other alone. Cluster's behaviours are behaviours of
`ScheduleLock` (theorem `ClusterLocks`).

**PartyTask.** A thread goes through `read`, `write` (the compare-and-set of
`_update_status`), `return` (of the cores), `report` and `wait` (for the scheduler's
answer); `want`, `seen` and `took` are its local variables. `Spawn` and `Stamp` are
`start_task`; `Process` the worker; `Stop` and `Detect` kill the process and then set a
status. Reports travel in `inbox`, out of order; `TimedOut` loses or delays one. `Poll`
is `collect_task_of_all_party`.

**JobScheduling.** `pc` walks through a round: `begin` (a waiting job), `look`,
`judge`, `halt` for each task in turn, `start`, `launch`, `failed` for each task to be
started, `conclude`, `finish`. `canceled` and `mem` are what the round has read
before it took the lock. `StopJob` is `DAGScheduler.stop_job`, used by `finish`, by
the request of a user (`StopAtHome`, `StopEverywhere`, or `RequestLost`) and by the
detector. At each command some parties do not get it, some carry it out without the
scheduler hearing of it, and of some the report of a task is lost. The job (its
dependencies, its mode, how much may go wrong) is chosen at the start.

**JobRerun.** Rows are `<<task, version>>`. `Schedule` is the round over the tasks,
`Conclude` the status of the job, its end, and the list of tasks with retries left.
`StopOld` and `CreateVersion` are `create_new_version_schedule_task`, by the
scheduler's thread or by that of a user's request, which runs at any time and takes no
lock; `SignalRerun`, `WakeJob` the signal and what the scheduler makes of it.

**JobAdmission.** `Submit`, `GiveUp` and `Queue` are the calls of `create_all_job`.
`Pick` takes the first waiting job of a scheduler; `Granted` and `Refused` are the
answers of one party to `resource_for_job`, in any order; `RollBack` returns the cores
of one that has granted them; `Start`, `NextTime` and `LimitExceeded` are the ends of
`schedule_waiting_jobs`. Two jobs may have two schedulers (`home`), which then interleave
party by party. `DetectWaiting`, `StopAsked` and `DetectEnded` are
`detect_resource_record`; `Conclude` and `Finish` stand for all of `JobScheduling`.
`Crash` stops a scheduler in the middle of a round or of a submission. A round is taken
to be shorter than the ten minutes after which the detector looks at held cores.

**TaskExecution.** A process has one of a few ids, used again when it has gone. It looks
its inputs up, hands them to a component in a child process, stores what comes out row by
row (tracking, table row, data, model), destroys the tables it has read, and reports. `Start` and `StartAgain` are the command and its repetition; `Detect`, `KillChildren`
and `KillWorker` go by the recorded ids.

**StandaloneStore.** A driver submits one process per partition; each takes a place in
the pool, opens a write transaction per output partition in order, runs, and commits.
`Driver` collects the results and stops at the first failure. Federation pushes an object
or a table and then a status, for which the puller polls.

**Warehouse and DataTables.** `Warehouse` is the promise: a write by a client that has the
table to itself leaves what it wrote, and an undisturbed read returns it; writes that are
given up or overlap leave anything. `DataTables` has the five operations of the code
(upload, delete, bind, drop, read), each a program counter over its statements. The
refinement mapping takes `content` to be what the row, the record and the partitions say
together, unless a write is under way, was given up, or overlapped another.

**DagParser and BfiaTranslator.** One action per task of the list, so that the order is
part of the model; overlapping lists of parties are kept because the code updates settings
on top of each other in list order. `BfiaTranslator` maps a job to BFIA and back
before it is parsed, by place instead of by name. The reference (`MeantInputs`,
`MeantConf`) says what a job means without any order.

**BfiaAdapter.** A round, a creation and a stop are threads that call one party at a time;
`Answered` and `Unanswered` are the answer and its loss, after which the call is tried
again. Containers run the component, push the output, and report.

**Enforcer, Permissions, Providers, JobInheritance, Site.** Requests proceed statement by
statement. Before each check a thread loads the rules: it selects the rows (`Select`), empties the
memory of its server (`Clear`) and fills it line by line (`Line`), then reads it (`Read`); every
other thread of the server may do the same in between, and what is written or deleted afterwards
goes by what the memory then shows (`AddRule`, `RemoveRule`). `LoadRoles` is a thread's load for its
next check, `Authenticate` any other request, which loads the rules to find out who asks. A
provider's row is saved, then its components one by one, with any of the lists in `Lists(p)`;
`RegisterFails` is the exception that leaves the rest unwritten. The check of another party's job
compares the components registered with those granted one by one (`LoadRules`, `CheckComponent`), at
a thread of its own; the job then loads tracking, models, metrics and statuses of its source in
steps, while the source is rerun or cleaned.

## 3. The runs

| Run | Instance | Shows |
|---|---|---|
| `rm_books` | 2 servers that register twice each, 2 jobs, 3 tasks | no core is lost or made up (`EngineConservation`), tasks fit into jobs (`TasksWithinJob`), a return is not refused as long as no restart with another configuration has put the books out (`ReturnNeverRefused`) |
| `cluster` | 2 servers, `TTL` 1, 2 crashes, 1 failure at ZooKeeper, a task on one of them | one scheduler at a time until a lock times out (`MutualExclusion`), the lock of a dead or stalled holder is taken over (`DeadLockRecovered`), a server has one node (`OneNode`) and comes to be listed (`EveryServerListed`), a task is not taken for lost while its server stays up (`NoFalseAlarm`) |
| `task` | both modes, one start, a cancel, the detector, 1 crash, 1 timeout | end status final (`EndIsFinal`), a stop ends the task (`StopEndsTheTask`), the polled verdict is the party's (`PolledVerdict`), cores come back (`CoresComeBack`), a RUNNING task ends (`RunningTaskEnds`) |
| `job` | 2 parties, a cancel; a chain of two tasks in both modes with one loss or crash, and two tasks side by side without | success is real and the end reaches the parties (`JobInv`), inputs exist before a task starts (`DependenciesFirst`), the job ends (`EveryJobEnds`) and so do tasks whose process has died (`DeadTasksEnd`) |
| `rerun` | 2 parties, 1 task, 1 automatic retry, 1 user, 1 loss or cancellation | a party never runs two versions (`OneVersionRuns`), retries are counted and a success is that of the current versions (`RerunInv`), the job comes to rest (`EveryRerunEnds`) |
| `admission` | 2 jobs of one scheduler or two, 2 parties with room for one at a time, or where one never fits; a cancel; 1 lost call or 1 crash | without a fault a job between rounds holds cores everywhere or nowhere, and a running job has its cores (`AdmissionInv`), cores of a job that does not run come back (`HeldCoresComeBack`), the first job in the queue does not block the others (`EveryJobComesIn`) |
| `bfia` | 2 roles at 2 parties, 2 chained tasks, 2 tries per call, 1 fault, 1 stop | what the scheduler calls a success has been run and stored everywhere and an ended job leaves nothing running (`BfiaInv`), components find their inputs (`InputsBeforeRun`), the job ends (`EveryJobEnds`) |
| `execution` | a task and one that takes its table and model, 2 process ids, 2 versions, 1 fault, 1 stop; without those, a third task beside them that may fail | inputs stay while they are used and for the next try, unless that was killed after its own success, and a known table has data (`DataStays`), a stop leaves no worker (`StopKillsAll`), tasks end (`EveryTaskEnds`) |
| `store` | keys 0..3, 1 or 2 partitions, a pool of 2, 1 party that pulls, 3 operations, 1 failing function | results are those of the whole table (`DataIsRight`), processes never wait for each other for ever (`EveryOperationEnds`), what was pushed arrives once, as it was (`EveryPushArrives`) |
| `dag` | 3 tasks, 3 parties, listed in any order, every kind of source, directly or over BFIA | nodes, inputs and settings are what the job means (`NodesAsMeant`), inputs exist when a task starts (`InputsExist`), a sound job runs to its last task (`EveryTaskRuns`) |
| `data` | 2 clients, 3 files, one of them unreadable, 3 operations, 1 kill | the count is that of the content and a failed upload costs one more at most (`TableRecovers`), the steps implement `Warehouse` (`KeepsPromise`), records of sessions go (`EverySessionGoes`) |
| `site` | 2 callers, 2 servers, 1 app, 2 clerks, 2 providers, 2 loaders, 3 or 4 events from outside | no app that is graded is left without a role unless its grading was cut short or misled by another thread's load, providers are whole or gone unless a registration failed or met another, nothing comes in that was not granted since it asked (`AccessInv`), what is inherited is whole (`InheritedWhole`) |

The mutants beside the definitions (`M_...`) are plausible slips (a dropped guard, a
reset in place of a difference, a step in the wrong order); each property is violated
by one of them under its own run.

### Bounds

- `rm_books`: demands 2 and 3 and configurations of 2 and 4 cores make jobs that fit
  together with nothing, alone, or not at all; three tasks of 1, 2 and 3 cores fill
  and overfill a job; two servers are the least that overlap. `MaxDrift` = 2 allows
  one overlap in either direction. The theorems remove all of these bounds.
- `cluster`: the clock reaches one tick past `TTL`; with two servers one may be the holder
  and the other the one that sees the timeout; a third, which retakes, is covered by the
  theorems, which hold for any number of servers, crashes and failures. Two crashes let a server
  come back and go again. `Hosts` says whose tasks the others worry about.
- `task`: every kind of caller is there once. Repeated starts are covered by the theorems
  only: with two of them the interleavings of all threads are beyond a run of minutes.
- `job`: two parties are what "one has it, the other has not" needs; two tasks are
  what an order, or a task left behind, needs. Losses and crashes are one at most, and the
  properties that depend on them say so. Theorems hold for any number.
- `rerun`: `MaxVersion` 3 leaves room for the retry, the user's version and one
  number wasted on a version that was created in part. A run of the safety properties with two users
  and four versions finds the same. The theorem has no bounds.
- `admission`: two jobs that exclude each other at each of two parties are the least that
  can hold what the other needs. `MaxFaults` = 1: a lost call *or* a crash (section 5 on
  two). `EveryJobComesIn` is about one scheduler: two can refuse each other for ever, each
  rolling back what the other has seen as taken.
- `bfia`: two tries (the code makes three) are what a repeated call needs.
- `execution`: two ids, so that an id is free again while a thread still knows it; a rerun
  gives a second version. With two tasks in a row nothing fails beside the one that runs, so
  the scheduler would never stop a task that is doing well: for that there is a third, which
  begins after the second and only without faults and users (`Instance`). The theorems have none of these
  bounds, and allow tables that several tasks take.
- `store`: keys that collide under the mapper (`\div 2`) and fall into different partitions
  (`% n`); a pool as large as an operation and smaller than two of them.
- `dag`: one guest and two hosts, so that lists of parties may overlap in part; a reader, a
  trainer and an evaluation have every kind of edge. All orders of the list.
- `data`: files with a key in common (an upload into a table overwrites); the unreadable file fails
  the upload half-way. Three operations are a write, what goes wrong with it, and the next.
- `site`: `Budgets` bounds what comes from outside, topic by topic, and a behaviour has one of five:
  2 requests about roles and a crash; 2 about grants, a crash and a job; 1 about grants, 2 about
  providers and a job; 3 about providers; a job and 3 events at its source or its calls. The
  interleaving of what they set off is not bounded. Requests about roles share nothing
  with the others but the crash, and the source nothing with permissions once the job is let in, so
  that no budget has both; together they are 2.1 million states, and the proofs need no bound. The callers, servers, clerks and loaders are interchangeable, hence the
  symmetry (`site` checks no liveness).

Deadlock is checked in `rm_books` only: a task, a job, or a client that is done has nothing
left to do.

### Fairness

- Rounds, polls, detectors and watchers are cron threads that run for ever
  (`fate_flow_server.py:91-93`), hence weak fairness on their steps.
- Threads that handle a request go on unless their server crashes: weak fairness on
  their next step (`Update`, `StopEverywhere \/ RequestLost`, `Rerunning`, `Step`, ...). A call is
  answered or times out.
- A process or a container ends in one way or another: weak fairness on
  `End \/ Vanish`, `EndTask`, `ComponentEnds`. It is *not* assumed to report.
- Cores: a refusal is always possible, so strong fairness on `StartJob \/ CancelWaiting` and on
  `Grant(t)` says that cores are granted once in a while. It is an assumption on
  the load, not on the code.
- `JobAdmission`: `run_do` visits the first waiting job and every running one in each
  round, so a job is not starved by the others: strong fairness on `Round(j)`. `Conclude` in
  `Round` says that a running job ends, which is the subject of `JobScheduling`.
- `Cluster`: time passes, ZooKeeper ends dead sessions, a server that is down is started again.
  Lock holders may work as long as they like: no fairness on `Finish`.
- `StandaloneStore`: processes, the driver, and parties that pull go on.
- `DagParser`: the parser is one thread; a started task ends.

## 4. The proofs

All proofs hold for every value of the constants, under the named assumptions of the
modules (`DemandAssumption`, `LockAssumption`, ...: finite sets of parties and tasks,
bounds that are numbers, names that differ), each of which TLC evaluates in a run.

Two modules hold the proofs of several components: `PartyProofs` those of what one party keeps for itself
(its books, one of its tasks), `SiteProofs` those of what its servers share.

**PartyProofs**, the books. From `DemandAssumption` and the two assumptions that
`Load` and `TaskLoad` are sums (the equations a sum obeys; a fold cannot be unfolded
by the provers, TLC evaluates the assumptions on the real sum). The invariant `EngineBooks`
states, `remaining + Load[jobInUse] + leaked = cores + drift`, is inductive with
typing; the tasks' counterpart likewise, together with the fact that tasks in use belong to
existing jobs. `ReturnsFit` and `TasksStayInside` follow by arithmetic, from loads
being monotone. `SingleServer` shows that with one server `drift` stays 0: what a server has read is
still what is configured. `CallsMakeNoDebt` is an action property from typing.

**SiteProofs**, the servers. `MutualExclusion` alone is not inductive: the step that takes the
lock needs to know that nobody works while the flag is clear. `LockInv` adds typing and
that fact. `Expire` is the step that would break both, and the one that sets `expired`. `ClusterLocks` shows that every step of the servers is one of the lock or
leaves it alone, so `ServersTakeTurns` is `LockExcludes` for all servers. `RegistryInv` is
`OneNode` with its typing, the fact that a process which is not up yet has no node and nothing
in its watch list (`NotUpYet`), and, as long as there was no trouble, that a server which has not been restarted
is up, has its node, and is in the list of every look that is about it (`SeenAlive`); the last
part is what makes `NoneTakenForDead` hold although a look is several reads.

**SiteProofs**, permissions, providers and inheritance. `SiteInv` has an invariant for each of the three and one
for their meeting, so that `AccessIsRight` and `InheritsAll` hold for any number of servers,
requests and failures.
`KeepsARole` alone is not inductive: between the delete and the insert of a grant an app has no
role, and the insert may be skipped because of what the server has in memory. `RightsInv` adds the
shape of requests and of loads (`CallsFit`, `LoadsFit`) and `RoleOrWriter`:
an app without a role, unless excused, has a request that will surely write one
(`WillGrade`). At each stage of that request's load, the lines in memory and those still to be put in
show no role of the app, and show that who asks may (`Bare`); once it is at the insert, the
memory of its server does not have the role. Another thread's `Clear` or `Line` that ends this is what
`Misled` names, and excuses the app; a delete by another request takes the role again, but
who deletes has its own insert still before it.
For providers, who works on one that is in no clash is alone, and what is owed to the provider and not
left to do is in the rows (`CatalogInv`). `CheckedSinceAsked` relates the check of another party's job to
the grants made since it asked: what the memory of its server shows, and what any thread has selected and not yet put
in, has been seen (`Remembered`). `InheritanceInv` says what each call of `start_job`
has copied when it is at its next part (`Loaded`): from the version the check saw, as long as the source is not touched, and
the status last; and that a source which was not cleaned has the outputs of the version that succeeded (`SourceWhole`). It needs `InheritanceAssumption`,
that versions are bounded by a number.

**PartyProofs**, the task. The inductive invariant `TaskInv` is typing with four facts: a
thread about to update never wants WAITING (`WantsToSet`); a stop wants an interrupt
(`StopsInterrupt`); in poll mode no report is on its way (`NoReports`); and a stop that
saw RUNNING finds the row RUNNING or ended (`StopSaw`). The key lemma is `StatusMoves`:
every change of the status is one step of the transition rules, from which `EndsAreFinal`
follows at once and `StopsEnd` and `PollIsTrue` with the invariant. `CoresReturn` has an
invariant of its own, `CoresOwed`: while a task that has ended has its cores there is a
thread between its update and its return whose update took effect; only that thread's
return, or a crash, takes it away (`ReturningStays`), and any number of starts, stops
and reports may be under way.

**JobSchedulingProofs.** `JobIInv` is typing, what the program counter implies (`RoundInv`),
`SuccessIsReal`, and two things that hold while the scheduler has heard of something
(`Heard`: in callback mode fewer losses than parties): what it has
in its rows (`TrueReports`) and in the memory of a round (`TrueMemory`) is backed by rows at
the parties that are final. In callback mode that again needs `OnceInv`: a task is started
once (`AliveRuns`, `HeardOfHasBegun`, `SilenceIsLoss`, `WaitingIsNotBegun`), which the lemma
`RowsMove` carries over every step that moves rows by the rules. `SuccessHolds` and
`DependenciesHold` follow. The guard `Heard` is not a convenience: see section 5.
`EndHolds` adds the end of the job (`EndInv`). `ToldInv` says what each place of a round knows of
the end and who has been told: a round that ends the job tells the parties twice, its second
message only ends what the first has missed, and so one fault leaves nobody out. That no
process is left needs more (`KnownRuns`), as long as nothing has gone wrong: the stop goes by the
party's row of the task over all parties, so whoever runs must never stand there as waiting
or successful (`AliveKnown`); which holds because a task that the scheduler takes for waiting has not begun
or is refused (`NotSeenRunning`, in poll mode by the look that precedes the judgement), and because
that row only follows the scheduler's (`KnownStatus`). `CalmRows` is what all steps but a start do.

**JobRerunProofs.** `OneVersionRuns` is not inductive; `VersionsInv` says, while nothing is lost, that
the parties and the scheduler know the same versions (`Agreed`), that a version has begun at
all parties or at none (`Together`), that every version but the latest has ended everywhere
(`OlderEnded`), that a row which reads interrupted, at the scheduler or in the list of a
thread, is of a version that has begun (`Interrupted`, `Listed`), and that the version before the one
being created has ended (`Creating`). A stop of a version that has begun ends it; that is why
the next one may be made, however old the list is that asked for it. `Drift` collects what
all other steps do to the statuses, so that one lemma (`DriftKeeps`) serves them all.
`RowsHold` (`RerunInv`) holds whatever is lost, and has an invariant of its own, `RowsInv`: typing of
all that the threads have in memory; every version the scheduler knows is known to the parties
(`Known`); as long as nobody has asked, versions made and retries left of a task add up to what was
configured, also while the scheduler goes through its list, whose rows are of current
versions, one per task (`Counted`); and a success is that of the current versions or someone is excused
(`Succeeded`): the signal is set, or a user is making versions or has given up. The last excuse
is a finding (section 5, reruns).

**JobAdmissionProofs.** `AdmissionIInv` is typing and, for each job, what the place of its
scheduler says about answers, cores and statuses. The jobs are independent but for the room at a
party, which only matters for granting, so a step is looked at for the job it is about.

**DataTablesProofs.** `IInv` is typing, for each client what its program counter says it has in its hands
(`InPlace`, `Reads`), and, unless two writes have overlapped, what the one writer
has done so far and what the table looks like between writes or after a writer has failed.
From it `TablesRecover`, and the *refinement* `PromiseKept`: under the mapping of `DataTables`
each step is a step of `Warehouse` or a stutter, with the lemmas `StillWriting`, `WriteGivenUp`,
`WriteEnds`, `NobodyWrites`, `ReadEnds` for the shapes it may take.

**TaskExecutionProofs.** `DataHolds` (`DataStays`) and `StopsKillAll` follow from `ProcessesAndData`.
Its invariant `IInv` relates four things that are changed by different processes: the statuses of
the versions (`OneByOne`, `InputsDone`: what has begun has inputs whose current version has
succeeded, and no rerun replaces that one), the ids recorded for them (`Live`: every worker is
found by its id in the list of its start, and with one start of a version it is there only while
the row says RUNNING, which is why a stop by ids misses none, though it may hit another worker
that has an id by now), what
each worker has in its hands (`Fine`: items it still has to record have data and no row, items
it was handed have data, a table it is about to drop is no longer known), and, while nothing is lost,
the books of the outputs (`Books`: a success has recorded everything, and a table that has
gone was destroyed by a task that takes it and has stored its outputs). Each action has a lemma; a process
it does not touch stays fine because of what `Around` allows others to do, which is the
only place where two workers meet: `NobodyElses` shows that a table one worker drops is input of no
other, unless the table is shared or a version was started twice.

**BfiaAdapterProofs.** `EndIsWhatItSays` and `ComponentsFindInputs` follow from `BfiaAdapter`'s inductive invariant
(`BfiaAlways`), which TLC has confirmed on the instance of `bfia`. `BfiaInv` alone is not inductive: a call that has still to be made,
or is made again, would be the next step to break it, and no lock keeps rounds, requests and
containers apart. So `CallsSound` says what a call under way may be: a task is polled only when it has begun at all
parties (a poll before that would answer for the roles that have), and started only when the outputs it takes are stored.
`TasksKnown` says what the scheduler's rows and the round's memory are worth: SUCCESS is backed by
rows and outputs at the parties, which are final; a status of a party that is not READY means that the task has begun everywhere. `RoundFits`
ties the calls of the round to the place it is at, so that a start which all parties have
answered well has left its rows, also when a try of it went unanswered. `CalmFits` is for the end of a job, while nothing is
lost and nobody asks to stop: a row that reads RUNNING has a container that runs, hence no detector
stops the job; the job's status goes with the round; and what runs when it ends is being killed or has a
stop under way to its party. What a handler does at a party is one lemma (`HandleParty`) for the call that is answered,
the one that is not, and the one made twice; every other step has a lemma of its own.

Only model-checked: liveness (out of the prover's reach, as is ENABLED), and three properties of pure data:
`DataIsRight` of `StandaloneStore` and `NodesAsMeant` and `InputsExist` of `BfiaTranslator`. These compare what
a fold over partitions, or a filter over the lists of a job, computes with what it should; that
needs an induction over the data, which the provers do not do.

## 5. What the code does that one would not expect

Each was met while modelling; the properties say what holds in spite of it.

Jobs and tasks:

- In callback mode a status the party has *refused* is reported to the scheduler all the same
  (`controller/task.py:313`). With as many losses as parties (one party and one lost report)
  a job can become SUCCESS though its task is FAILED at the party: the unheard task is
  started again, refuses, and reports. Hence `Heard` in `SuccessIsReal`.
- A round that read the cancel signal before it took the lock starts a task after the
  stop (`scheduler/scheduler.py:431`); such a task is stopped in the end.
- The lock that is released as timed out may be a fresh one: between the look and the
  release another scheduler may have released and retaken it (`utils/schedule_utils.py:62`).
- In poll mode a task that fails before the first poll is started again without a retry
  being configured (`scheduler/scheduler.py:450`, `:546`), and a chain whose first task
  fails early can keep a canceled job from ending.
- A job that the detector stops at all parties because it held cores while it waited is
  started all the same (`scheduler/scheduler.py:289` does not save the end).
- `DAGScheduler.stop_job` does not pass the status on and the parties take the default
  FAILED (`scheduler/scheduler.py:291`, `controller/job.py:144`), while the docstring at
  `scheduler/scheduler.py:52` says "In which state to stop the task": a canceled job may end as FAILED.
- When `create_all_job` fails, the scheduler's row stays READY (`scheduler/scheduler.py:383`).
- In callback mode a lost report is not repeated, and an end that overtakes RUNNING is
  refused: the task stays behind at the scheduler until the job is canceled or times out.
- `stop_job` of a party leaves tasks alone whose `f_status` is WAITING, a status that
  lags behind the process. `detect_end_task` skips every task that has an end
  time, because the time passed is computed the wrong way round (`scheduler/detector.py:111`).
- A party that crashes between the end of a task and the return of its cores keeps them
  in the job until the job ends. With two faults cores may stay for good: a party that
  misses the end of a job whose scheduler then dies before `finish` keeps its copy RUNNING.

Reruns: `schedule_rerun_job` runs the tasks of a job that still waits for its cores
(`scheduler/scheduler.py:234`); a party that misses the WAITING of a rerun may keep its cores; a
second request kills the version the first has started; to create a row that exists is a
silent no-op (`db/base_models.py:425-431`); a rerun clears the cancel signal. A request that
cannot make a version of some task ends in an exception (`controller/task.py:243`) with the versions of other
tasks made and no signal to run them: the job stays SUCCESS, and the current versions of those tasks
are WAITING for good. Hence `GaveUp` in `SuccessIsCurrent`.

Cluster: a server that restarts before its old session is gone is unlisted for a while; a failed
call to ZooKeeper looks like an empty list (`manager/service/service_manager.py:173-177`), so tasks of
living servers are stopped; a session lost by a living server is never registered again;
`threading_lock` makes a new lock at each call and so excludes nobody.

Tables: overlapping writers are not kept apart; a row without an engine's table makes every
upload and delete fail; an upload that races a delete leaves stale partition files; the name of a
bound path can only be dropped or bound again (`NotImplementedError`); a failed upload leaves a
visible empty table, and a download during an upload returns an empty file; sessions past their
time are destroyed even if in use. `_create_table` with an existing record is wrong at
`engine/storage/standalone/_standalone.py:782`.

Workers: several data items of one output share one metadata object
(`hub/components_wraps/fate/_wraps.py:506-515`); the content of a model is overwritten per version
while its row stays; input tables are destroyed only after a success, but before that success
is reported (`_wraps.py:95-96`): a stop that arrives in between, because a task beside it has failed, makes
the task FAILED (`controller/job.py:170`) with its outputs stored and its input tables gone, and its next version
fails for want of inputs; hence `Stored` in `RetryFindsInputs`. A table that several tasks take
is destroyed by the first of them that succeeds, whoever still has to read it (`Shared`).

Parser and BFIA: settings of a site for a task of which the site is no party raise a KeyError
(`controller/parser.py:602-606`); `component.name == "task_name"` compares with a literal in
`adapter/bfia/translator/dsl_translator.py`; over BFIA the parameters of parties, the settings of a
job but one, inputs from the model warehouse and channels with explicit parties are lost.
`callback_task_to_scheduler` is never called; `bridge/job.py:48-60` shows FINISHED as SUCCESS;
`stop_local_task` uses a field that does not exist; a stop of one task sets the whole job FINISHED; a
start after a stop leaves the task running; a creation that fails at some parties leaves the others with
their rows (`adapter/bfia/scheduler/scheduler.py:108-111`).

Site: deleting the grant of "*" has no lasting effect (`db/casbin_models.py:75`); a component that is
no longer registered cannot be revoked; two grants at a time may leave both roles, and a crash
between the delete and the insert none. The threads of a server fill one enforcer without a lock
(`db/casbin_models.py:36-38`, `127-130`): a thread that selected the rows before a role was deleted can
put it back into memory between another's check and its insert, which is then skipped, and the app
is left without a role; a memory that is half filled can have a grant refused after its delete. `KeepsARole`
excuses these apps (`Misled`), and TLC finds it violated without that excuse, as without those for crashes
and for roles deleted as such. A registration whose package cannot be loaded leaves the provider's
row without components (`manager/service/provider_manager.py:69-71`, `87-89`), which
`WholeOrGone` excuses as `clash`; components of an earlier list stay when a provider is registered with
another (`84-85`), so that it is listed with those of both. `delete_app` leaves the rows of roles; the admin app is
deleted and made again at every start; a registration that races a delete leaves components
without a provider. An inheriting job shares the tables and models of its source, so that cleaning one
destroys those of the other; PASS of a source passes the check but WAITING may not become PASS, so the
task is run anew; a start that is repeated duplicates metrics, and may mark a RUNNING job FAILED.

## 6. What the modelled parts leave out

- `ResourceManager`: memory (no code sets it to anything but 0).
- `PartyTask`: versions of a task; the time between the two SELECTs of the detector is
  one step (a change in between makes it do nothing).
- `JobScheduling`: reruns (`JobRerun`); several waiting jobs (`JobAdmission`); a federated
  command to all parties is one step, and so are the handling of a command at a party and of a
  report at the scheduler; a report may be lost but not overtake another one (`PartyTask` has
  that). Inherited and skipped tasks do not occur, so neither does PASS.
- `JobRerun`: a round is two steps and sees the parties' statuses; what gets lost are commands.
- `JobAdmission`: tasks; reruns; the lock; a copy of a call to return cores that arrives a
  round too late, and the time between the detector's SELECT and its return of cores. A
  command to all parties is one step, except the one that applies for cores.
- `ServiceRegistry`: one task is looked at per look; sessions are own or old.
- `TaskExecution`: the start is one step; optional inputs, metrics and contents; a start is
  repeated only while the task runs and is not being killed; one thread kills a version.
- `StandaloneStore`: partitioner `k % n`, reducer by concatenation, mapper `\div 2`; a process's
  outputs commit together; single-key calls, collect, count and take; handles; tags are used once.
- `DataTables`: the detector looks at sessions not in use only; temporary files, the schema and
  the sample kept with a row; downloading a bound path just answers so.
- `DagParser`: stages; lists of one element; data sets of a whole job; roles are listed once per
  list; cycles, and code that nothing calls.
- `BfiaAdapter`: a party handles a call in one step; the creation of rows of tasks is one step;
  the detector asks only while no stop is under way; polling only (no code calls back).
- `Site`: one task at one party is inherited, the outputs of a run are written in one step; the
  administrator `boss` is never regraded; the several loads of one check are one load before it; casbin
  itself, whose version is not pinned (`setup.py:25`): a load is modelled as select, clear, lines, equal rows of the table count as
  one, and the exceptions it may raise over a memory that another thread is filling are left out; permissions on
  data sets are handled like those on components.

## 7. What could come next

An abstract life of a job, implemented by `JobScheduling`; a composition of
`PartyTask` with `ResourceManager` in which a task's cores are those of the books.

## 8. Not modelled

- *HTTP interface and server start* (`apps/*`, `fate_flow_server.py`): routing and arguments; what
  handlers do is in the modules of the components they call.
- *Engines outside of the repository*: EggRoll, HDFS, Hive, MySQL, Spark, container platforms and
  DeepSpeed. Their clients translate calls and keep no state of their own.
- *Proxies and gateways* between sites, signatures of requests.
- *Queries*: listings, logs, notes, progress shown to users, packing files for download.
- The database variant of the service registry, which writes and reads one row.
