---------------------------- MODULE BfiaTranslator ---------------------------
(***************************************************************************)
(* Jobs of the BFIA protocol (adapter/bfia/translator/dsl_translator.py).  *)
(* A job that is sent to FATE-Flow in its own form is turned into the form *)
(* of BFIA (adapter/bfia/bridge/job.py), which names parties by their      *)
(* place in the list of a role and inputs by their place in the list of    *)
(* the component; the scheduler and every node turn that back before they  *)
(* parse it (adapter/bfia/wheels/parser.py).                               *)
(*                                                                         *)
(* A BFIA job is a record                                                  *)
(*   roles      for each role the sequence of its members                  *)
(*   comps      the tasks: name, component, provider, params and the       *)
(*              sequences input (type, from, key) and output (type, alias) *)
(*   jobParams  per role and place the settings of parties                 *)
(*   taskParams per role and place the task with its data set              *)
(* The parameters a party has for a task are left out on the way: what     *)
(* get_party_task_params returns is empty.                                 *)
(***************************************************************************)
EXTENDS DagParser, FiniteSets

CONSTANTS
  RoleOrder, \* the roles in the order of the fields of RoleSpec
  Jobs       \* jobs a user sends

Roles == ToSet(RoleOrder)

(***************************************************************************)
(* Parties and their places.                                               *)
(***************************************************************************)
Indexes(roles, role, parties) ==
  {i \in DOMAIN roles[role] : [role |-> role, id |-> roles[role][i]] \in parties}

At(roles, role, indexes) ==
  {[role |-> role, id |-> roles[role][i]] : i \in indexes}

RolesOf(parties) == SelectSeq(RoleOrder, LAMBDA r : \E p \in parties : p.role = r)

\* An entry of a dictionary of roles and places, in the order of insertion.
Put(entries, e) ==
  LET same(f) == f.role = e.role /\ f.indexes = e.indexes
  IN IF \E i \in DOMAIN entries : same(entries[i])
     THEN [i \in DOMAIN entries |-> IF same(entries[i]) THEN e ELSE entries[i]]
     ELSE Append(entries, e)

ByRole(entries) ==
  FlattenSeq([i \in DOMAIN RoleOrder |->
               SelectSeq(entries, LAMBDA e : e.role = RoleOrder[i])])

(***************************************************************************)
(* To BFIA.                                                                *)
(***************************************************************************)
PutAll(entries, d, parties, Entry(_, _)) ==
  FoldLeft(LAMBDA acc, r : Put(acc, Entry(r, Indexes(d.roles, r, parties))),
           entries, RolesOf(parties))

JobParams(d) ==
  FoldLeft(LAMBDA acc, s :
             IF s.conf = <<>> THEN acc
             ELSE PutAll(acc, d, s.parties,
                         LAMBDA r, ix : [role |-> r, indexes |-> ix,
                                         conf |-> s.conf]),
           <<>>, d.sites)

\* The data sets of a task; a later one takes the place of everything its
\* parties had before.
PutDatasets(entries, d, t) ==
  FoldLeft(LAMBDA acc, ch :
             PutAll(acc, d,
                    IF ch.parties = {} THEN RunsAt(d, t) ELSE ch.parties,
                    LAMBDA r, ix : [role |-> r, indexes |-> ix,
                                    task |-> t, dataset |-> ch.from]),
           entries,
           FlattenSeq([i \in DOMAIN d.task[t].inputs |->
             LET in == d.task[t].inputs[i]
             IN IF in.type = "data" /\ in.source = "data_warehouse"
                THEN in.channels ELSE <<>>]))

TaskParams(d) ==
  FoldLeft(LAMBDA acc, t : PutDatasets(acc, d, t), <<>>, d.order)

\* The inputs in the order of the component, those the task does not take
\* from another one left out.
TaskInput(d, t, in) ==
  SelectSeq(d.task[t].inputs,
            LAMBDA i : /\ i.type = in.type /\ i.key = in.key
                       /\ i.source = "task_output")

InputList(d, t) ==
  FlattenSeq([i \in DOMAIN Specs[d.task[t].component].ins |->
    LET in == Specs[d.task[t].component].ins[i]
        given == TaskInput(d, t, in)
    IN [j \in DOMAIN given |-> [type |-> in.type,
                                from |-> given[j].channels[1].from,
                                key |-> given[j].channels[1].key]]])

OutputList(d, t) ==
  FlattenSeq([i \in DOMAIN Specs[d.task[t].component].outs |->
    LET out == Specs[d.task[t].component].outs[i]
        given == SelectSeq(d.task[t].outputs,
                   LAMBDA o : o.type = out.type /\ o.key = out.key)
    IN [j \in DOMAIN given |-> [type |-> out.type, alias |-> given[j].alias]]])

\* The exceptions on this way: no provider, or a list of channels.
CannotSend(d) ==
  \E t \in Listed(d) :
     \/ "provider" \notin DOMAIN d.task[t].conf
     \/ \E i \in DOMAIN d.task[t].inputs :
          /\ d.task[t].inputs[i].source = "task_output"
          /\ Len(d.task[t].inputs[i].channels) > 1

ToBfia(d) ==
  [roles |-> d.roles,
   comps |-> [i \in DOMAIN d.order |->
     LET t == d.order[i]
     IN [name |-> t, component |-> d.task[t].component,
         provider |-> d.task[t].conf["provider"],
         params |-> d.task[t].params,
         input |-> InputList(d, t), output |-> OutputList(d, t)]],
   jobParams |-> ByRole(JobParams(d)),
   taskParams |-> ByRole(TaskParams(d))]

(***************************************************************************)
(* And back.                                                               *)
(***************************************************************************)
AllParties(b) == UNION {At(b.roles, r, DOMAIN b.roles[r]) : r \in Roles}

\* The n-th input (output) of a type gets the n-th name of that type.
NthOfType(names, items, i) ==
  LET n == Len(SelectSeq(SubSeq(items, 1, i),
                         LAMBDA x : x.type = items[i].type))
  IN SelectSeq(names, LAMBDA x : x.type = items[i].type)[n].key

TaskInputs(c) ==
  [i \in DOMAIN c.input |->
     [type |-> c.input[i].type,
      key |-> NthOfType(Specs[c.component].ins, c.input, i),
      source |-> "task_output",
      channels |-> <<[from |-> c.input[i].from, key |-> c.input[i].key,
                      parties |-> {}]>>]]

TaskOutputs(c) ==
  [i \in DOMAIN c.output |->
     [type |-> c.output[i].type,
      key |-> NthOfType(Specs[c.component].outs, c.output, i),
      alias |-> c.output[i].alias, parties |-> {}]]

\* The data sets of the task, one channel per entry, on the component's
\* first input; that has no place where the task has models only.
DatasetChannels(b, t) ==
  LET mine == SelectSeq(b.taskParams, LAMBDA e : e.task = t)
  IN [i \in DOMAIN mine |->
        [from |-> mine[i].dataset, key |-> None,
         parties |-> At(b.roles, mine[i].role, mine[i].indexes)]]

AddDatasets(b, c) ==
  LET chs == DatasetChannels(b, c.name)
  IN IF chs = <<>> THEN TaskInputs(c)
     ELSE Append(TaskInputs(c),
            [type |-> "data", key |-> Specs[c.component].ins[1].key,
             source |-> "data_warehouse", channels |-> chs])

CannotRead(b) ==
  \E i \in DOMAIN b.comps :
    LET c == b.comps[i]
    IN /\ DatasetChannels(b, c.name) # <<>> /\ c.input # <<>>
       /\ \A j \in DOMAIN c.input : c.input[j].type # "data"

BfiaSites(b) ==
  [i \in DOMAIN b.jobParams |->
     [parties |-> At(b.roles, b.jobParams[i].role, b.jobParams[i].indexes),
      conf |-> b.jobParams[i].conf, task |-> <<>>]]

ToDag(b) ==
  [kind |-> "BFIA", roles |-> b.roles, parties |-> AllParties(b),
   conf |-> <<>>, model |-> None,
   order |-> [i \in DOMAIN b.comps |-> b.comps[i].name],
   task |-> [t \in {b.comps[i].name : i \in DOMAIN b.comps} |->
     LET c == b.comps[CHOOSE i \in DOMAIN b.comps : b.comps[i].name = t]
     IN [component |-> c.component,
         parties |-> {p \in AllParties(b) : p.role \in Specs[c.component].roles},
         conf |-> "provider" :> c.provider, params |-> c.params,
         inputs |-> AddDatasets(b, c), outputs |-> TaskOutputs(c)]],
   sites |-> BfiaSites(b)]

(***************************************************************************)
(* A submitted job, parsed and run.                                        *)
(***************************************************************************)
Init ==
  /\ submitted \in Jobs
  /\ error = (submitted.kind = "BFIA"
               /\ (CannotSend(submitted) \/ CannotRead(ToBfia(submitted))))
  /\ dag = IF submitted.kind = "BFIA" /\ ~error THEN ToDag(ToBfia(submitted))
           ELSE submitted
  /\ parsed = 0
  /\ nodes = [p \in Members |-> {}]
  /\ edges = [p \in Members |-> {}]
  /\ node = [p \in Members |-> {}]
  /\ LET empty == [p \in Members |-> [t \in Listed(submitted) |-> <<>>]]
     IN upstream = empty /\ conf = empty /\ params = empty
  /\ outputs = [p \in Members |-> [t \in Listed(submitted) |-> {}]]
  /\ status = [t \in Listed(submitted) |-> "waiting"]
  /\ written = [p \in Members |-> {}]
  /\ missed = {}

Next ==
  \/ InitNodes
  \/ ParseTask
  \/ \E t \in Names : StartTask(t)
  \/ \E t \in Names : FinishTask(t)

FairSpec == Init /\ [][Next]_vars /\ WF_vars(Next)

(***************************************************************************)
(* What a job means, whatever the order of its tasks.                      *)
(***************************************************************************)
WellFormed(d) ==
  \A t \in Listed(d) :
    /\ RunsAt(d, t) \subseteq d.parties
    /\ \A in \in ToSet(d.task[t].inputs) : \A ch \in ToSet(in.channels) :
         in.source = "task_output" => ch.parties \subseteq RunsAt(d, ch.from)
    /\ \A s \in ToSet(d.sites) :
         s.conf # <<>> \/ t \in DOMAIN s.task => s.parties \subseteq RunsAt(d, t)

ChannelsFor(d, p, in) ==
  SelectSeq(in.channels,
    LAMBDA ch : \/ p \in ch.parties
                \/ /\ ch.parties = {}
                   /\ in.source = "task_output" => p \in RunsAt(d, ch.from))

\* The last source that has something for the party.
SourceFor(d, p, t, k) ==
  LET has == SelectSeq(d.task[t].inputs,
               LAMBDA in : /\ <<in.type, in.key>> = k
                           /\ ChannelsFor(d, p, in) # <<>>)
  IN [source |-> Last(has).source,
      refs |-> LET chs == ChannelsFor(d, p, Last(has))
               IN [i \in DOMAIN chs |->
                    <<IF chs[i].from = None THEN d.model ELSE chs[i].from,
                      chs[i].key>>]]

MeantInputs(d, p, t) ==
  [k \in {<<in.type, in.key>> : in \in
            {i \in ToSet(d.task[t].inputs) : ChannelsFor(d, p, i) # <<>>}} |->
     SourceFor(d, p, t, k)]

MeantConf(d, p, t) ==
  LET mine == SelectSeq(d.sites, LAMBDA s : p \in s.parties)
      levels == IF mine = <<>> THEN <<d.task[t].conf, d.conf>>
                ELSE <<SiteTask(mine[1], t).conf, mine[1].conf,
                       d.task[t].conf, d.conf>>
  IN [x \in UNION {DOMAIN levels[i] : i \in DOMAIN levels} |->
        SelectSeq(levels, LAMBDA l : x \in DOMAIN l)[1][x]]

(***************************************************************************)
(* What the form of BFIA can say of a job: a task runs at every party of   *)
(* the roles its component supports, an input comes whole from one task,   *)
(* the inputs of a type are the first ones of the component, a type has    *)
(* one output, which is declared if it is read, every party has one data   *)
(* set in the job, on the first input of a task, and the task has no model *)
(* without data besides.                                                   *)
(***************************************************************************)
DatasetUses(d, p) ==
  {<<t, i, j>> \in Listed(d) \X (1..3) \X (1..3) :
     /\ i \in DOMAIN d.task[t].inputs
     /\ d.task[t].inputs[i].source = "data_warehouse"
     /\ j \in DOMAIN d.task[t].inputs[i].channels
     /\ LET ch == d.task[t].inputs[i].channels[j]
        IN p \in IF ch.parties = {} THEN RunsAt(d, t) ELSE ch.parties}

FirstOnesGiven(given, names) ==
  \A i, j \in DOMAIN names :
     (i < j /\ names[i].type = names[j].type
       /\ <<names[j].type, names[j].key>> \in given)
     => <<names[i].type, names[i].key>> \in given

PortableTask(d, t) ==
  LET task == d.task[t]
      spec == Specs[task.component]
      fromTasks == {in \in ToSet(task.inputs) : in.source = "task_output"}
  IN /\ RunsAt(d, t) = {p \in d.parties : p.role \in spec.roles}
     /\ "provider" \in DOMAIN task.conf
     /\ \A in \in fromTasks :
          /\ Len(in.channels) = 1 /\ in.channels[1].parties = {}
          /\ \E o \in ToSet(d.task[in.channels[1].from].outputs) :
               o.type = in.type /\ o.alias = in.channels[1].key
     /\ FirstOnesGiven({<<in.type, in.key>> : in \in fromTasks}, spec.ins)
     /\ \A i \in DOMAIN task.inputs :
          \/ task.inputs[i].source = "task_output"
          \/ /\ task.inputs[i].source = "data_warehouse"
             /\ task.inputs[i].key = spec.ins[1].key
             /\ i = Len(task.inputs)
             /\ \A in \in fromTasks : in.type = "data"
     /\ \A o, q \in ToSet(task.outputs) : o.type = q.type => o = q

Portable(d) ==
  /\ \A t \in Listed(d) : PortableTask(d, t)
  /\ \A p \in Members : Cardinality(DatasetUses(d, p)) <= 1

Sound(d) == WellFormed(d) /\ (d.kind = "BFIA" => Portable(d))

(***************************************************************************)
(* Properties.                                                             *)
(***************************************************************************)

\* Whatever the order in which a job lists its tasks, and whether it goes
\* the way over BFIA or not, a party has the tasks that are meant for it and
\* each reads at that party what the job says (parser.py:435-541, and the
\* two translations).
MeaningKept ==
  Parsed /\ Sound(submitted) =>
    \A p \in Members, t \in Listed(submitted) :
      /\ t \in node[p] <=> p \in RunsAt(submitted, t)
      /\ t \in node[p] => upstream[p][t] = MeantInputs(submitted, p, t)

\* The setting that counts is the most specific one: of the site for the
\* task, of the site, of the task, of the job (parser.py:411-415, 583-622).
MostSpecificCounts ==
  /\ Parsed /\ WellFormed(submitted) /\ submitted.kind = "FLOW"
  /\ \A i, j \in DOMAIN submitted.sites :
       i # j => submitted.sites[i].parties \cap submitted.sites[j].parties = {}
  => \A p \in Members : \A t \in node[p] :
       conf[p][t] = MeantConf(submitted, p, t)

\* The nodes of a party, where they run, what they read and their settings, are what the
\* job means.
NodesAsMeant == MeaningKept /\ MostSpecificCounts

\* A task that the scheduler starts finds at every party the outputs its
\* node there reads: the producers the scheduler waits for ran at that party
\* and wrote the output under that name (scheduler.py:464-473,
\* wheels/parser.py:57-104 of the adapter).
InputsExist == missed # {} => ~Sound(submitted)

\* A job that is sound is parsed and each of its tasks runs.
EveryTaskRuns ==
  Sound(submitted) ~> \A t \in Listed(submitted) : status[t] = "success"

==============================================================================
