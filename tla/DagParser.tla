------------------------------ MODULE DagParser ------------------------------
(***************************************************************************)
(* From a submitted job to the tasks each party runs: the parser of        *)
(* controller/parser.py walks the tasks in the order in which the job      *)
(* lists them, and keeps per party a graph, the node of every task, what   *)
(* the task reads, what it declares to write and its configuration.        *)
(* controller/task.py makes the rows of the tasks from it, and the         *)
(* scheduler starts a task when the tasks it infers from the inputs are    *)
(* done.                                                                   *)
(*                                                                         *)
(* A job is a record                                                       *)
(*   kind      the protocol, FLOW or BFIA (BfiaTranslator)                 *)
(*   parties   the parties of the job; roles, the members of each role in  *)
(*             the order they are listed                                   *)
(*   conf      settings of all tasks, model the model it starts from       *)
(*   order     the names of the tasks as listed                            *)
(*   task      for each name: the component, the parties ({} when none     *)
(*             are stated), conf, params, and the sequences inputs and     *)
(*             outputs                                                     *)
(*   sites     a sequence of party_tasks: parties, conf, task              *)
(* An input has a type, a key, a source and the channels of that source; a *)
(* channel has from (a task, a data set or a model), key (the output of    *)
(* the task) and parties.  Settings are partial functions.                 *)
(***************************************************************************)
EXTENDS Naturals, Sequences, SequencesExt

CONSTANTS
  Names,     \* names a task can have
  Members,   \* parties, records [role, id]
  Specs,     \* what a component is: its roles, and the sequences ins and
             \* outs of the types and keys of its inputs and outputs
  None       \* a model that is not given

VARIABLES
  submitted, \* the job the user sent
  dag,       \* the job the parser works on
  parsed,    \* how many tasks of the list are parsed; 0 before the graphs
  error,     \* the parser raised an exception: the job is not created
  nodes,     \* nodes of the graph of each party (self._dag)
  edges,     \* its edges
  node,      \* tasks each party has a node of (self._tasks)
  upstream,  \* what each of these tasks reads at the party
  outputs,   \* what it declares to write
  conf,      \* its settings
  params,    \* its parameters
  status,    \* of each task, at the scheduler
  written,   \* outputs a party has stored, as <<task, key>>
  missed     \* inputs a task looked for and did not find

parserVars == <<nodes, edges, node, upstream, outputs, conf, params>>
runVars == <<status, written, missed>>
vars == <<submitted, dag, parsed, error, parserVars, runVars>>

Update(old, new) == new @@ old

RunsAt(d, t) ==
  IF d.task[t].parties = {} THEN d.parties ELSE d.task[t].parties

Listed(d) == ToSet(d.order)

(***************************************************************************)
(* Graphs and nodes.                                                       *)
(***************************************************************************)
InitNodes ==
  /\ parsed = 0 /\ ~error /\ nodes = [p \in Members |-> {}]
  /\ IF \A t \in Listed(dag) : RunsAt(dag, t) \subseteq dag.parties
     THEN /\ node' = [p \in Members |->
                       {t \in Listed(dag) : p \in RunsAt(dag, t)}]
          /\ nodes' = node'
          /\ parsed' = 1
          /\ UNCHANGED error
     ELSE /\ error' = TRUE
          /\ UNCHANGED <<node, nodes, parsed>>
  /\ UNCHANGED <<submitted, dag, edges, upstream, outputs, conf, params,
                 runVars>>

(***************************************************************************)
(* Settings: those of the job, those of the task, then site by site those  *)
(* of the site and those the site has for this task.                       *)
(***************************************************************************)
SiteTask(s, t) ==
  IF t \in DOMAIN s.task THEN s.task[t] ELSE [conf |-> <<>>, params |-> <<>>]

SiteFits(s, t) ==
  \/ s.conf = <<>> /\ SiteTask(s, t).conf = <<>> /\ SiteTask(s, t).params = <<>>
  \/ s.parties \subseteq {p \in Members : t \in node[p]}

ConfOf(p, t) ==
  FoldLeft(LAMBDA acc, s :
             IF p \in s.parties
             THEN Update(Update(acc, s.conf), SiteTask(s, t).conf)
             ELSE acc,
           Update(dag.conf, dag.task[t].conf), dag.sites)

ParamsOf(p, t) ==
  FoldLeft(LAMBDA acc, s :
             IF p \in s.parties THEN Update(acc, SiteTask(s, t).params)
                                ELSE acc,
           dag.task[t].params, dag.sites)

(***************************************************************************)
(* Inputs.  A channel with parties is for these, one without is for every  *)
(* party (warehouses) or for the parties whose graph has the producer.     *)
(* An edge adds its producer to the graph.                                 *)
(***************************************************************************)
TaskCanRun(p, parties) == p \in parties

\* A plausible slip: the graph is built while the tasks are parsed.
M_Keeps(p, graph, source, ch) ==
  IF ch.parties # {} THEN TaskCanRun(p, ch.parties)
  ELSE source = "task_output" =>
         ch.from \in {dag.order[i] : i \in 1..parsed} \cap graph

Keeps(p, graph, source, ch) ==
  IF ch.parties # {} THEN TaskCanRun(p, ch.parties)
  ELSE source = "task_output" => ch.from \in graph

AsRead(source, ch) ==
  IF source = "model_warehouse" /\ ch.from = None
  THEN <<dag.model, ch.key>> ELSE <<ch.from, ch.key>>

ReadInput(p, acc, in) ==
  LET kept == SelectSeq(in.channels,
                        LAMBDA ch : Keeps(p, acc.graph, in.source, ch))
      from == {ch.from : ch \in ToSet(kept)}
      read == [source |-> in.source,
               refs |-> [i \in DOMAIN kept |-> AsRead(in.source, kept[i])]]
  IN IF kept = <<>> THEN acc
     ELSE [reads |-> Update(acc.reads, <<in.type, in.key>> :> read),
           graph |-> acc.graph \cup
                       IF in.source = "task_output" THEN from ELSE {},
           from |-> acc.from \cup
                       IF in.source = "task_output" THEN from ELSE {}]

UpstreamInputs(p, t) ==
  FoldLeft(LAMBDA acc, in : ReadInput(p, acc, in),
           [reads |-> <<>>, graph |-> nodes[p], from |-> {}],
           dag.task[t].inputs)

(***************************************************************************)
(* Outputs: the dictionary of a type is made anew for every key, because   *)
(* the key is looked up among the types.                                   *)
(***************************************************************************)
AddOutput(p, t, acc, out) ==
  IF /\ TaskCanRun(p, RunsAt(dag, t))
     /\ out.parties # {} => p \in out.parties
  THEN {o \in acc : o[1] # out.type} \cup {<<out.type, out.alias>>}
  ELSE acc

OutputsOf(p, t) ==
  FoldLeft(LAMBDA acc, out : AddOutput(p, t, acc, out), {},
           dag.task[t].outputs)

ParseTask ==
  /\ parsed \in 1..Len(dag.order) /\ ~error
  /\ LET t == dag.order[parsed]
         new(f, Of(_, _)) ==
           [p \in Members |->
              IF t \in node[p] THEN [f[p] EXCEPT ![t] = Of(p, t)] ELSE f[p]]
         read == [p \in Members |->
                    IF t \in node[p] THEN UpstreamInputs(p, t)
                    ELSE [reads |-> <<>>, graph |-> nodes[p], from |-> {}]]
     IN IF \A i \in DOMAIN dag.sites : SiteFits(dag.sites[i], t)
        THEN /\ conf' = new(conf, ConfOf)
             /\ params' = new(params, ParamsOf)
             /\ outputs' = new(outputs, OutputsOf)
             /\ upstream' = new(upstream, LAMBDA p, u : read[p].reads)
             /\ nodes' = [p \in Members |-> read[p].graph]
             /\ edges' = [p \in Members |->
                           edges[p] \cup (read[p].from \X {t})]
             /\ parsed' = parsed + 1
             /\ UNCHANGED error
        ELSE /\ error' = TRUE
             /\ UNCHANGED <<conf, params, outputs, upstream, nodes, edges,
                            parsed>>
  /\ UNCHANGED <<submitted, dag, node, runVars>>

Parsed == parsed > Len(dag.order)

(***************************************************************************)
(* Rows and scheduling.  A task has a row at each party it runs at; the    *)
(* scheduler waits for the producers of all channels, whoever they are     *)
(* for.  A task of BFIA stores what its node declares, one of FLOW all     *)
(* outputs of its component.                                               *)
(***************************************************************************)
Rows(t) == {p \in dag.parties : TaskCanRun(p, RunsAt(dag, t))}

\* Plausible slips: an input with parties is not waited for; the channels
\* of a warehouse are not left aside.
M_InferDependentTasks(t) ==
  UNION {{ch.from : ch \in {c \in ToSet(in.channels) : c.parties = {}}} :
           in \in {i \in ToSet(dag.task[t].inputs) :
                     i.source = "task_output"}}

M_AllSources(t) ==
  UNION {{ch.from : ch \in ToSet(in.channels)} :
           in \in ToSet(dag.task[t].inputs)}

InferDependentTasks(t) ==
  UNION {{ch.from : ch \in ToSet(in.channels)} :
           in \in {i \in ToSet(dag.task[t].inputs) :
                     i.source = "task_output"}}

Wanted(p, t) ==
  UNION {ToSet(r.refs) : r \in {upstream[p][t][k] : k \in
            {j \in DOMAIN upstream[p][t] :
               upstream[p][t][j].source = "task_output"}}}

Stores(p, t) ==
  IF dag.kind = "BFIA" THEN {<<t, o[2]>> : o \in outputs[p][t]}
  ELSE {<<t, o.key>> : o \in ToSet(Specs[dag.task[t].component].outs)}

StartTask(t) ==
  /\ Parsed /\ t \in Listed(dag) /\ status[t] = "waiting"
  /\ \A u \in InferDependentTasks(t) :
       u \in Listed(dag) /\ status[u] = "success"
  /\ status' = [status EXCEPT ![t] = "running"]
  /\ missed' = missed \cup
       UNION {{<<p, t, w>> : w \in Wanted(p, t) \ written[p]} : p \in Rows(t)}
  /\ UNCHANGED <<submitted, dag, parsed, error, parserVars, written>>

FinishTask(t) ==
  /\ status[t] = "running"
  /\ status' = [status EXCEPT ![t] = "success"]
  /\ written' = [p \in Members |->
                  IF p \in Rows(t) THEN written[p] \cup Stores(p, t)
                                   ELSE written[p]]
  /\ UNCHANGED <<submitted, dag, parsed, error, parserVars, missed>>

==============================================================================
