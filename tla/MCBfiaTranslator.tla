--------------------------- MODULE MCBfiaTranslator --------------------------
(***************************************************************************)
(* Jobs of three tasks, a reader of data, a trainer and an evaluation at   *)
(* one guest and two hosts: listed in any order, with parties stated or    *)
(* not, with each kind of source.                                          *)
(***************************************************************************)
EXTENDS BfiaTranslator

g == [role |-> "guest", id |-> 1]
h1 == [role |-> "host", id |-> 1]
h2 == [role |-> "host", id |-> 2]
MCMembers == {g, h1, h2}
MCRoleOrder == <<"guest", "host">>
MCNames == {"psi", "lr", "ev"}

Item(type, key) == [type |-> type, key |-> key]
MCSpecs == [
  psi |-> [roles |-> {"guest", "host"}, ins |-> <<Item("data", "input")>>,
           outs |-> <<Item("data", "out"), Item("data", "rest")>>],
  lr |-> [roles |-> {"guest", "host"},
          ins |-> <<Item("data", "train"), Item("data", "validate"),
                    Item("model", "warm")>>,
          outs |-> <<Item("data", "out"), Item("model", "m")>>],
  ev |-> [roles |-> {"guest"}, ins |-> <<Item("data", "input")>>,
          outs |-> <<Item("metric", "auc")>>]]

In(type, key, source, channels) ==
  [type |-> type, key |-> key, source |-> source, channels |-> channels]
Ch(from, key, parties) == [from |-> from, key |-> key, parties |-> parties]
Out(type, key) == [type |-> type, key |-> key, alias |-> key, parties |-> {}]

PsiInputs == {
  <<In("data", "input", "data_warehouse",
       <<Ch("dg", None, {g}), Ch("dh", None, {h1, h2})>>)>>,
  <<In("data", "input", "data_warehouse",
       <<Ch("d2", None, {h2}), Ch("dg", None, {g}), Ch("d1", None, {h1})>>)>>,
  <<In("data", "input", "data_warehouse", <<Ch("d", None, {})>>)>>}

Train == {
  <<In("data", "train", "task_output", <<Ch("psi", "out", {})>>)>>,
  <<In("data", "train", "task_output", <<Ch("psi", "out", {g, h1})>>)>>,
  <<In("data", "train", "task_output", <<Ch("psi", "out", {g})>>),
    In("data", "train", "data_warehouse", <<Ch("dt", None, {h1, h2})>>)>>,
  <<In("data", "train", "task_output", <<Ch("psi", "out", {})>>),
    In("data", "validate", "task_output", <<Ch("psi", "rest", {})>>)>>,
  <<In("data", "train", "task_output", <<Ch("psi", "out", {})>>),
    In("data", "validate", "task_output", <<Ch("psi", "out", {})>>)>>,
  <<In("data", "validate", "task_output", <<Ch("psi", "out", {})>>)>>}

Warm == <<In("model", "warm", "model_warehouse", <<Ch(None, "m", {g, h1})>>)>>

EvInputs == {
  <<In("data", "input", "task_output", <<Ch("lr", "out", {})>>)>>,
  <<In("data", "input", "task_output",
       <<Ch("lr", "out", {}), Ch("psi", "out", {g})>>)>>}

Orders == {s \in [1..3 -> MCNames] : \A i, j \in 1..3 : s[i] = s[j] => i = j}

Provider == "provider" :> "fate"
Sites == {
  <<[parties |-> {g}, conf |-> "cores" :> 4,
     task |-> "lr" :> [conf |-> "cores" :> 8, params |-> "k" :> 1]],
    [parties |-> {h1}, conf |-> "provider" :> "other", task |-> <<>>]>>,
  <<[parties |-> {g, h1}, conf |-> <<>>,
     task |-> "lr" :> [conf |-> "provider" :> "other", params |-> <<>>]],
    [parties |-> {h1, h2}, conf |-> "cores" :> 2, task |-> <<>>]>>}

Task(component, parties, inputs, outs) ==
  [component |-> component, parties |-> parties, conf |-> Provider,
   params |-> <<>>, inputs |-> inputs, outputs |-> outs]

Job(kind, order, psi, lr, ev, sites) ==
  [kind |-> kind, roles |-> [guest |-> <<1>>, host |-> <<1, 2>>],
   parties |-> MCMembers, conf |-> "cores" :> 1, model |-> "base",
   order |-> order, sites |-> sites,
   task |-> [psi |-> psi, lr |-> lr, ev |-> ev]]

Outs1 == <<Out("data", "out")>>
Outs2 == <<Out("data", "out"), Out("data", "rest")>>
WideRead == CHOOSE in \in PsiInputs : Len(in[1].channels) = 1

PsiTasks ==
  {Task("psi", {}, in, Outs1) : in \in PsiInputs}
  \cup {Task("psi", {g, h1}, WideRead, Outs1), Task("psi", {}, WideRead, Outs2)}
LrTasks ==
  {Task("lr", ps, in, <<Out("data", "out"), Out("model", "m")>>) :
     ps \in {{}, {g, h1}}, in \in Train}
  \cup {Task("lr", {}, in \o Warm, <<Out("data", "out")>>) : in \in Train}
EvTasks ==
  {Task("ev", ps, in, <<Out("metric", "auc")>>) :
     ps \in {{}, {g}}, in \in EvInputs}

MCJobs ==
  {Job(k, o, psi, lr, ev, <<>>) : k \in {"FLOW", "BFIA"}, o \in Orders,
     psi \in PsiTasks, lr \in LrTasks, ev \in EvTasks}
  \cup
  {Job(k, <<"ev", "lr", "psi">>, psi, lr, ev, s) : k \in {"FLOW", "BFIA"},
     psi \in PsiTasks,
     lr \in {l \in LrTasks : Len(l.inputs) = 1},
     ev \in EvTasks, s \in Sites}
==============================================================================
