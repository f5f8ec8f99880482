--------------------------- MODULE JobInheritance ---------------------------
(***************************************************************************)
(* A job that takes over a task, done, from a source job at one party      *)
(* (JobInheritance in controller/job.py), between reruns and cleaning of   *)
(* the source.  The outputs are not copied but named twice: the rows of    *)
(* the target point to the tables and the models of the source.            *)
(***************************************************************************)
EXTENDS FlowStatus, FiniteSets

CONSTANTS
    Loaders,    \* the calls of start_job, the second a retry
    MaxVersion  \* bound on reruns of the source

ASSUME InheritanceAssumption == MaxVersion \in Nat

Versions == 0..MaxVersion
NoModel == MaxVersion + 1

VARIABLES
    source,   \* the rows of the source at this party: Job and Task, latest version
    tables,   \* the versions of the task whose output table exists
    model,    \* the version whose model is stored under the storage key
    tracked,  \* the rows of TrackingOutputInfo: for each job the tables it names
    metas,    \* the jobs with a row in PipelineModelMeta for the model
    metrics,  \* the jobs and versions with rows in Metric
    target,   \* the rows of the job that inherits: Job.f_status and Task.f_party_status
    load,     \* where each call of start_job is, and the source's task as it read it
    clean,    \* where clean_job is, of which job, and the version it read
    touched   \* history: a job was cleaned, the source was rerun since it was checked

outputVars == <<tables, model, tracked, metas, metrics>>
inheritanceVars == <<source, outputVars, target, load, clean, touched>>

\* The source has been run once, and succeeded.
InheritanceInit ==
    /\ source = [there |-> TRUE, version |-> 0, status |-> SUCCESS]
    /\ tables = {0} /\ model = 0
    /\ tracked = {<<"source", 0>>} /\ metas = {"source"} /\ metrics = {<<"source", 0>>}
    /\ target = [job |-> "none", task |-> WAITING]
    /\ load = [l \in Loaders |-> [at |-> "off", version |-> 0, status |-> "none"]]
    /\ clean = [at |-> "off", job |-> "none", version |-> 0]
    /\ touched = {}
-----------------------------------------------------------------------------
(* The source: rerun, run, and its outputs *)

Rerun ==
    /\ source.there /\ source.status \in EndStatus /\ source.version < MaxVersion
    /\ source' = [there |-> TRUE, version |-> source.version + 1, status |-> RUNNING]
    /\ touched' = touched \cup {"rerun"}
    /\ UNCHANGED <<outputVars, target, load, clean>>

\* The model of the new version is stored over that of the old one.
Output ==
    /\ source.there /\ source.status = RUNNING /\ model # source.version
    /\ tables' = tables \cup {source.version}
    /\ tracked' = tracked \cup {<<"source", source.version>>}
    /\ model' = source.version
    /\ metas' = metas \cup {"source"}
    /\ metrics' = metrics \cup {<<"source", source.version>>}
    /\ UNCHANGED <<source, target, load, clean, touched>>

Ends ==
    /\ source.there /\ source.status = RUNNING
    /\ \E st \in {FAILED} \cup (IF model = source.version THEN {SUCCESS} ELSE {}) :
          source' = [source EXCEPT !.status = st]
    /\ UNCHANGED <<outputVars, target, load, clean, touched>>
-----------------------------------------------------------------------------
(* The target: check, start, and what start_job loads *)

\* inheritance_check, when the job is submitted.  Cleaning deletes the rows last, so that
\* a source may pass whose outputs are gone.
Submit ==
    /\ target.job = "none"
    /\ source.there /\ source.status \in {SUCCESS, PASS}
    /\ target' = [target EXCEPT !.job = "asked"]
    /\ touched' = touched \ {"rerun"}
    /\ UNCHANGED <<source, outputVars, load, clean>>

Create ==
    /\ target.job = "asked"
    /\ target' = [target EXCEPT !.job = WAITING]
    /\ UNCHANGED <<source, outputVars, load, clean, touched>>

Refuse ==
    /\ target.job = "asked"
    /\ target' = [target EXCEPT !.job = "refused"]
    /\ UNCHANGED <<source, outputVars, load, clean, touched>>

\* start_job reads the source's task, or finds no row of it.
Start(l) ==
    /\ target.job \notin {"none", "asked", "refused"} /\ load[l].at = "off"
    /\ load' = [load EXCEPT ![l] =
                   [at |-> "tracking", version |-> source.version,
                    status |-> IF source.there THEN source.status ELSE "none"]]
    /\ UNCHANGED <<source, outputVars, target, clean, touched>>

\* Mutant: the status is taken over before the outputs are.
M_After == [tracking |-> "status", status |-> "model", model |-> "metric", metric |-> "end"]

\* The order of the parts of load.
After == [tracking |-> "model", model |-> "metric", metric |-> "status", status |-> "end"]

Loads(l, part) ==
    /\ load[l].at = part
    /\ load' = [load EXCEPT ![l].at = After[part]]
    /\ UNCHANGED <<source, tables, model, clean, touched>>

\* Without a row of the source there is nothing to load, and nothing is.
Found(l, row) == IF load[l].status = "none" THEN {} ELSE row

LoadTracking(l) ==
    /\ Loads(l, "tracking")
    /\ tracked' = tracked \cup
          Found(l, {<<"target", x[2]>> : x \in {<<"source", load[l].version>>} \cap tracked})
    /\ UNCHANGED <<metas, metrics, target>>

LoadModelMeta(l) ==
    /\ Loads(l, "model")
    /\ metas' = metas \cup Found(l, IF "source" \in metas THEN {"target"} ELSE {})
    /\ UNCHANGED <<tracked, metrics, target>>

LoadMetric(l) ==
    /\ Loads(l, "metric")
    /\ metrics' = metrics \cup
          Found(l, {<<"target", x[2]>> : x \in {<<"source", load[l].version>>} \cap metrics})
    /\ UNCHANGED <<tracked, metas, target>>

\* The status is that of the row read at the start; from WAITING only some are legal.
LoadStatus(l) ==
    /\ Loads(l, "status")
    /\ target' = IF TaskMayBecome(target.task, load[l].status)
                 THEN [target EXCEPT !.task = load[l].status] ELSE target
    /\ UNCHANGED <<tracked, metas, metrics>>

\* A part fails: the job is failed at this party, whatever has been loaded.
LoadFails(l) ==
    /\ load[l].at \in DOMAIN After
    /\ load' = [load EXCEPT ![l].at = "failed"]
    /\ UNCHANGED <<source, outputVars, target, clean, touched>>

Answer(l) ==
    /\ load[l].at \in {"end", "failed"}
    /\ load' = [load EXCEPT ![l].at = IF @ = "end" THEN "done" ELSE "gone"]
    /\ LET st == IF load[l].at = "end" THEN RUNNING ELSE FAILED
       IN target' = IF JobMayBecome(target.job, st) THEN [target EXCEPT !.job = st]
                    ELSE target
    /\ UNCHANGED <<source, outputVars, clean, touched>>

\* The server dies, with the calls of start_job and of clean_job it was working on.
PartyDies ==
    /\ load' = [l \in Loaders |->
                   IF load[l].at = "off" THEN load[l] ELSE [load[l] EXCEPT !.at = "done"]]
    /\ clean' = [clean EXCEPT !.at = "off"]
    /\ UNCHANGED <<source, outputVars, target, touched>>
-----------------------------------------------------------------------------
(* clean_job, of the source or of the target *)

CleanStart(j) ==
    /\ clean.at = "off"
    /\ IF j = "source" THEN source.there ELSE target.job \notin {"none", "asked", "refused"}
    /\ clean' = [at |-> "metric", job |-> j,
                  version |-> IF j = "source" THEN source.version ELSE 0]
    \* First the job is stopped.
    /\ source' = IF j = "source" /\ source.status = RUNNING
                 THEN [source EXCEPT !.status = CANCELED] ELSE source
    /\ target' = IF j = "target" /\ JobMayBecome(target.job, CANCELED)
                 THEN [target EXCEPT !.job = CANCELED] ELSE target
    /\ touched' = touched \cup {"cleaned"}
    /\ UNCHANGED <<outputVars, load>>

Cleans(part, next) ==
    /\ clean.at = part
    /\ clean' = [clean EXCEPT !.at = next]
    /\ UNCHANGED <<load, touched>>

CleanMetric ==
    /\ Cleans("metric", "data")
    /\ metrics' = {x \in metrics : x[1] # clean.job}
    /\ UNCHANGED <<source, tables, model, tracked, metas, target>>

\* The tables that the rows of the task name are destroyed; the rows stay.
CleanData ==
    /\ Cleans("data", "model")
    /\ tables' = tables \ {x[2] : x \in {y \in tracked : y[1] = clean.job
                                          /\ (clean.job = "source" => y[2] = clean.version)}}
    /\ UNCHANGED <<source, model, tracked, metas, metrics, target>>

\* What is stored goes, and the rows of this job that name it.
CleanModel ==
    /\ Cleans("model", "rows")
    /\ model' = IF clean.job \in metas THEN NoModel ELSE model
    /\ metas' = metas \ {clean.job}
    /\ UNCHANGED <<source, tables, tracked, metrics, target>>

CleanRows ==
    /\ Cleans("rows", "off")
    /\ source' = IF clean.job = "source" THEN [source EXCEPT !.there = FALSE] ELSE source
    /\ target' = IF clean.job = "target" THEN [job |-> "refused", task |-> WAITING] ELSE target
    /\ UNCHANGED outputVars
-----------------------------------------------------------------------------
InheritanceStep ==
    \/ \E l \in Loaders :
          LoadTracking(l) \/ LoadModelMeta(l) \/ LoadMetric(l) \/ LoadStatus(l) \/ Answer(l)
    \/ Output \/ Ends
    \/ CleanMetric \/ CleanData \/ CleanModel \/ CleanRows

\* A task that was inherited as done has all its outputs, and they can be read, although
\* start_job may fail at any part of it, be lost in a crash or be called twice, unless the
\* source was run again or one of the two was cleaned since the check.
InheritedWhole ==
    target.task = SUCCESS /\ touched = {} =>
        /\ {v \in Versions : <<"target", v>> \in tracked} = {source.version}
        /\ source.version \in tables
        /\ "target" \in metas /\ model = source.version
        /\ <<"target", source.version>> \in metrics
=============================================================================
