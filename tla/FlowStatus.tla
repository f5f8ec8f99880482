----------------------------- MODULE FlowStatus -----------------------------
(***************************************************************************)
(* The statuses of jobs and tasks: which changes are legal                 *)
(* (entity/types/_status.py) and how the status of a task over all parties *)
(* and of a job over all tasks is calculated (scheduler/scheduler.py).     *)
(***************************************************************************)
EXTENDS Integers

WAITING == "waiting"
READY == "ready"
RUNNING == "running"
CANCELED == "canceled"
TIMEOUT == "timeout"
FAILED == "failed"
PASS == "pass"
SUCCESS == "success"

TaskStatus == {WAITING, RUNNING, CANCELED, TIMEOUT, FAILED, PASS, SUCCESS}
JobStatus == {READY, WAITING, RUNNING, CANCELED, TIMEOUT, FAILED, SUCCESS}

InterruptStatus == {CANCELED, TIMEOUT, FAILED}
EndStatus == {CANCELED, TIMEOUT, FAILED, PASS, SUCCESS}
AutoRerunStatus == {TIMEOUT, FAILED}

\* The pairs of StateTransitionRule.RULES.
JobRules ==
    ({READY} \X {WAITING, CANCELED, TIMEOUT, FAILED})
    \cup ({WAITING} \X {RUNNING, CANCELED, TIMEOUT, FAILED, SUCCESS})
    \cup ({RUNNING} \X {CANCELED, TIMEOUT, FAILED, SUCCESS})
    \cup ({CANCELED, SUCCESS} \X {WAITING})
    \cup ({TIMEOUT} \X {FAILED, SUCCESS, WAITING})
    \cup ({FAILED} \X {WAITING, CANCELED})

\* Mutant: the rule for canceling a task that runs is missing.
M_TaskRules ==
    ({WAITING} \X {RUNNING, SUCCESS})
    \cup ({RUNNING} \X {TIMEOUT, FAILED, PASS, SUCCESS})
    \cup ({CANCELED} \X {WAITING})
    \cup ({TIMEOUT} \X {FAILED, SUCCESS})

TaskRules ==
    ({WAITING} \X {RUNNING, SUCCESS})
    \cup ({RUNNING} \X {CANCELED, TIMEOUT, FAILED, PASS, SUCCESS})
    \cup ({CANCELED} \X {WAITING})
    \cup ({TIMEOUT} \X {FAILED, SUCCESS})

JobMayBecome(src, dest) == <<src, dest>> \in JobRules
TaskMayBecome(src, dest) == <<src, dest>> \in TaskRules

\* Both calculations read PASS as SUCCESS.
Merged(statuses) ==
    IF PASS \in statuses THEN (statuses \ {PASS}) \cup {SUCCESS} ELSE statuses

\* The weakest and the strongest of the interrupts, by StatusSet.get_level.
LowestInterrupt(statuses) ==
    CASE CANCELED \in statuses -> CANCELED
      [] CANCELED \notin statuses /\ TIMEOUT \in statuses -> TIMEOUT
      [] OTHER -> FAILED

HighestInterrupt(statuses) ==
    CASE FAILED \in statuses -> FAILED
      [] FAILED \notin statuses /\ TIMEOUT \in statuses -> TIMEOUT
      [] OTHER -> CANCELED

\* Mutant: a task that has succeeded at one party has succeeded.
M_FederatedTaskStatus(partyStatuses) ==
    LET statuses == Merged(partyStatuses) IN
    CASE statuses \cap InterruptStatus # {} -> LowestInterrupt(statuses)
      [] OTHER -> IF SUCCESS \in statuses
                  THEN SUCCESS
                  ELSE IF statuses = {WAITING} THEN WAITING ELSE RUNNING

\* calculate_multi_party_task_status, of the set of statuses at the parties.
FederatedTaskStatus(partyStatuses) ==
    LET statuses == Merged(partyStatuses) IN
    CASE \E s \in statuses : statuses = {s} -> CHOOSE s \in statuses : TRUE
      [] OTHER -> IF statuses \cap InterruptStatus # {}
                  THEN LowestInterrupt(statuses)
                  ELSE RUNNING

\* calculate_job_status, of the set of statuses of the tasks and whether the round
\* has found a task to start.
FederatedJobStatus(haveNext, taskStatuses) ==
    LET statuses == Merged(taskStatuses) IN
    CASE \E s \in statuses : statuses = {s} -> CHOOSE s \in statuses : TRUE
      [] OTHER -> IF RUNNING \in statuses \/ (WAITING \in statuses /\ haveNext)
                  THEN RUNNING
                  ELSE IF statuses \cap InterruptStatus # {}
                       THEN HighestInterrupt(statuses)
                       ELSE CANCELED
=============================================================================
