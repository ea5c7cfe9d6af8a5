----------------------------- MODULE TaskStore -----------------------------
(***************************************************************************)
(* The tables of SQLiteStore (store.py) that carry a workflow: the         *)
(* workflow's row, its tasks, the approvals of their tool calls and their  *)
(* artifacts.  Every operator below is the effect of one transaction; the  *)
(* modules that extend this one say who runs it and when.                  *)
(*                                                                         *)
(* A task is a number, in the order of list_tasks (created_at, id).  One   *)
(* workflow is modelled: every query of these transactions is restricted   *)
(* to one.  Text columns, timestamps and the event log are left out.       *)
(***************************************************************************)
EXTENDS Naturals, Sequences, Domain

CONSTANTS
  Tasks,        \* the tasks of the workflow
  Deps,         \* depends_on of each task
  MaxAttempts,  \* max_attempts of a task
  Calls,        \* call ids of tool calls that may need an approval
  TaskOf,       \* the task that makes such a call
  ArtifactIds,  \* ids that agents give to their artifacts
  Artifacts,    \* lists of artifacts the agent of a task may hand over; an artifact
                \* is its id, or None when the store draws one
  Outputs,      \* outputs of an agent
  None          \* no output, no task, no id

ASSUME StoreAssumption ==
  /\ Tasks \subseteq Nat
  /\ Deps \in [Tasks -> SUBSET Tasks]
  /\ MaxAttempts \in Nat \ {0}
  /\ TaskOf \in [Calls -> Tasks]
  /\ Artifacts \in [Tasks -> SUBSET Seq(ArtifactIds \cup {None})]
  /\ \A t \in Tasks : Artifacts[t] # {}
  /\ None \notin Outputs \cup Tasks \cup ArtifactIds

VARIABLES
  workflow,   \* status of the workflow's row
  tasks,      \* table tasks
  approvals,  \* table approvals, keyed by call id (UNIQUE)
  artifacts   \* table artifacts

storeVars == <<workflow, tasks, approvals, artifacts>>

TaskRow == [status: TaskStatus, attempts: Nat, output: Outputs \cup {None}]

\* attempt and place, the attempt that added the row and the artifact's place in its
\* result, are history: a drawn id is that of no other row, so they tell rows apart.
ArtifactRow == [task: Tasks, attempt: Nat, place: Nat, id: ArtifactIds \cup {None}]

StoreInit ==
  /\ workflow = "pending"
  /\ tasks = [t \in Tasks |-> [status |-> "pending", attempts |-> 0, output |-> None]]
  /\ approvals = [c \in Calls |-> "absent"]
  /\ artifacts = {}

Succeeded == {t \in Tasks : tasks[t].status = "succeeded"}

CallsOf(t) == {c \in Calls : TaskOf[c] = t}

-----------------------------------------------------------------------------
(* Queries *)

\* Mutant: a dependency that is no longer pending counts.
ReadyTasksOnceStarted ==
  {t \in Tasks : tasks[t].status = "pending" /\ \A d \in Deps[t] : tasks[d].status # "pending"}

\* ready_tasks
ReadyTasks == {t \in Tasks : tasks[t].status = "pending" /\ Deps[t] \subseteq Succeeded}

-----------------------------------------------------------------------------
(* Transactions on the tasks table *)

\* set_workflow_status
SetWorkflowStatus(status) == workflow' = status

\* Mutant: the UPDATE of start_task without its status condition.
CanStartAny(t) == TRUE

\* The row start_task's compare-and-set UPDATE matches.
CanStart(t) == tasks[t].status = "pending"

\* Mutant: the attempt is not counted.
StartTaskUncounted(t) == tasks' = [tasks EXCEPT ![t].status = "running"]

\* start_task, when its UPDATE matched.
StartTask(t) ==
  tasks' = [tasks EXCEPT ![t].status = "running", ![t].attempts = @ + 1]

\* finish_task raises: the task succeeded already, with another output.
FinishConflicts(t, output) == tasks[t].status = "succeeded" /\ tasks[t].output # output

\* Mutant: the output column is forgotten.
FinishTaskNoOutput(t, output) == tasks' = [tasks EXCEPT ![t].status = "succeeded"]

\* finish_task, when it does not raise.
FinishTask(t, output) ==
  tasks' = [tasks EXCEPT ![t].status = "succeeded", ![t].output = output]

\* Mutant: a retry that forgets its bound.
FailedStatusUnbounded(t, retryable) == IF retryable THEN "pending" ELSE "failed"

\* Mutant: the retryable flag of the caller is not looked at.
FailedStatusFlagIgnored(t, retryable) ==
  IF tasks[t].attempts < MaxAttempts THEN "pending" ELSE "failed"

\* The status fail_task computes.
FailedStatus(t, retryable) ==
  IF retryable /\ tasks[t].attempts < MaxAttempts THEN "pending" ELSE "failed"

\* fail_task
FailTask(t, retryable) ==
  tasks' = [tasks EXCEPT ![t].status = FailedStatus(t, retryable)]

\* Mutant: only a pending task is made to wait.
WaitForApprovalIfPending(t) ==
  tasks' = [tasks EXCEPT ![t].status = IF @ = "pending" THEN "waiting_approval" ELSE @]

\* wait_task_for_approval; already waiting is no change.
WaitForApproval(t) == tasks' = [tasks EXCEPT ![t].status = "waiting_approval"]

\* Mutant: a resume that looks for one approved row instead of excluding the others.
ResumableIfAnyApproved(t) ==
  /\ tasks[t].status = "waiting_approval"
  /\ \E c \in CallsOf(t) : approvals[c] = "approved"

\* Mutant: no task is resumed; only decide_approval wakes a waiting one.
ResumableNever(t) == FALSE

\* The rows the UPDATE of resume_approved_tasks matches.
Resumable(t) ==
  /\ tasks[t].status = "waiting_approval"
  /\ \A c \in CallsOf(t) : approvals[c] \in {"absent", "approved"}

\* resume_approved_tasks
ResumeApproved ==
  tasks' = [t \in Tasks |-> IF Resumable(t) THEN [tasks[t] EXCEPT !.status = "pending"]
                            ELSE tasks[t]]

-----------------------------------------------------------------------------
(* Approvals and artifacts *)

\* Mutant: the task is updated whatever its status.
DecidedTaskAlways(t, verdict) ==
  [tasks[t] EXCEPT !.status = IF verdict = "approved" THEN "pending" ELSE "failed"]

\* The row of a task after one of its approvals is decided.
DecidedTask(t, verdict) ==
  IF tasks[t].status # "waiting_approval" THEN tasks[t]
  ELSE [tasks[t] EXCEPT !.status = IF verdict = "approved" THEN "pending" ELSE "failed"]

\* decide_approval; an approval already decided is refused.
DecideApproval(c, verdict) ==
  /\ approvals[c] = "pending"
  /\ approvals' = [approvals EXCEPT ![c] = verdict]
  /\ tasks' = [tasks EXCEPT ![TaskOf[c]] = DecidedTask(TaskOf[c], verdict)]

\* The approval row that ToolGateway._authorize_or_request inserts.
RequestApproval(c) ==
  approvals' = [approvals EXCEPT ![c] = IF @ = "absent" THEN "pending" ELSE @]

\* add_artifact violates the primary key: a row has the agent's id, whosever it is.
ArtifactConflicts(id) == id # None /\ \E row \in artifacts : row.id = id

\* add_artifact, when the INSERT succeeds.
AddArtifact(t, place, id) ==
  artifacts' = artifacts \cup
    {[task |-> t, attempt |-> tasks[t].attempts, place |-> place, id |-> id]}
=============================================================================
