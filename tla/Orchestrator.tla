---------------------------- MODULE Orchestrator ----------------------------
(***************************************************************************)
(* Orchestrator.run() (orchestrator.py) on the tables of TaskStore: any    *)
(* number of processes run the same workflow, a reviewer decides its       *)
(* approvals, and processes die.  One action is one transaction or query   *)
(* of the code; what a process has read stays in its record until it is    *)
(* used.                                                                   *)
(*                                                                         *)
(* The agent of a task is seen from outside: it makes the calls of Script, *)
(* in order, that need an approval (its saved steps replay the same calls  *)
(* with the same ids on every attempt), it may raise at any point, and it  *)
(* may return once every call has gone through.                            *)
(***************************************************************************)
EXTENDS TaskStore, FiniteSets

CONSTANTS
  Workers,    \* processes that call run()
  Script,     \* calls of each task that need an approval, in the agent's order
  Verdicts,   \* decisions the reviewer takes
  MaxAborts   \* BOUND: processes that die, or lose a write to a locked database

ASSUME OrchestratorAssumption ==
  /\ Script \in [Tasks -> Seq(Calls)]
  /\ \A t \in Tasks : \A i \in 1..Len(Script[t]) : TaskOf[Script[t][i]] = t
  /\ Verdicts \subseteq {"approved", "rejected"}
  /\ MaxAborts \in Nat

VARIABLES
  worker,  \* where each process stands in run()
  aborts   \* number of aborted run() calls so far

vars == <<workflow, tasks, approvals, artifacts, worker, aborts>>

Executing == {"agent", "artifact", "finish", "wait", "fail"}

Worker ==
  [pc: {"idle", "mark", "query", "scan", "settle", "publish"} \cup Executing,
   ready: SUBSET Tasks,            \* rest of the ready list
   progress: BOOLEAN,              \* made_progress
   task: Tasks \cup {None},        \* task in execution
   step: Nat,                      \* calls of its script that went through
   output: Outputs \cup {None},    \* what the agent returned
   handed: Seq(ArtifactIds \cup {None}),  \* the artifacts of that result
   stored: Nat,                    \* how many of them were added
   retryable: BOOLEAN,             \* class of the exception it raised
   settled: WorkflowStatus]        \* what _settle is about to write

Idle == [pc |-> "idle", ready |-> {}, progress |-> FALSE, task |-> None, step |-> 0,
         output |-> None, handed |-> <<>>, stored |-> 0, retryable |-> FALSE,
         settled |-> "pending"]

Init ==
  /\ StoreInit
  /\ worker = [w \in Workers |-> Idle]
  /\ aborts = 0

Goto(w, pc) == worker' = [worker EXCEPT ![w].pc = pc]

\* The task of w is done with, one way or another; the for loop goes on.
NextTask(w) ==
  worker' = [worker EXCEPT ![w].pc = "scan", ![w].task = None, ![w].step = 0,
                           ![w].output = None, ![w].handed = <<>>, ![w].stored = 0,
                           ![w].retryable = FALSE]

Raise(w, retryable) ==
  worker' = [worker EXCEPT ![w].pc = "fail", ![w].retryable = retryable]

-----------------------------------------------------------------------------
(* run() and its loop *)

Run(w) ==
  /\ worker[w].pc = "idle"
  /\ ResumeApproved
  /\ Goto(w, "mark")
  /\ UNCHANGED <<workflow, approvals, artifacts, aborts>>

MarkRunning(w) ==
  /\ worker[w].pc = "mark"
  /\ SetWorkflowStatus("running")
  /\ Goto(w, "query")
  /\ UNCHANGED <<tasks, approvals, artifacts, aborts>>

QueryReady(w) ==
  /\ worker[w].pc = "query"
  /\ worker' = [worker EXCEPT ![w].pc = IF ReadyTasks = {} THEN "settle" ELSE "scan",
                              ![w].ready = ReadyTasks, ![w].progress = FALSE]
  /\ UNCHANGED <<storeVars, aborts>>

\* The next task of the list: started here, or lost to another process.
TryStart(w) ==
  /\ worker[w].pc = "scan"
  /\ \E t \in worker[w].ready :
       /\ \A u \in worker[w].ready : t <= u
       /\ \/ /\ CanStart(t)
             /\ StartTask(t)
             /\ worker' = [worker EXCEPT ![w].pc = "agent", ![w].ready = @ \ {t},
                                         ![w].progress = TRUE, ![w].task = t]
          \/ /\ ~CanStart(t)
             /\ worker' = [worker EXCEPT ![w].ready = @ \ {t}]
             /\ UNCHANGED tasks
  /\ UNCHANGED <<workflow, approvals, artifacts, aborts>>

EndOfScan(w) ==
  /\ worker[w].pc = "scan"
  /\ worker[w].ready = {}
  /\ Goto(w, IF worker[w].progress THEN "query" ELSE "settle")
  /\ UNCHANGED <<storeVars, aborts>>

-----------------------------------------------------------------------------
(* One task: the agent, its artifacts, its result *)

\* Mutant: a call that has no approval row yet goes through.
CallVerdictUnrequested(c) ==
  CASE approvals[c] = "rejected" -> "rejected"
    [] approvals[c] = "pending"  -> "required"
    [] OTHER                     -> "granted"

\* What the gateway answers to call c.
CallVerdict(c) ==
  CASE approvals[c] = "approved" -> "granted"
    [] approvals[c] = "rejected" -> "rejected"
    [] OTHER                     -> "required"

\* The agent makes the next call of its script: ApprovalRequired, PermissionError
\* or a result.
AgentCalls(w) ==
  LET t == worker[w].task
      c == Script[t][worker[w].step + 1]
  IN  /\ worker[w].pc = "agent"
      /\ worker[w].step < Len(Script[t])
      /\ \/ CallVerdict(c) = "required" /\ Goto(w, "wait") /\ RequestApproval(c)
         \/ CallVerdict(c) = "rejected" /\ Raise(w, FALSE) /\ UNCHANGED approvals
         \/ /\ CallVerdict(c) = "granted"
            /\ worker' = [worker EXCEPT ![w].step = @ + 1]
            /\ UNCHANGED approvals
      /\ UNCHANGED <<workflow, tasks, artifacts, aborts>>

\* Mutant: the result is stored as soon as one of its artifacts is.
AfterStoringOne(stored, handed) == IF stored = 0 /\ handed # <<>> THEN "artifact" ELSE "finish"

\* The loop over the artifacts of a result; the task is finished after the last.
AfterStoring(stored, handed) == IF stored < Len(handed) THEN "artifact" ELSE "finish"

AgentReturns(w) ==
  /\ worker[w].pc = "agent"
  /\ worker[w].step = Len(Script[worker[w].task])
  /\ \E output \in Outputs, list \in Artifacts[worker[w].task] :
       worker' = [worker EXCEPT ![w].pc = AfterStoring(0, list), ![w].output = output,
                                ![w].handed = list, ![w].stored = 0]
  /\ UNCHANGED <<storeVars, aborts>>

\* An exception out of the agent, its context, an artifact or its result;
\* UnsafeRetryError is the one class among them that is not retried.
AgentRaises(w) ==
  /\ worker[w].pc \in {"agent", "artifact", "finish"}
  /\ \E retryable \in BOOLEAN : (worker[w].pc # "agent" => retryable) /\ Raise(w, retryable)
  /\ UNCHANGED <<storeVars, aborts>>

\* The next artifact of the result, in a transaction of its own: what the attempt
\* added before stays when it raises here or later.
StoreArtifact(w) ==
  LET t == worker[w].task
      next == worker[w].stored + 1
      id == worker[w].handed[next]
  IN  /\ worker[w].pc = "artifact"
      /\ \/ /\ ~ArtifactConflicts(id)
            /\ AddArtifact(t, next, id)
            /\ worker' = [worker EXCEPT ![w].pc = AfterStoring(next, worker[w].handed),
                                        ![w].stored = next]
         \/ /\ ArtifactConflicts(id)
            /\ Raise(w, TRUE)
            /\ UNCHANGED artifacts
      /\ UNCHANGED <<workflow, tasks, approvals, aborts>>

Finish(w) ==
  /\ worker[w].pc = "finish"
  /\ \/ /\ ~FinishConflicts(worker[w].task, worker[w].output)
        /\ FinishTask(worker[w].task, worker[w].output)
        /\ NextTask(w)
     \/ /\ FinishConflicts(worker[w].task, worker[w].output)
        /\ Raise(w, TRUE)
        /\ UNCHANGED tasks
  /\ UNCHANGED <<workflow, approvals, artifacts, aborts>>

Wait(w) ==
  /\ worker[w].pc = "wait"
  /\ WaitForApproval(worker[w].task)
  /\ NextTask(w)
  /\ UNCHANGED <<workflow, approvals, artifacts, aborts>>

\* fail_task reads and writes in a deferred transaction: when another connection
\* commits in between, its UPDATE raises, and it is Abort.  Otherwise the two are
\* one step.
Fail(w) ==
  /\ worker[w].pc = "fail"
  /\ FailTask(worker[w].task, worker[w].retryable)
  /\ NextTask(w)
  /\ UNCHANGED <<workflow, approvals, artifacts, aborts>>

-----------------------------------------------------------------------------
(* _settle *)

\* Mutant: one succeeded task is enough.
SettledStatusAnySuccess ==
  LET statuses == {tasks[t].status : t \in Tasks}
  IN  IF "succeeded" \in statuses THEN "succeeded"
      ELSE IF "waiting_approval" \in statuses THEN "waiting_approval"
      ELSE IF statuses \cap {"failed", "pending"} # {} THEN "failed"
      ELSE "pending"

\* The status _settle derives from the tasks it reads.
SettledStatus ==
  LET statuses == {tasks[t].status : t \in Tasks}
  IN  IF statuses = {"succeeded"} THEN "succeeded"
      ELSE IF "waiting_approval" \in statuses THEN "waiting_approval"
      ELSE IF statuses \cap {"failed", "pending"} # {} THEN "failed"
      ELSE "pending"

Settle(w) ==
  /\ worker[w].pc = "settle"
  /\ worker' = [worker EXCEPT ![w].pc = "publish", ![w].settled = SettledStatus]
  /\ UNCHANGED <<storeVars, aborts>>

Publish(w) ==
  /\ worker[w].pc = "publish"
  /\ SetWorkflowStatus(worker[w].settled)
  /\ worker' = [worker EXCEPT ![w] = Idle]
  /\ UNCHANGED <<tasks, approvals, artifacts, aborts>>

-----------------------------------------------------------------------------
(* The reviewer, and failures of a process *)

Decide(c) ==
  /\ \E verdict \in Verdicts : DecideApproval(c, verdict)
  /\ UNCHANGED <<workflow, artifacts, worker, aborts>>

\* The process dies, or the database refuses it a write and the exception leaves
\* run(): its record is lost, the tables stay as they are.
Abort(w) ==
  /\ worker[w].pc # "idle"
  /\ aborts < MaxAborts
  /\ aborts' = aborts + 1
  /\ worker' = [worker EXCEPT ![w] = Idle]
  /\ UNCHANGED storeVars

\* What run() does by itself once it is called.
Proceed(w) ==
  \/ MarkRunning(w)
  \/ QueryReady(w)
  \/ TryStart(w)
  \/ EndOfScan(w)
  \/ AgentCalls(w)
  \/ AgentReturns(w)
  \/ AgentRaises(w)
  \/ StoreArtifact(w)
  \/ Finish(w)
  \/ Wait(w)
  \/ Fail(w)
  \/ Settle(w)
  \/ Publish(w)

Next ==
  \/ \E w \in Workers : Run(w) \/ Proceed(w) \/ Abort(w)
  \/ \E c \in Calls : Decide(c)

Spec == Init /\ [][Next]_vars

\* Liveness: a run() that was called goes on (its agents return or raise), the
\* operator calls run() again and again, the reviewer answers.
FairSpec ==
  /\ Spec
  /\ \A w \in Workers : WF_vars(Proceed(w)) /\ WF_vars(Run(w))
  /\ \A c \in Calls : WF_vars(Decide(c))

-----------------------------------------------------------------------------
(* Properties *)

Executes(w, t) == worker[w].pc \in Executing /\ worker[w].task = t

\* A row has an output exactly when its task succeeded.
StoreType ==
  /\ workflow \in WorkflowStatus
  /\ tasks \in [Tasks -> TaskRow]
  /\ approvals \in [Calls -> ApprovalStatus \cup {"absent"}]
  /\ artifacts \subseteq ArtifactRow
  /\ \A t \in Tasks : tasks[t].status = "succeeded" <=> tasks[t].output # None

\* A process has a task exactly while it executes one, a result before it stores one,
\* and an artifact left while it is in their loop.
WorkerType ==
  /\ worker \in [Workers -> Worker]
  /\ \A w \in Workers : worker[w].pc \in Executing <=> worker[w].task # None
  /\ \A w \in Workers : worker[w].pc \in {"artifact", "finish"} => worker[w].output # None
  /\ \A w \in Workers : worker[w].pc = "artifact" => worker[w].stored < Len(worker[w].handed)

\* Every variable has its type; a finished row carries the agent's output.
TypeOK == StoreType /\ WorkerType /\ aborts \in 0..MaxAborts

\* A task is executed by one process at most, and only while its row says
\* running: no approval, second run() or restart hands it out twice.
SingleExecutor ==
  \A w \in Workers, t \in Tasks : Executes(w, t) =>
    /\ tasks[t].status = "running"
    /\ \A v \in Workers : Executes(v, t) => v = w

\* A task that was ever started has all its dependencies succeeded, now and not
\* only when its ready list was read.
DependenciesFirst ==
  \A t \in Tasks : tasks[t].attempts > 0 => Deps[t] \subseteq Succeeded

\* The outcome of a task is final: no retry, decision or late process changes the
\* row of a task that succeeded or failed.
OutcomeIsFinal ==
  [][\A t \in Tasks : tasks[t].status \in {"succeeded", "failed"} => tasks'[t] = tasks[t]]_vars

\* The workflow is reported succeeded only if every task succeeded, although
\* _settle writes what it read earlier and other processes run in between.
SuccessIsComplete == workflow = "succeeded" => Succeeded = Tasks

\* A task succeeds only if every call of its script was approved: neither a
\* rejection nor a decision still to come is bypassed.
ApprovedBeforeSuccess ==
  \A t \in Succeeded : \A i \in 1..Len(Script[t]) : approvals[Script[t][i]] = "approved"

\* A waiting task goes back to work only when nothing of it is pending or rejected.
WakesOnlyApproved ==
  [][\A t \in Tasks : tasks[t].status = "waiting_approval" /\ tasks'[t].status = "pending" =>
       \A c \in CallsOf(t) : approvals'[c] \notin {"pending", "rejected"}]_vars

\* Retries are bounded: a pause for an approval costs an attempt too, and apart
\* from those pauses a task is started max_attempts times at most.
AttemptsBounded ==
  \A t \in Tasks :
    tasks[t].attempts <= MaxAttempts + Cardinality({c \in CallsOf(t) : approvals[c] = "approved"})

\* The rows of table artifacts that attempt n of task t added.
Added(t, n) == {row \in artifacts : row.task = t /\ row.attempt = n}

\* The rows of the first k artifacts of list, as attempt n of task t adds them.
RowsOf(t, n, list, k) ==
  {[task |-> t, attempt |-> n, place |-> i, id |-> list[i]] : i \in 1..k}

\* Attempt n of task t added the first artifacts of a list its agent may hand over,
\* and all of them if the task succeeded in it.
Accounted(t, n) ==
  \E list \in Artifacts[t] : \E k \in 0..Len(list) :
    /\ Added(t, n) = RowsOf(t, n, list, k)
    /\ t \in Succeeded /\ n = tasks[t].attempts => k = Len(list)

\* Every attempt accounts for its rows, and every row belongs to one: what a failed
\* attempt leaves behind is a prefix, a success leaves nothing out, and an id of an
\* agent's own is one row in the whole table, although attempts of several tasks hand
\* it over again and again.
ArtifactsAccounted ==
  /\ \A t \in Tasks : \A n \in 1..tasks[t].attempts : Accounted(t, n)
  /\ \A row \in artifacts : row.attempt \in 1..tasks[row.task].attempts
  /\ \A row, other \in artifacts : row.id = other.id /\ row.id # None => row = other

\* Tasks that are running with nobody executing them.
Stranded == {t \in Tasks : tasks[t].status = "running" /\ \A w \in Workers : ~Executes(w, t)}

\* Only a process that dies leaves a task stranded, and each strands one at most.
StrandedByAbort == Cardinality(Stranded) <= aborts

\* Nothing can be done any more for task t: it has an outcome, or a task it
\* depends on has failed or can never start.
Settled[t \in Tasks] ==
  \/ tasks[t].status \in {"succeeded", "failed"}
  \/ tasks[t].status = "pending" /\ \E d \in Deps[t] : tasks[d].status # "succeeded" /\ Settled[d]

\* run(), called again and again, brings the workflow to its end.
EventuallySettled == <>[](\A t \in Tasks : Settled[t])

-----------------------------------------------------------------------------
(* What the documents and comments say and the code does not do *)

\* src/agent_harness/orchestrator.py:64: no ready nodes with pending work means a
\* failed dependency or an invalid DAG.  A workflow is settled as failed only if
\* a task has failed (the DAG of every instance is valid).
FailureHasCause ==
  [][\A w \in Workers :
       worker[w].pc = "settle" /\ worker'[w].settled = "failed" =>
         \E t \in Tasks : tasks[t].status = "failed"]_vars

\* store.py:428: the task of a rejected approval becomes failed.
RejectionFails ==
  \A c \in Calls : approvals[c] = "rejected" ~> tasks[TaskOf[c]].status = "failed"
=============================================================================
