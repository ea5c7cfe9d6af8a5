------------------------- MODULE OrchestratorProofs -------------------------
(***************************************************************************)
(* Proofs about Orchestrator, for every set of tasks, every dependency     *)
(* relation and script, and any number of processes, calls and aborts.     *)
(***************************************************************************)
EXTENDS Orchestrator, FiniteSetTheorems, TLAPS

LEMMA InitType == Init => TypeOK
  BY StoreAssumption, OrchestratorAssumption DEF Init, StoreInit, TypeOK, StoreType, WorkerType,
     Worker, Idle, Executing, TaskRow, TaskStatus, WorkflowStatus

\* What a process has at hand while it executes a task.
LEMMA AtWork ==
  ASSUME TypeOK, NEW w \in Workers, worker[w].pc \in Executing
  PROVE  worker[w].task \in Tasks
  BY DEF TypeOK, WorkerType, Worker

\* One process takes a step: what its new record has to satisfy.
LEMMA RecordType ==
  ASSUME TypeOK, NEW w \in Workers, NEW rec \in Worker,
         worker' = [worker EXCEPT ![w] = rec],
         rec.pc \in Executing <=> rec.task # None,
         rec.pc \in {"artifact", "finish"} => rec.output # None,
         rec.pc = "artifact" => rec.stored < Len(rec.handed)
  PROVE  WorkerType'
  BY DEF TypeOK, WorkerType

LEMMA GotoType ==
  ASSUME TypeOK, NEW w \in Workers,
         NEW pc \in {"mark", "query", "scan", "settle"}, worker[w].pc \notin Executing, Goto(w, pc)
  PROVE  WorkerType'
  <1> DEFINE rec == [worker[w] EXCEPT !.pc = pc]
  <1>1. worker[w] \in Worker
    BY DEF TypeOK, WorkerType
  <1>2. rec \in Worker /\ rec.pc = pc /\ rec.task = worker[w].task /\ pc \notin Executing
    BY <1>1 DEF Worker, Executing
  <1>3. worker' = [worker EXCEPT ![w] = rec]
    BY DEF Goto
  <1>4. worker[w].task = None
    BY DEF TypeOK, WorkerType
  <1> HIDE DEF rec
  <1>5. QED
    BY <1>2, <1>3, <1>4, RecordType DEF Executing

LEMMA RaiseType ==
  ASSUME TypeOK, NEW w \in Workers, worker[w].pc \in Executing, NEW r \in BOOLEAN, Raise(w, r)
  PROVE  WorkerType'
  <1> DEFINE rec == [worker[w] EXCEPT !.pc = "fail", !.retryable = r]
  <1>1. worker[w] \in Worker
    BY DEF TypeOK, WorkerType
  <1>2. rec \in Worker /\ rec.pc = "fail" /\ rec.task = worker[w].task
    BY <1>1 DEF Worker, Executing
  <1>3. worker' = [worker EXCEPT ![w] = rec]
    BY DEF Raise
  <1>4. worker[w].task # None
    BY DEF TypeOK, WorkerType
  <1> HIDE DEF rec
  <1>5. QED
    BY <1>2, <1>3, <1>4, RecordType DEF Executing

LEMMA NextTaskType ==
  ASSUME TypeOK, NEW w \in Workers, NextTask(w)
  PROVE  WorkerType'
  <1> DEFINE rec == [worker[w] EXCEPT !.pc = "scan", !.task = None, !.step = 0,
                                      !.output = None, !.handed = <<>>, !.stored = 0,
                                      !.retryable = FALSE]
  <1>1. worker[w] \in Worker
    BY DEF TypeOK, WorkerType
  <1>2. rec.pc = "scan" /\ rec.task = None
    BY <1>1 DEF Worker
  <1>3. rec \in Worker
    <2>1. <<>> \in Seq(ArtifactIds \cup {None}) /\ 0 \in Nat
      OBVIOUS
    <2>2. "scan" \in {"idle", "mark", "query", "scan", "settle", "publish"} \cup Executing
      OBVIOUS
    <2>3. QED
      BY <1>1, <2>1, <2>2 DEF Worker
  <1>4. worker' = [worker EXCEPT ![w] = rec]
    BY DEF NextTask
  <1> HIDE DEF rec
  <1>5. QED
    BY <1>2, <1>3, <1>4, RecordType DEF Executing

LEMMA IdleType ==
  ASSUME TypeOK, NEW w \in Workers, worker' = [worker EXCEPT ![w] = Idle]
  PROVE  WorkerType'
  BY StoreAssumption DEF TypeOK, WorkerType, Worker, Idle, Executing, WorkflowStatus

\* A status other than succeeded leaves the type of a row that has not succeeded.
LEMMA StatusType ==
  ASSUME TypeOK, NEW t \in Tasks, tasks[t].status # "succeeded",
         NEW s \in TaskStatus \ {"succeeded"}, tasks' = [tasks EXCEPT ![t].status = s],
         UNCHANGED <<workflow, approvals, artifacts>>
  PROVE  StoreType'
  BY DEF TypeOK, StoreType, TaskRow

-----------------------------------------------------------------------------
(* Rows that have an outcome stay as they are *)

\* What SingleExecutor says of the process at work: nobody else's step, and no
\* step of its own but the last, changes the row of its task.
OwnsRunning ==
  \A w \in Workers : worker[w].pc \in Executing => tasks[worker[w].task].status = "running"

\* A step changes no row that has an outcome.
OutcomesKept ==
  \A t \in Tasks : tasks[t].status \in {"succeeded", "failed"} => tasks'[t] = tasks[t]

LEMMA StepKeepsOutcomes ==
  ASSUME TypeOK, OwnsRunning, [Next]_vars
  PROVE  OutcomesKept
  <1> SUFFICES ASSUME NEW t \in Tasks, tasks[t].status \in {"succeeded", "failed"}
               PROVE  tasks'[t] = tasks[t]
    BY DEF OutcomesKept
  <1>1. tasks \in [Tasks -> TaskRow]
    BY DEF TypeOK, StoreType
  <1>2. \A w \in Workers : worker[w].pc \in Executing => worker[w].task # t
    BY DEF OwnsRunning
  <1>3. ASSUME NEW w \in Workers, Run(w) PROVE tasks'[t] = tasks[t]
    BY <1>3 DEF Run, ResumeApproved, Resumable
  <1>4. ASSUME NEW w \in Workers, TryStart(w) PROVE tasks'[t] = tasks[t]
    <2>1. PICK u \in worker[w].ready :
            (CanStart(u) /\ StartTask(u)) \/ UNCHANGED tasks
      BY <1>4 DEF TryStart
    <2>2. CASE CanStart(u) /\ StartTask(u)
      BY <2>2, <1>1 DEF CanStart, StartTask
    <2>3. QED
      BY <2>1, <2>2
  <1>5. ASSUME NEW w \in Workers, Finish(w) PROVE tasks'[t] = tasks[t]
    <2>1. worker[w].task # t
      BY <1>2, <1>5 DEF Finish, Executing
    <2>2. QED
      BY <1>1, <1>5, <2>1 DEF Finish, FinishTask
  <1>6. ASSUME NEW w \in Workers, Wait(w) PROVE tasks'[t] = tasks[t]
    <2>1. worker[w].task # t
      BY <1>2, <1>6 DEF Wait, Executing
    <2>2. QED
      BY <1>1, <1>6, <2>1 DEF Wait, WaitForApproval
  <1>7. ASSUME NEW w \in Workers, Fail(w) PROVE tasks'[t] = tasks[t]
    <2>1. worker[w].task # t
      BY <1>2, <1>7 DEF Fail, Executing
    <2>2. QED
      BY <1>1, <1>7, <2>1 DEF Fail, FailTask
  <1>8. ASSUME NEW c \in Calls, Decide(c) PROVE tasks'[t] = tasks[t]
    <2>1. PICK v \in Verdicts : DecideApproval(c, v)
      BY <1>8 DEF Decide
    <2>2. QED
      BY <2>1, <1>1 DEF DecideApproval, DecidedTask
  <1>9. QED
    BY <1>3, <1>4, <1>5, <1>6, <1>7, <1>8
       DEF Next, Proceed, vars, storeVars, MarkRunning, QueryReady, EndOfScan, AgentCalls,
           AgentReturns, AgentRaises, StoreArtifact, Settle, Publish, Abort

-----------------------------------------------------------------------------
(* Type correctness *)

LEMMA NextType ==
  ASSUME TypeOK, OwnsRunning, [Next]_vars
  PROVE  TypeOK'
  <1>0. tasks \in [Tasks -> TaskRow] /\ aborts \in 0..MaxAborts
    BY DEF TypeOK, StoreType
  <1>1. ASSUME NEW w \in Workers, Run(w) PROVE TypeOK'
    <2>1. WorkerType'
      BY <1>1, GotoType DEF Run, Executing
    <2>2. StoreType'
      BY <1>1 DEF Run, ResumeApproved, Resumable, TypeOK, StoreType, TaskRow, TaskStatus
    <2>3. QED
      BY <1>0, <1>1, <2>1, <2>2 DEF Run, TypeOK
  <1>2. ASSUME NEW w \in Workers, MarkRunning(w) PROVE TypeOK'
    <2>1. WorkerType'
      BY <1>2, GotoType DEF MarkRunning, Executing
    <2>2. QED
      BY <1>2, <2>1 DEF MarkRunning, SetWorkflowStatus, TypeOK, StoreType, WorkflowStatus
  <1>3. ASSUME NEW w \in Workers, QueryReady(w) PROVE TypeOK'
    <2>0. PICK pc \in {"settle", "scan"} : pc = IF ReadyTasks = {} THEN "settle" ELSE "scan"
      OBVIOUS
    <2> DEFINE rec == [worker[w] EXCEPT !.pc = pc, !.ready = ReadyTasks, !.progress = FALSE]
    <2>1. worker[w] \in Worker /\ worker[w].task = None
      BY <1>3 DEF TypeOK, WorkerType, QueryReady, Executing
    <2>2. ReadyTasks \in SUBSET Tasks
      BY DEF ReadyTasks
    <2>3. rec \in Worker /\ rec.pc \in {"settle", "scan"} /\ rec.task = None
      BY <2>1, <2>2 DEF Worker, Executing
    <2>4. worker' = [worker EXCEPT ![w] = rec]
      BY <1>3, <2>0 DEF QueryReady
    <2> HIDE DEF rec
    <2>5. WorkerType'
      BY <2>3, <2>4, RecordType DEF Executing
    <2>6. QED
      BY <1>3, <2>5 DEF QueryReady, storeVars, TypeOK, StoreType
  <1>4. ASSUME NEW w \in Workers, TryStart(w) PROVE TypeOK'
    <2>1. PICK t \in worker[w].ready :
            \/ /\ CanStart(t) /\ StartTask(t)
               /\ worker' = [worker EXCEPT ![w].pc = "agent", ![w].ready = @ \ {t},
                                           ![w].progress = TRUE, ![w].task = t]
            \/ worker' = [worker EXCEPT ![w].ready = @ \ {t}] /\ UNCHANGED tasks
      BY <1>4 DEF TryStart
    <2>2. worker[w] \in Worker /\ t \in Tasks /\ worker[w].pc = "scan" /\ worker[w].task = None
      BY <1>4 DEF TypeOK, WorkerType, TryStart, Worker, Executing
    <2>3. t # None
      BY <2>2, StoreAssumption
    <2>4. CASE /\ CanStart(t) /\ StartTask(t)
               /\ worker' = [worker EXCEPT ![w].pc = "agent", ![w].ready = @ \ {t},
                                           ![w].progress = TRUE, ![w].task = t]
      <3> DEFINE rec == [worker[w] EXCEPT !.pc = "agent", !.ready = @ \ {t},
                                          !.progress = TRUE, !.task = t]
      <3>1. rec \in Worker /\ rec.pc = "agent" /\ rec.task = t
        BY <2>2 DEF Worker, Executing
      <3>2. worker' = [worker EXCEPT ![w] = rec]
        BY <2>4
      <3> HIDE DEF rec
      <3>3. WorkerType'
        BY <2>3, <3>1, <3>2, RecordType DEF Executing
      <3>4. StoreType'
        BY <1>4, <2>2, <2>4 DEF CanStart, StartTask, TryStart, TypeOK, StoreType, TaskRow, TaskStatus
      <3>5. QED
        BY <1>0, <1>4, <3>3, <3>4 DEF TryStart, TypeOK
    <2>5. CASE worker' = [worker EXCEPT ![w].ready = @ \ {t}] /\ UNCHANGED tasks
      <3> DEFINE rec == [worker[w] EXCEPT !.ready = @ \ {t}]
      <3>1. rec \in Worker /\ rec.pc = "scan" /\ rec.task = None
        BY <2>2 DEF Worker
      <3>2. worker' = [worker EXCEPT ![w] = rec]
        BY <2>5
      <3> HIDE DEF rec
      <3>3. WorkerType'
        BY <3>1, <3>2, RecordType DEF Executing
      <3>4. QED
        BY <1>4, <2>5, <3>3 DEF TryStart, TypeOK, StoreType
    <2>6. QED
      BY <2>1, <2>4, <2>5
  <1>5. ASSUME NEW w \in Workers, EndOfScan(w) PROVE TypeOK'
    <2>1. WorkerType'
      BY <1>5, GotoType DEF EndOfScan, Executing
    <2>2. QED
      BY <1>5, <2>1 DEF EndOfScan, storeVars, TypeOK, StoreType
  <1>6. ASSUME NEW w \in Workers, AgentCalls(w) PROVE TypeOK'
    <2> DEFINE c == Script[worker[w].task][worker[w].step + 1]
    <2>1. worker[w] \in Worker /\ worker[w].pc = "agent" /\ worker[w].task # None
      BY <1>6 DEF TypeOK, WorkerType, AgentCalls, Executing
    <2>2. WorkerType'
      <3>1. CASE Goto(w, "wait")
        <4> DEFINE rec == [worker[w] EXCEPT !.pc = "wait"]
        <4>1. rec \in Worker /\ rec.pc = "wait" /\ rec.task = worker[w].task
          BY <2>1 DEF Worker, Executing
        <4>2. worker' = [worker EXCEPT ![w] = rec]
          BY <3>1 DEF Goto
        <4> HIDE DEF rec
        <4>3. QED
          BY <2>1, <4>1, <4>2, RecordType DEF Executing
      <3>2. CASE Raise(w, FALSE)
        BY <2>1, <3>2, RaiseType DEF Executing
      <3>3. CASE worker' = [worker EXCEPT ![w].step = @ + 1]
        <4> DEFINE rec == [worker[w] EXCEPT !.step = @ + 1]
        <4>1. rec \in Worker /\ rec.pc = "agent" /\ rec.task = worker[w].task
          BY <2>1 DEF Worker
        <4>2. worker' = [worker EXCEPT ![w] = rec]
          BY <3>3
        <4> HIDE DEF rec
        <4>3. QED
          BY <2>1, <4>1, <4>2, RecordType DEF Executing
      <3>4. QED
        BY <1>6, <3>1, <3>2, <3>3 DEF AgentCalls
    <2>3. approvals' \in [Calls -> ApprovalStatus \cup {"absent"}]
      BY <1>6 DEF AgentCalls, RequestApproval, TypeOK, StoreType, ApprovalStatus
    <2>4. QED
      BY <1>6, <2>2, <2>3 DEF AgentCalls, TypeOK, StoreType
  <1>7. ASSUME NEW w \in Workers, AgentReturns(w) PROVE TypeOK'
    <2>1. PICK output \in Outputs, list \in Artifacts[worker[w].task] :
            worker' = [worker EXCEPT ![w].pc = AfterStoring(0, list), ![w].output = output,
                                     ![w].handed = list, ![w].stored = 0]
      BY <1>7 DEF AgentReturns
    <2> DEFINE rec == [worker[w] EXCEPT !.pc = AfterStoring(0, list), !.output = output,
                                        !.handed = list, !.stored = 0]
    <2>2. worker[w] \in Worker /\ worker[w].task \in Tasks /\ worker[w].task # None
      BY <1>7, AtWork, StoreAssumption DEF TypeOK, WorkerType, AgentReturns, Executing
    <2>3. /\ AfterStoring(0, list) \in {"artifact", "finish"}
          /\ AfterStoring(0, list) = "artifact" => 0 < Len(list)
          /\ list \in Seq(ArtifactIds \cup {None})
      BY <2>2, StoreAssumption DEF AfterStoring
    <2>4. /\ rec \in Worker /\ rec.pc \in {"artifact", "finish"}
          /\ rec.task = worker[w].task /\ rec.output = output
          /\ rec.pc = "artifact" => rec.stored < Len(rec.handed)
      BY <2>2, <2>3 DEF Worker, Executing
    <2>5. worker' = [worker EXCEPT ![w] = rec]
      BY <2>1
    <2>6. output # None
      BY StoreAssumption
    <2> HIDE DEF rec
    <2>7. WorkerType'
      BY <2>2, <2>4, <2>5, <2>6, RecordType DEF Executing
    <2>8. QED
      BY <1>7, <2>7 DEF AgentReturns, storeVars, TypeOK, StoreType
  <1>8. ASSUME NEW w \in Workers, AgentRaises(w) PROVE TypeOK'
    <2>1. WorkerType'
      BY <1>8, RaiseType DEF AgentRaises, Executing
    <2>2. QED
      BY <1>8, <2>1 DEF AgentRaises, storeVars, TypeOK, StoreType
  <1>9. ASSUME NEW w \in Workers, StoreArtifact(w) PROVE TypeOK'
    <2>1. worker[w] \in Worker /\ worker[w].task \in Tasks /\ worker[w].task # None
      BY <1>9, AtWork, StoreAssumption DEF StoreArtifact, Executing, TypeOK, WorkerType
    <2>2. WorkerType'
      <3> DEFINE next == worker[w].stored + 1
                 pc == AfterStoring(next, worker[w].handed)
      <3>1. CASE worker' = [worker EXCEPT ![w].pc = pc, ![w].stored = next]
        <4> DEFINE rec == [worker[w] EXCEPT !.pc = pc, !.stored = next]
        <4>1. pc \in {"artifact", "finish"} /\ (pc = "artifact" => next < Len(worker[w].handed))
          BY DEF AfterStoring
        <4>2. next \in Nat
          BY <2>1 DEF Worker
        <4> HIDE DEF next, pc
        <4>3. /\ rec \in Worker /\ rec.pc = pc /\ rec.task = worker[w].task
              /\ rec.output = worker[w].output
              /\ rec.stored = next /\ rec.handed = worker[w].handed
          BY <2>1, <4>1, <4>2 DEF Worker, Executing
        <4>4. worker' = [worker EXCEPT ![w] = rec]
          BY <3>1
        <4>5. worker[w].output # None
          BY <1>9 DEF StoreArtifact, TypeOK, WorkerType
        <4> HIDE DEF rec
        <4>6. QED
          BY <2>1, <4>1, <4>3, <4>4, <4>5, RecordType DEF Executing
      <3>2. CASE Raise(w, TRUE)
        BY <1>9, <3>2, RaiseType DEF StoreArtifact, Executing
      <3>3. QED
        BY <1>9, <3>1, <3>2 DEF StoreArtifact
    <2>3. artifacts' \subseteq ArtifactRow
      <3> DEFINE next == worker[w].stored + 1
                 id == worker[w].handed[next]
      <3>1. artifacts \subseteq ArtifactRow
        BY DEF TypeOK, StoreType
      <3>2. AddArtifact(worker[w].task, next, id) \/ UNCHANGED artifacts
        BY <1>9 DEF StoreArtifact
      <3>3. worker[w].stored \in Nat /\ worker[w].handed \in Seq(ArtifactIds \cup {None})
        BY <2>1 DEF Worker
      <3>4. worker[w].stored < Len(worker[w].handed)
        BY <1>9 DEF StoreArtifact, TypeOK, WorkerType
      <3>5. next \in Nat /\ id \in ArtifactIds \cup {None}
        BY <3>3, <3>4
      <3>6. tasks[worker[w].task].attempts \in Nat
        BY <2>1 DEF TypeOK, StoreType, TaskRow
      <3> HIDE DEF next, id
      <3>7. QED
        BY <2>1, <3>1, <3>2, <3>5, <3>6 DEF AddArtifact, ArtifactRow
    <2>4. QED
      BY <1>9, <2>2, <2>3 DEF StoreArtifact, TypeOK, StoreType
  <1>10. ASSUME NEW w \in Workers, Finish(w) PROVE TypeOK'
    <2>1. /\ worker[w].task \in Tasks
          /\ worker[w].output \in Outputs /\ worker[w].output # None
      BY <1>10, AtWork DEF Finish, Executing, TypeOK, WorkerType, Worker
    <2>2. WorkerType'
      BY <1>10, NextTaskType, RaiseType DEF Finish, Executing
    <2>3. StoreType'
      <3>1. FinishTask(worker[w].task, worker[w].output) \/ UNCHANGED tasks
        BY <1>10 DEF Finish
      <3>2. /\ tasks' \in [Tasks -> TaskRow]
            /\ \A t \in Tasks : tasks'[t].status = "succeeded" <=> tasks'[t].output # None
        BY <2>1, <3>1 DEF FinishTask, TypeOK, StoreType, TaskRow, TaskStatus
      <3>3. QED
        BY <1>10, <3>2 DEF Finish, TypeOK, StoreType
    <2>4. QED
      BY <1>0, <1>10, <2>2, <2>3 DEF Finish, TypeOK
  <1>11. ASSUME NEW w \in Workers, Wait(w) PROVE TypeOK'
    <2>1. worker[w].task \in Tasks /\ tasks[worker[w].task].status # "succeeded"
      BY <1>11, AtWork DEF Wait, Executing, OwnsRunning
    <2>2. StoreType'
      <3>1. "waiting_approval" \in TaskStatus \ {"succeeded"}
        BY DEF TaskStatus
      <3>2. QED
        BY <1>11, <2>1, <3>1, StatusType DEF Wait, WaitForApproval
    <2>3. QED
      BY <1>0, <1>11, <2>2, NextTaskType DEF Wait, TypeOK
  <1>12. ASSUME NEW w \in Workers, Fail(w) PROVE TypeOK'
    <2>1. worker[w].task \in Tasks /\ tasks[worker[w].task].status # "succeeded"
      BY <1>12, AtWork DEF Fail, Executing, OwnsRunning
    <2>2. FailedStatus(worker[w].task, worker[w].retryable) \in TaskStatus \ {"succeeded"}
      BY DEF FailedStatus, TaskStatus
    <2>3. StoreType'
      BY <1>12, <2>1, <2>2, StatusType DEF Fail, FailTask
    <2>4. QED
      BY <1>0, <1>12, <2>3, NextTaskType DEF Fail, TypeOK
  <1>13. ASSUME NEW w \in Workers, Settle(w) PROVE TypeOK'
    <2> DEFINE rec == [worker[w] EXCEPT !.pc = "publish", !.settled = SettledStatus]
    <2>1. worker[w] \in Worker /\ worker[w].task = None
      BY <1>13 DEF TypeOK, WorkerType, Settle, Executing
    <2>2. SettledStatus \in WorkflowStatus
      BY DEF SettledStatus, WorkflowStatus
    <2>3. rec \in Worker /\ rec.pc = "publish" /\ rec.task = None
      BY <2>1, <2>2 DEF Worker, Executing
    <2>4. worker' = [worker EXCEPT ![w] = rec]
      BY <1>13 DEF Settle
    <2> HIDE DEF rec
    <2>5. WorkerType'
      BY <2>3, <2>4, RecordType DEF Executing
    <2>6. QED
      BY <1>13, <2>5 DEF Settle, storeVars, TypeOK, StoreType
  <1>14. ASSUME NEW w \in Workers, Publish(w) PROVE TypeOK'
    <2>1. worker[w].settled \in WorkflowStatus
      BY DEF TypeOK, WorkerType, Worker
    <2>2. WorkerType'
      BY <1>14, IdleType DEF Publish
    <2>3. QED
      BY <1>14, <2>1, <2>2 DEF Publish, SetWorkflowStatus, TypeOK, StoreType
  <1>15. ASSUME NEW w \in Workers, Abort(w) PROVE TypeOK'
    <2>1. WorkerType'
      BY <1>15, IdleType DEF Abort
    <2>2. aborts' \in 0..MaxAborts
      BY <1>0, <1>15, OrchestratorAssumption DEF Abort
    <2>3. QED
      BY <1>15, <2>1, <2>2 DEF Abort, storeVars, TypeOK, StoreType
  <1>16. ASSUME NEW c \in Calls, Decide(c) PROVE TypeOK'
    <2>1. PICK v \in Verdicts : DecideApproval(c, v)
      BY <1>16 DEF Decide
    <2>2. v \in ApprovalStatus /\ TaskOf[c] \in Tasks
      BY OrchestratorAssumption, StoreAssumption DEF ApprovalStatus
    <2>3. StoreType'
      <3>1. approvals' \in [Calls -> ApprovalStatus \cup {"absent"}]
        BY <2>1, <2>2 DEF DecideApproval, TypeOK, StoreType
      <3>2. /\ tasks' \in [Tasks -> TaskRow]
            /\ \A t \in Tasks : tasks'[t].status = "succeeded" <=> tasks'[t].output # None
        BY <2>1, <2>2 DEF DecideApproval, DecidedTask, TypeOK, StoreType, TaskRow, TaskStatus
      <3>3. QED
        BY <1>16, <3>1, <3>2 DEF Decide, TypeOK, StoreType
    <2>4. QED
      BY <1>0, <1>16, <2>3 DEF Decide, TypeOK, WorkerType
  <1>17. CASE UNCHANGED vars
    BY <1>17 DEF vars, TypeOK, StoreType, WorkerType
  <1>18. QED
    BY <1>1, <1>2, <1>3, <1>4, <1>5, <1>6, <1>7, <1>8, <1>9, <1>10, <1>11, <1>12, <1>13, <1>14,
       <1>15, <1>16, <1>17 DEF Next, Proceed

-----------------------------------------------------------------------------
(* What one step does to the processes and to the rows *)

StepOf(w) == Run(w) \/ Proceed(w) \/ Abort(w)

\* In the loop over its artifacts a process keeps its task, its list and its calls.
LEMMA StoringStep ==
  ASSUME TypeOK, NEW w \in Workers, StoreArtifact(w)
  PROVE  /\ worker[w].pc = "artifact" /\ worker'[w].pc \in {"artifact", "finish", "fail"}
         /\ worker'[w].task = worker[w].task /\ worker'[w].step = worker[w].step
         /\ worker'[w].ready = worker[w].ready /\ worker'[w].settled = worker[w].settled
         /\ UNCHANGED <<workflow, tasks, approvals, aborts>>
  <1> DEFINE next == worker[w].stored + 1
             pc == AfterStoring(next, worker[w].handed)
  <1>1. worker \in [Workers -> Worker] /\ worker[w] \in Worker
    BY DEF TypeOK, WorkerType
  <1>2. pc \in {"artifact", "finish"}
    BY DEF AfterStoring
  <1>3. Raise(w, TRUE) \/ worker' = [worker EXCEPT ![w].pc = pc, ![w].stored = next]
    BY DEF StoreArtifact
  <1> HIDE DEF next, pc
  <1>4. /\ worker'[w].pc \in {"artifact", "finish", "fail"}
        /\ worker'[w].task = worker[w].task /\ worker'[w].step = worker[w].step
        /\ worker'[w].ready = worker[w].ready /\ worker'[w].settled = worker[w].settled
    BY <1>1, <1>2, <1>3 DEF Raise, Worker
  <1>5. QED
    BY <1>4 DEF StoreArtifact

LEMMA OthersStay ==
  ASSUME TypeOK, NEW w \in Workers, StepOf(w), NEW v \in Workers, v # w
  PROVE  worker'[v] = worker[v]
  <1>1. worker \in [Workers -> Worker]
    BY DEF TypeOK, WorkerType
  <1>2. CASE TryStart(w)
    BY <1>1, <1>2 DEF TryStart
  <1>3. CASE AgentCalls(w)
    BY <1>1, <1>3 DEF AgentCalls, Goto, Raise
  <1>4. CASE StoreArtifact(w) \/ Finish(w) \/ Wait(w) \/ Fail(w)
    BY <1>1, <1>4 DEF StoreArtifact, Finish, Wait, Fail, Goto, Raise, NextTask
  <1>5. CASE AgentReturns(w) \/ AgentRaises(w) \/ QueryReady(w) \/ Settle(w)
    BY <1>1, <1>5 DEF AgentReturns, AgentRaises, QueryReady, Settle, Raise
  <1>6. CASE Run(w) \/ MarkRunning(w) \/ EndOfScan(w) \/ Publish(w) \/ Abort(w)
    BY <1>1, <1>6 DEF Run, MarkRunning, EndOfScan, Publish, Abort, Goto
  <1>7. QED
    BY <1>2, <1>3, <1>4, <1>5, <1>6 DEF StepOf, Proceed

\* Whoever executes a task after its step executed it before, on an unchanged
\* row, or took it from pending to running in that step.
LEMMA ExecutorStep ==
  ASSUME TypeOK, NEW w \in Workers, StepOf(w), NEW t \in Tasks, Executes(w, t)'
  PROVE  \/ Executes(w, t) /\ tasks'[t] = tasks[t]
         \/ /\ TryStart(w) /\ t \in worker[w].ready
            /\ tasks[t].status = "pending" /\ tasks'[t].status = "running"
  <1>1. worker \in [Workers -> Worker] /\ worker[w] \in Worker
    BY DEF TypeOK, WorkerType
  <1>2. CASE TryStart(w)
    <2>1. PICK u \in worker[w].ready :
            \/ /\ CanStart(u) /\ StartTask(u)
               /\ worker' = [worker EXCEPT ![w].pc = "agent", ![w].ready = @ \ {u},
                                           ![w].progress = TRUE, ![w].task = u]
            \/ worker' = [worker EXCEPT ![w].ready = @ \ {u}]
      BY <1>2 DEF TryStart
    <2>2. CASE /\ CanStart(u) /\ StartTask(u)
               /\ worker' = [worker EXCEPT ![w].pc = "agent", ![w].ready = @ \ {u},
                                           ![w].progress = TRUE, ![w].task = u]
      <3>1. t = u
        BY <1>1, <2>2 DEF Executes, Worker
      <3>2. tasks[t].status = "pending" /\ tasks'[t].status = "running"
        BY <2>2, <3>1 DEF CanStart, StartTask, TypeOK, StoreType, TaskRow
      <3>3. QED
        BY <1>2, <2>1, <3>1, <3>2
    <2>3. CASE worker' = [worker EXCEPT ![w].ready = @ \ {u}]
      <3>1. worker'[w].pc = "scan"
        BY <1>1, <1>2, <2>3 DEF TryStart, Worker
      <3>2. QED
        BY <3>1 DEF Executes, Executing
    <2>4. QED
      BY <2>1, <2>2, <2>3
  <1>3. CASE AgentCalls(w)
    BY <1>1, <1>3 DEF AgentCalls, Goto, Raise, Executes, Executing, Worker
  <1>4. CASE StoreArtifact(w)
    BY <1>4, StoringStep DEF Executes, Executing
  <1>5. CASE AgentReturns(w) \/ AgentRaises(w)
    <2>1. worker'[w].task = worker[w].task
      <3>1. CASE AgentReturns(w)
        BY <1>1, <3>1 DEF AgentReturns, Worker
      <3>2. CASE AgentRaises(w)
        BY <1>1, <3>2 DEF AgentRaises, Raise, Worker
      <3>3. QED
        BY <1>5, <3>1, <3>2
    <2>2. worker[w].pc \in Executing /\ tasks' = tasks
      BY <1>5 DEF AgentReturns, AgentRaises, Executing, storeVars
    <2>3. QED
      BY <2>1, <2>2 DEF Executes
  <1>6. CASE Wait(w) \/ Fail(w)
    <2>1. worker'[w].pc = "scan"
      BY <1>1, <1>6 DEF Wait, Fail, NextTask, Worker
    <2>2. QED
      BY <2>1 DEF Executes, Executing
  <1>7. CASE Finish(w)
    <2>1. CASE NextTask(w)
      <3>1. worker'[w].pc = "scan"
        BY <1>1, <2>1 DEF NextTask, Worker
      <3>2. QED
        BY <3>1 DEF Executes, Executing
    <2>2. CASE Raise(w, TRUE) /\ UNCHANGED tasks
      <3>1. worker'[w].task = worker[w].task
        BY <1>1, <2>2 DEF Raise, Worker
      <3>2. QED
        BY <1>7, <2>2, <3>1 DEF Finish, Executes, Executing
    <2>3. QED
      BY <1>7, <2>1, <2>2 DEF Finish
  <1>8. CASE QueryReady(w) \/ Settle(w)
    <2>1. worker'[w].pc \in {"settle", "scan", "publish"}
      <3>1. CASE QueryReady(w)
        BY <1>1, <3>1 DEF QueryReady, Worker
      <3>2. CASE Settle(w)
        BY <1>1, <3>2 DEF Settle, Worker
      <3>3. QED
        BY <1>8, <3>1, <3>2
    <2>2. QED
      BY <2>1 DEF Executes, Executing
  <1>9. CASE Run(w) \/ MarkRunning(w) \/ EndOfScan(w)
    BY <1>1, <1>9 DEF Run, MarkRunning, EndOfScan, Goto, Executes, Executing, Worker
  <1>10. CASE Publish(w) \/ Abort(w)
    BY <1>1, <1>10 DEF Publish, Abort, Idle, Executes, Executing
  <1>11. QED
    BY <1>2, <1>3, <1>4, <1>5, <1>6, <1>7, <1>8, <1>9, <1>10 DEF StepOf, Proceed

\* A running row changes only under the hands of the process that executes it.
LEMMA RunningStays ==
  ASSUME TypeOK, NEW w \in Workers, StepOf(w),
         NEW t \in Tasks, tasks[t].status = "running", ~Executes(w, t)
  PROVE  tasks'[t] = tasks[t]
  <1>1. tasks \in [Tasks -> TaskRow]
    BY DEF TypeOK, StoreType
  <1>2. CASE Run(w)
    BY <1>2 DEF Run, ResumeApproved, Resumable
  <1>3. CASE TryStart(w)
    <2>1. PICK u \in worker[w].ready : (CanStart(u) /\ StartTask(u)) \/ UNCHANGED tasks
      BY <1>3 DEF TryStart
    <2>2. QED
      BY <2>1, <1>1 DEF CanStart, StartTask
  <1>4. CASE Finish(w)
    BY <1>1, <1>4 DEF Finish, FinishTask, Executes, Executing
  <1>5. CASE Wait(w)
    BY <1>1, <1>5 DEF Wait, WaitForApproval, Executes, Executing
  <1>6. CASE Fail(w)
    BY <1>1, <1>6 DEF Fail, FailTask, Executes, Executing
  <1>7. QED
    BY <1>2, <1>3, <1>4, <1>5, <1>6
       DEF StepOf, Proceed, storeVars, MarkRunning, QueryReady, EndOfScan, AgentCalls,
           AgentReturns, AgentRaises, StoreArtifact, Settle, Publish, Abort

LEMMA SingleExecutorStep ==
  ASSUME TypeOK, SingleExecutor, [Next]_vars
  PROVE  SingleExecutor'
  <1>1. ASSUME NEW w \in Workers, StepOf(w) PROVE SingleExecutor'
    <2>1. \A v \in Workers, t \in Tasks : v # w => (Executes(v, t)' <=> Executes(v, t))
      BY <1>1, OthersStay DEF Executes
    <2>2. \A v \in Workers, t \in Tasks : Executes(v, t)' =>
            \/ Executes(v, t) /\ tasks'[t] = tasks[t]
            \/ v = w /\ tasks[t].status = "pending" /\ tasks'[t].status = "running"
      <3> SUFFICES ASSUME NEW v \in Workers, NEW t \in Tasks, Executes(v, t)'
                   PROVE  \/ Executes(v, t) /\ tasks'[t] = tasks[t]
                          \/ /\ v = w
                             /\ tasks[t].status = "pending" /\ tasks'[t].status = "running"
        OBVIOUS
      <3>1. CASE v = w
        BY <1>1, <3>1, ExecutorStep
      <3>2. CASE v # w
        <4>1. Executes(v, t) /\ ~Executes(w, t) /\ tasks[t].status = "running"
          BY <2>1, <3>2 DEF SingleExecutor
        <4>2. QED
          BY <1>1, <4>1, RunningStays
      <3>3. QED
        BY <3>1, <3>2
    <2>3. \A v \in Workers, t \in Tasks : Executes(v, t) => tasks[t].status = "running"
      BY DEF SingleExecutor
    <2>4. QED
      BY <2>1, <2>2, <2>3 DEF SingleExecutor
  <1>2. ASSUME NEW c \in Calls, Decide(c) PROVE SingleExecutor'
    <2>1. PICK v \in Verdicts : DecideApproval(c, v)
      BY <1>2 DEF Decide
    <2>2. \A t \in Tasks : tasks[t].status = "running" => tasks'[t] = tasks[t]
      BY <2>1 DEF DecideApproval, DecidedTask, TypeOK, StoreType
    <2>3. QED
      BY <1>2, <2>2 DEF Decide, SingleExecutor, Executes
  <1>3. CASE UNCHANGED vars
    BY <1>3 DEF vars, SingleExecutor, Executes
  <1>4. QED
    BY <1>1, <1>2, <1>3 DEF Next, StepOf

LEMMA Owner == TypeOK /\ SingleExecutor => OwnsRunning
  BY AtWork DEF OwnsRunning, SingleExecutor, Executes

\* Type correctness and exclusive execution are one inductive invariant: a row
\* keeps its type because only the process that owns a running task closes it.
LEMMA CoreInit == Init => TypeOK /\ SingleExecutor
  <1>1. Init => SingleExecutor
    BY DEF Init, Idle, SingleExecutor, Executes, Executing
  <1>2. QED
    BY <1>1, InitType

LEMMA CoreStep == TypeOK /\ SingleExecutor /\ [Next]_vars => (TypeOK /\ SingleExecutor)'
  BY Owner, NextType, SingleExecutorStep

\* Type correctness of tables and processes.
THEOREM TypeCorrect == Spec => []TypeOK
  BY CoreInit, CoreStep, PTL DEF Spec

\* At most one process executes a task, and only while its row is running.
THEOREM ExclusiveExecution == Spec => []SingleExecutor
  BY CoreInit, CoreStep, PTL DEF Spec

\* The outcome of a task never changes.
THEOREM OutcomesAreFinal == Spec => OutcomeIsFinal
  <1>1. TypeOK /\ SingleExecutor /\ [Next]_vars => OutcomesKept
    BY Owner, StepKeepsOutcomes
  <1>2. Spec => [](TypeOK /\ SingleExecutor)
    BY CoreInit, CoreStep, PTL DEF Spec
  <1>3. QED
    BY <1>1, <1>2, PTL DEF Spec, OutcomeIsFinal, OutcomesKept

-----------------------------------------------------------------------------
(* Dependencies and the status of the workflow *)

\* A ready list, however old, names only tasks whose dependencies succeeded.
ReadyStillReady == \A w \in Workers : \A t \in worker[w].ready : Deps[t] \subseteq Succeeded

\* A verdict of success that waits to be written is still true.
SettledSound ==
  \A w \in Workers : worker[w].pc = "publish" /\ worker[w].settled = "succeeded" =>
    Succeeded = Tasks

DagInv ==
  /\ TypeOK
  /\ SingleExecutor
  /\ ReadyStillReady
  /\ DependenciesFirst
  /\ SettledSound
  /\ SuccessIsComplete

LEMMA SucceededGrows ==
  ASSUME TypeOK, SingleExecutor, [Next]_vars
  PROVE  Succeeded \subseteq Succeeded'
  <1>1. OutcomesKept
    BY Owner, StepKeepsOutcomes
  <1>2. QED
    BY <1>1 DEF OutcomesKept, Succeeded

\* Only a start counts an attempt, and only of a task on the ready list.
LEMMA AttemptsStep ==
  ASSUME TypeOK, [Next]_vars, NEW t \in Tasks, tasks'[t].attempts # tasks[t].attempts
  PROVE  \E w \in Workers : t \in worker[w].ready
  <1>1. tasks \in [Tasks -> TaskRow]
    BY DEF TypeOK, StoreType
  <1>2. ASSUME NEW w \in Workers, TryStart(w) PROVE t \in worker[w].ready
    <2>1. PICK u \in worker[w].ready : StartTask(u) \/ UNCHANGED tasks
      BY <1>2 DEF TryStart
    <2>2. QED
      BY <2>1, <1>1 DEF StartTask
  <1>3. ASSUME NEW w \in Workers, Run(w) PROVE FALSE
    BY <1>1, <1>3 DEF Run, ResumeApproved, TaskRow
  <1>4. ASSUME NEW w \in Workers, Finish(w) PROVE FALSE
    <2>1. FinishTask(worker[w].task, worker[w].output) \/ UNCHANGED tasks
      BY <1>4 DEF Finish
    <2>2. QED
      BY <1>1, <2>1 DEF FinishTask, TaskRow
  <1>5. ASSUME NEW w \in Workers, Wait(w) \/ Fail(w) PROVE FALSE
    <2>1. PICK s, u : tasks' = [tasks EXCEPT ![u].status = s]
      BY <1>5 DEF Wait, WaitForApproval, Fail, FailTask
    <2>2. QED
      BY <1>1, <2>1 DEF TaskRow
  <1>6. ASSUME NEW c \in Calls, Decide(c) PROVE FALSE
    <2>1. PICK v \in Verdicts : DecideApproval(c, v)
      BY <1>6 DEF Decide
    <2>2. QED
      BY <2>1, <1>1 DEF DecideApproval, DecidedTask, TaskRow
  <1>7. QED
    BY <1>2, <1>3, <1>4, <1>5, <1>6
       DEF Next, Proceed, vars, storeVars, MarkRunning, QueryReady, EndOfScan, AgentCalls,
           AgentReturns, AgentRaises, StoreArtifact, Settle, Publish, Abort

\* A ready list is read afresh or gets shorter.
LEMMA ReadyStep ==
  ASSUME TypeOK, NEW w \in Workers, StepOf(w)
  PROVE  worker'[w].ready \subseteq worker[w].ready \/ worker'[w].ready = ReadyTasks
  <1>1. worker \in [Workers -> Worker] /\ worker[w] \in Worker
    BY DEF TypeOK, WorkerType
  <1>0. ASSUME NEW pc, Goto(w, pc) PROVE worker'[w].ready = worker[w].ready
    BY <1>0, <1>1 DEF Goto, Worker
  <1>2. CASE TryStart(w)
    BY <1>1, <1>2 DEF TryStart, Worker
  <1>3. CASE QueryReady(w)
    BY <1>1, <1>3 DEF QueryReady, Worker
  <1>4. CASE AgentCalls(w) \/ StoreArtifact(w)
    <2>1. CASE AgentCalls(w)
      <3>1. CASE \E pc : Goto(w, pc)
        BY <1>0, <3>1
      <3>2. CASE Raise(w, FALSE) \/ worker' = [worker EXCEPT ![w].step = @ + 1]
        BY <1>1, <3>2 DEF Raise, Worker
      <3>3. QED
        BY <2>1, <3>1, <3>2 DEF AgentCalls
    <2>2. CASE StoreArtifact(w)
      BY <2>2, StoringStep
    <2>3. QED
      BY <1>4, <2>1, <2>2
  <1>5. CASE AgentReturns(w)
    BY <1>1, <1>5 DEF AgentReturns, Worker
  <1>6. CASE AgentRaises(w) \/ Finish(w) \/ Wait(w) \/ Fail(w)
    BY <1>1, <1>6 DEF AgentRaises, Finish, Wait, Fail, NextTask, Raise, Worker
  <1>7. CASE Run(w) \/ MarkRunning(w) \/ EndOfScan(w) \/ Settle(w)
    <2>1. CASE Settle(w)
      BY <1>1, <2>1 DEF Settle, Worker
    <2>2. CASE Run(w) \/ MarkRunning(w) \/ EndOfScan(w)
      BY <1>0, <2>2 DEF Run, MarkRunning, EndOfScan
    <2>3. QED
      BY <1>7, <2>1, <2>2
  <1>8. CASE Publish(w) \/ Abort(w)
    BY <1>1, <1>8 DEF Publish, Abort, Idle
  <1>9. QED
    BY <1>2, <1>3, <1>4, <1>5, <1>6, <1>7, <1>8 DEF StepOf, Proceed

\* A process comes to publish a verdict only from _settle.
LEMMA PublishStep ==
  ASSUME TypeOK, NEW w \in Workers, StepOf(w), worker'[w].pc = "publish"
  PROVE  worker'[w].settled = SettledStatus
  <1>1. worker \in [Workers -> Worker] /\ worker[w] \in Worker
    BY DEF TypeOK, WorkerType
  <1>2. CASE TryStart(w)
    <2>1. worker[w].pc = "scan"
      BY <1>2 DEF TryStart
    <2>2. PICK u \in worker[w].ready :
            \/ worker' = [worker EXCEPT ![w].pc = "agent", ![w].ready = @ \ {u},
                                        ![w].progress = TRUE, ![w].task = u]
            \/ worker' = [worker EXCEPT ![w].ready = @ \ {u}]
      BY <1>2 DEF TryStart
    <2>3. CASE worker' = [worker EXCEPT ![w].pc = "agent", ![w].ready = @ \ {u},
                                        ![w].progress = TRUE, ![w].task = u]
      <3>1. worker'[w].pc = "agent"
        BY <1>1, <2>3 DEF Worker
      <3>2. QED
        BY <3>1
    <2>4. CASE worker' = [worker EXCEPT ![w].ready = @ \ {u}]
      <3>1. worker'[w].pc = "scan"
        BY <1>1, <2>1, <2>4 DEF Worker
      <3>2. QED
        BY <3>1
    <2>5. QED
      BY <2>2, <2>3, <2>4
  <1>3. CASE QueryReady(w) \/ EndOfScan(w)
    <2>1. CASE QueryReady(w)
      BY <1>1, <2>1 DEF QueryReady, Worker
    <2>2. CASE EndOfScan(w)
      BY <1>1, <2>2 DEF EndOfScan, Goto, Worker
    <2>3. QED
      BY <1>3, <2>1, <2>2
  <1>4. CASE AgentCalls(w) \/ StoreArtifact(w)
    <2>1. CASE AgentCalls(w)
      BY <1>1, <2>1 DEF AgentCalls, Goto, Raise, Worker
    <2>2. CASE StoreArtifact(w)
      BY <2>2, StoringStep
    <2>3. QED
      BY <1>4, <2>1, <2>2
  <1>5. CASE AgentReturns(w)
    BY <1>1, <1>5 DEF AgentReturns, AfterStoring, Worker
  <1>6. CASE AgentRaises(w) \/ Finish(w) \/ Wait(w) \/ Fail(w)
    <2>1. NextTask(w) \/ \E r : Raise(w, r)
      BY <1>6 DEF AgentRaises, Finish, Wait, Fail
    <2>2. worker'[w].pc \in {"scan", "fail"}
      BY <1>1, <2>1 DEF NextTask, Raise, Worker
    <2>3. QED
      BY <2>2
  <1>7. CASE Run(w) \/ MarkRunning(w)
    BY <1>1, <1>7 DEF Run, MarkRunning, Goto, Worker
  <1>8. CASE Publish(w) \/ Abort(w)
    BY <1>1, <1>8 DEF Publish, Abort, Idle
  <1>9. CASE Settle(w)
    BY <1>1, <1>9 DEF Settle, Worker
  <1>10. QED
    BY <1>2, <1>3, <1>4, <1>5, <1>6, <1>7, <1>8, <1>9 DEF StepOf, Proceed

LEMMA DagInit == Init => DagInv
  BY CoreInit DEF DagInv, Init, StoreInit, Idle, ReadyStillReady, DependenciesFirst,
     SettledSound, SuccessIsComplete

LEMMA DagStep == DagInv /\ [Next]_vars => DagInv'
  <1> SUFFICES ASSUME DagInv, [Next]_vars PROVE DagInv'
    OBVIOUS
  <1> USE DEF DagInv
  <1>1. (TypeOK /\ SingleExecutor)'
    BY CoreStep
  <1>2. Succeeded \subseteq Succeeded' /\ Succeeded' \subseteq Tasks
    BY SucceededGrows DEF Succeeded
  <1>3. \A v \in Workers : worker'[v] # worker[v] => StepOf(v)
    <2> SUFFICES ASSUME NEW v \in Workers, worker'[v] # worker[v] PROVE StepOf(v)
      OBVIOUS
    <2>1. ASSUME NEW w \in Workers, StepOf(w) PROVE StepOf(v)
      BY <2>1, OthersStay
    <2>2. QED
      BY <2>1 DEF Next, StepOf, Decide, vars
  <1>4. ReadyStillReady'
    <2> SUFFICES ASSUME NEW w \in Workers, NEW t \in worker'[w].ready
                 PROVE  Deps[t] \subseteq Succeeded'
      BY DEF ReadyStillReady
    <2>1. t \in worker[w].ready \/ t \in ReadyTasks
      BY <1>3, ReadyStep
    <2>2. QED
      BY <2>1, <1>2 DEF ReadyStillReady, ReadyTasks
  <1>5. DependenciesFirst'
    <2> SUFFICES ASSUME NEW t \in Tasks, tasks'[t].attempts > 0
                 PROVE  Deps[t] \subseteq Succeeded'
      BY DEF DependenciesFirst
    <2>1. CASE tasks'[t].attempts = tasks[t].attempts
      BY <2>1, <1>2 DEF DependenciesFirst
    <2>2. CASE tasks'[t].attempts # tasks[t].attempts
      BY <2>2, <1>2, AttemptsStep DEF ReadyStillReady
    <2>3. QED
      BY <2>1, <2>2
  <1>6. SettledStatus = "succeeded" => Succeeded = Tasks
    BY DEF SettledStatus, Succeeded
  <1>7. SettledSound'
    <2> SUFFICES ASSUME NEW w \in Workers, worker'[w].pc = "publish",
                        worker'[w].settled = "succeeded"
                 PROVE  Succeeded' = Tasks
      BY DEF SettledSound
    <2>1. CASE worker'[w] = worker[w]
      BY <2>1, <1>2 DEF SettledSound
    <2>2. CASE worker'[w] # worker[w]
      BY <2>2, <1>2, <1>3, <1>6, PublishStep
    <2>3. QED
      BY <2>1, <2>2
  <1>8. SuccessIsComplete'
    <2> SUFFICES ASSUME workflow' = "succeeded" PROVE Succeeded' = Tasks
      BY DEF SuccessIsComplete
    <2>1. CASE workflow' = workflow
      BY <2>1, <1>2 DEF SuccessIsComplete
    <2>2. CASE workflow' # workflow
      <3>1. PICK w \in Workers : Publish(w) \/ MarkRunning(w)
        BY <2>2 DEF Next, Proceed, vars, storeVars, Run, QueryReady, TryStart, EndOfScan,
           AgentCalls, AgentReturns, AgentRaises, StoreArtifact, Finish, Wait, Fail, Settle,
           Abort, Decide
      <3>2. worker[w].pc = "publish" /\ worker[w].settled = "succeeded"
        BY <3>1 DEF Publish, MarkRunning, SetWorkflowStatus
      <3>3. QED
        BY <3>2, <1>2 DEF SettledSound
    <2>3. QED
      BY <2>1, <2>2
  <1>9. QED
    BY <1>1, <1>4, <1>5, <1>7, <1>8

\* A task that was started has all its dependencies succeeded.
THEOREM DependenciesHold == Spec => []DependenciesFirst
  <1>1. DagInv => DependenciesFirst
    BY DEF DagInv
  <1>2. QED
    BY <1>1, DagInit, DagStep, PTL DEF Spec

\* A workflow reported succeeded has no other task left.
THEOREM SuccessIsReal == Spec => []SuccessIsComplete
  <1>1. DagInv => SuccessIsComplete
    BY DEF DagInv
  <1>2. QED
    BY <1>1, DagInit, DagStep, PTL DEF Spec

-----------------------------------------------------------------------------
(* Approvals *)

\* The calls a process has behind it in the script of its task are approved, and
\* it stores a result only with the whole script behind it.
ScriptFollowed ==
  \A w \in Workers :
    /\ worker[w].task = None => worker[w].step = 0
    /\ worker[w].task # None =>
         /\ worker[w].step <= Len(Script[worker[w].task])
         /\ \A i \in 1..worker[w].step : approvals[Script[worker[w].task][i]] = "approved"
    /\ worker[w].pc \in {"artifact", "finish"} => worker[w].step = Len(Script[worker[w].task])

LEMMA ScriptCalls ==
  ASSUME NEW t \in Tasks
  PROVE  Len(Script[t]) \in Nat /\ \A i \in 1..Len(Script[t]) : Script[t][i] \in Calls
  BY OrchestratorAssumption

LEMMA ApprovalStays ==
  ASSUME TypeOK, [Next]_vars, NEW c \in Calls, approvals[c] = "approved"
  PROVE  approvals'[c] = "approved"
  <1>1. approvals \in [Calls -> ApprovalStatus \cup {"absent"}]
    BY DEF TypeOK, StoreType
  <1>2. ASSUME NEW w \in Workers, AgentCalls(w) PROVE approvals'[c] = "approved"
    <2>1. PICK d : RequestApproval(d) \/ UNCHANGED approvals
      BY <1>2 DEF AgentCalls
    <2>2. QED
      BY <1>1, <2>1 DEF RequestApproval
  <1>3. ASSUME NEW d \in Calls, Decide(d) PROVE approvals'[c] = "approved"
    <2>1. PICK v \in Verdicts : DecideApproval(d, v)
      BY <1>3 DEF Decide
    <2>2. QED
      BY <1>1, <2>1 DEF DecideApproval
  <1>4. QED
    BY <1>2, <1>3
       DEF Next, Proceed, vars, storeVars, Run, MarkRunning, QueryReady, TryStart, EndOfScan,
           AgentReturns, AgentRaises, StoreArtifact, Finish, Wait, Fail, Settle, Publish, Abort

\* How a process moves along a script.
LEMMA ScriptStep ==
  ASSUME TypeOK, NEW w \in Workers, StepOf(w)
  PROVE  \/ worker'[w].task = None /\ worker'[w].step = 0
         \/ /\ worker'[w].task = worker[w].task /\ worker'[w].step = worker[w].step
            /\ worker'[w].pc \in {"artifact", "finish"} =>
                 \/ worker[w].pc \in {"artifact", "finish"}
                 \/ worker[w].step = Len(Script[worker[w].task])
         \/ /\ worker'[w].task = worker[w].task /\ worker'[w].step = worker[w].step + 1
            /\ worker[w].task # None /\ worker'[w].pc = "agent"
            /\ worker[w].step < Len(Script[worker[w].task])
            /\ approvals[Script[worker[w].task][worker[w].step + 1]] = "approved"
         \/ /\ worker[w].task = None /\ worker'[w].task \in Tasks
            /\ worker'[w].step = worker[w].step /\ worker'[w].pc = "agent"
  <1>1. worker \in [Workers -> Worker] /\ worker[w] \in Worker
    BY DEF TypeOK, WorkerType
  <1>2. CASE TryStart(w)
    <2>1. worker[w].task = None /\ worker[w].pc = "scan"
      BY <1>2 DEF TryStart, TypeOK, WorkerType, Executing
    <2>2. PICK u \in worker[w].ready :
            \/ worker' = [worker EXCEPT ![w].pc = "agent", ![w].ready = @ \ {u},
                                        ![w].progress = TRUE, ![w].task = u]
            \/ worker' = [worker EXCEPT ![w].ready = @ \ {u}]
      BY <1>2 DEF TryStart
    <2>3. u \in Tasks
      BY <1>1 DEF Worker
    <2>4. CASE worker' = [worker EXCEPT ![w].pc = "agent", ![w].ready = @ \ {u},
                                        ![w].progress = TRUE, ![w].task = u]
      BY <1>1, <2>1, <2>3, <2>4 DEF Worker
    <2>5. CASE worker' = [worker EXCEPT ![w].ready = @ \ {u}]
      BY <1>1, <2>1, <2>5 DEF Worker
    <2>6. QED
      BY <2>2, <2>4, <2>5
  <1>3. CASE AgentCalls(w)
    <2>1. worker[w].task # None /\ worker[w].pc = "agent"
      BY <1>3 DEF AgentCalls, TypeOK, WorkerType, Executing
    <2>2. CASE Goto(w, "wait") \/ Raise(w, FALSE)
      BY <1>1, <2>2 DEF Goto, Raise, Worker
    <2>3. CASE /\ CallVerdict(Script[worker[w].task][worker[w].step + 1]) = "granted"
               /\ worker' = [worker EXCEPT ![w].step = @ + 1]
      <3>1. approvals[Script[worker[w].task][worker[w].step + 1]] = "approved"
        BY <2>3 DEF CallVerdict
      <3>2. /\ worker'[w].task = worker[w].task /\ worker'[w].step = worker[w].step + 1
            /\ worker'[w].pc = "agent"
        BY <1>1, <2>1, <2>3 DEF Worker
      <3>3. worker[w].step < Len(Script[worker[w].task])
        BY <1>3 DEF AgentCalls
      <3>4. QED
        BY <2>1, <3>1, <3>2, <3>3
    <2>4. QED
      BY <1>3, <2>2, <2>3 DEF AgentCalls
  <1>4. CASE AgentReturns(w)
    <2>1. worker'[w].task = worker[w].task /\ worker'[w].step = worker[w].step
      BY <1>1, <1>4 DEF AgentReturns, Worker
    <2>2. worker[w].step = Len(Script[worker[w].task])
      BY <1>4 DEF AgentReturns
    <2>3. QED
      BY <2>1, <2>2
  <1>5. CASE NextTask(w) \/ worker' = [worker EXCEPT ![w] = Idle]
    BY <1>1, <1>5 DEF NextTask, Idle, Worker
  <1>6. CASE (\E r : Raise(w, r)) \/ \E pc \in {"mark", "query", "scan", "settle"} : Goto(w, pc)
    BY <1>1, <1>6 DEF Raise, Goto, Worker
  <1>7. CASE StoreArtifact(w)
    BY <1>7, StoringStep
  <1>8. CASE QueryReady(w)
    BY <1>1, <1>8 DEF QueryReady, Worker
  <1>9. CASE Settle(w)
    BY <1>1, <1>9 DEF Settle, Worker
  <1>10. QED
    BY <1>2, <1>3, <1>4, <1>5, <1>6, <1>7, <1>8, <1>9
       DEF StepOf, Proceed, Run, MarkRunning, EndOfScan, AgentRaises, Finish, Wait, Fail,
           Publish, Abort

\* A task becomes succeeded only by the last step of its executor.
LEMMA SuccessStep ==
  ASSUME TypeOK, [Next]_vars, NEW t \in Tasks, t \in Succeeded', t \notin Succeeded
  PROVE  \E w \in Workers : worker[w].pc = "finish" /\ worker[w].task = t
  <1>1. tasks \in [Tasks -> TaskRow]
    BY DEF TypeOK, StoreType
  <1>2. tasks'[t].status = "succeeded" /\ tasks[t].status # "succeeded"
    BY DEF Succeeded
  <1>3. ASSUME NEW w \in Workers, Finish(w) PROVE worker[w].pc = "finish" /\ worker[w].task = t
    <2>1. FinishTask(worker[w].task, worker[w].output) \/ UNCHANGED tasks
      BY <1>3 DEF Finish
    <2>2. QED
      BY <1>1, <1>2, <1>3, <2>1 DEF Finish, FinishTask
  <1>4. ASSUME NEW u, NEW s, s # "succeeded", tasks' = [tasks EXCEPT ![u].status = s]
        PROVE  FALSE
    BY <1>1, <1>2, <1>4 DEF TaskRow
  <1>5. ASSUME NEW w \in Workers, Run(w) PROVE FALSE
    BY <1>1, <1>2, <1>5 DEF Run, ResumeApproved, TaskRow
  <1>6. ASSUME NEW w \in Workers, TryStart(w) PROVE FALSE
    <2>1. PICK u \in worker[w].ready : StartTask(u) \/ UNCHANGED tasks
      BY <1>6 DEF TryStart
    <2>2. QED
      BY <1>1, <1>2, <2>1 DEF StartTask, TaskRow
  <1>7. ASSUME NEW w \in Workers, Wait(w) PROVE FALSE
    BY <1>4, <1>7 DEF Wait, WaitForApproval
  <1>8. ASSUME NEW w \in Workers, Fail(w) PROVE FALSE
    <2>1. FailedStatus(worker[w].task, worker[w].retryable) # "succeeded"
      BY DEF FailedStatus
    <2>2. QED
      BY <1>4, <1>8, <2>1 DEF Fail, FailTask
  <1>9. ASSUME NEW c \in Calls, Decide(c) PROVE FALSE
    <2>1. PICK v \in Verdicts : DecideApproval(c, v)
      BY <1>9 DEF Decide
    <2>2. QED
      BY <1>1, <1>2, <2>1 DEF DecideApproval, DecidedTask, TaskRow
  <1>10. QED
    BY <1>2, <1>3, <1>5, <1>6, <1>7, <1>8, <1>9
       DEF Next, Proceed, vars, storeVars, MarkRunning, QueryReady, EndOfScan, AgentCalls,
           AgentReturns, AgentRaises, StoreArtifact, Settle, Publish, Abort

ApprovalInv == TypeOK /\ SingleExecutor /\ ScriptFollowed /\ ApprovedBeforeSuccess

LEMMA ApprovalInit == Init => ApprovalInv
  BY CoreInit DEF ApprovalInv, Init, StoreInit, Idle, ScriptFollowed, ApprovedBeforeSuccess,
     Succeeded

LEMMA ApprovalStep == ApprovalInv /\ [Next]_vars => ApprovalInv'
  <1> SUFFICES ASSUME ApprovalInv, [Next]_vars PROVE ApprovalInv'
    OBVIOUS
  <1> USE DEF ApprovalInv
  <1>1. (TypeOK /\ SingleExecutor)'
    BY CoreStep
  <1>2. \A v \in Workers : worker'[v] # worker[v] => StepOf(v)
    <2> SUFFICES ASSUME NEW v \in Workers, worker'[v] # worker[v] PROVE StepOf(v)
      OBVIOUS
    <2>1. ASSUME NEW w \in Workers, StepOf(w) PROVE StepOf(v)
      BY <2>1, OthersStay
    <2>2. QED
      BY <2>1 DEF Next, StepOf, Decide, vars
  <1>3. \A v \in Workers : /\ worker[v].step \in Nat
                           /\ worker[v].task # None => worker[v].task \in Tasks
    BY DEF TypeOK, WorkerType, Worker
  <1>4. ASSUME NEW v \in Workers, worker[v].task # None
        PROVE  \A i \in 1..worker[v].step : approvals'[Script[worker[v].task][i]] = "approved"
    <2> SUFFICES ASSUME NEW i \in 1..worker[v].step
                 PROVE  approvals'[Script[worker[v].task][i]] = "approved"
      OBVIOUS
    <2>1. Script[worker[v].task][i] \in Calls
      BY <1>3, <1>4, ScriptCalls DEF ScriptFollowed
    <2>2. QED
      BY <2>1, <1>4, ApprovalStays DEF ScriptFollowed
  <1>5. ScriptFollowed'
    <2> SUFFICES ASSUME NEW v \in Workers
                 PROVE  /\ worker'[v].task = None => worker'[v].step = 0
                        /\ worker'[v].task # None =>
                             /\ worker'[v].step <= Len(Script[worker'[v].task])
                             /\ \A i \in 1..worker'[v].step :
                                  approvals'[Script[worker'[v].task][i]] = "approved"
                        /\ worker'[v].pc \in {"artifact", "finish"} =>
                             worker'[v].step = Len(Script[worker'[v].task])
      BY DEF ScriptFollowed
    <2>1. CASE worker'[v] = worker[v]
      BY <2>1, <1>4 DEF ScriptFollowed
    <2>2. CASE StepOf(v)
      <3>1. CASE worker'[v].task = None /\ worker'[v].step = 0
        <4>1. worker'[v].pc \notin {"artifact", "finish"}
          BY <1>1, <3>1 DEF TypeOK, WorkerType, Executing
        <4>2. QED
          BY <3>1, <4>1
      <3>2. CASE /\ worker'[v].task = worker[v].task /\ worker'[v].step = worker[v].step
                 /\ worker'[v].pc \in {"artifact", "finish"} =>
                      \/ worker[v].pc \in {"artifact", "finish"}
                      \/ worker[v].step = Len(Script[worker[v].task])
        BY <3>2, <1>4 DEF ScriptFollowed
      <3>3. CASE /\ worker'[v].task = worker[v].task /\ worker'[v].step = worker[v].step + 1
                 /\ worker[v].task # None /\ worker'[v].pc = "agent"
                 /\ worker[v].step < Len(Script[worker[v].task])
                 /\ approvals[Script[worker[v].task][worker[v].step + 1]] = "approved"
        <4>1. worker[v].task \in Tasks /\ worker[v].step \in Nat
          BY <1>3, <3>3
        <4>2. Len(Script[worker[v].task]) \in Nat
          BY <4>1, ScriptCalls
        <4>3. Script[worker[v].task][worker[v].step + 1] \in Calls
          BY <3>3, <4>1, <4>2, ScriptCalls
        <4>4. approvals'[Script[worker[v].task][worker[v].step + 1]] = "approved"
          BY <3>3, <4>3, ApprovalStays
        <4>5. \A i \in 1..(worker[v].step + 1) : i \in 1..worker[v].step \/ i = worker[v].step + 1
          BY <4>1
        <4>6. QED
          BY <3>3, <4>1, <4>2, <4>4, <4>5, <1>4
      <3>4. CASE /\ worker[v].task = None /\ worker'[v].task \in Tasks
                 /\ worker'[v].step = worker[v].step /\ worker'[v].pc = "agent"
        <4>1. worker'[v].step = 0
          BY <3>4 DEF ScriptFollowed
        <4>2. Len(Script[worker'[v].task]) \in Nat /\ worker'[v].task # None
          BY <3>4, ScriptCalls, StoreAssumption
        <4>3. QED
          BY <3>4, <4>1, <4>2
      <3>5. QED
        BY <2>2, <3>1, <3>2, <3>3, <3>4, ScriptStep
    <2>3. QED
      BY <2>1, <2>2, <1>2
  <1>6. ApprovedBeforeSuccess'
    <2> SUFFICES ASSUME NEW t \in Succeeded', NEW i \in 1..Len(Script[t])
                 PROVE  approvals'[Script[t][i]] = "approved"
      BY DEF ApprovedBeforeSuccess
    <2>1. t \in Tasks
      BY DEF Succeeded
    <2>2. Script[t][i] \in Calls
      BY <2>1, ScriptCalls
    <2>3. CASE t \in Succeeded
      BY <2>2, <2>3, ApprovalStays DEF ApprovedBeforeSuccess
    <2>4. CASE t \notin Succeeded
      <3>1. PICK w \in Workers : worker[w].pc = "finish" /\ worker[w].task = t
        BY <2>1, <2>4, SuccessStep
      <3>2. worker[w].step = Len(Script[t]) /\ worker[w].task # None
        BY <2>1, <3>1, StoreAssumption DEF ScriptFollowed
      <3>3. QED
        BY <3>1, <3>2, <1>4
    <2>5. QED
      BY <2>3, <2>4
  <1>7. QED
    BY <1>1, <1>5, <1>6

\* No task succeeds past an approval that is missing, pending or rejected.
THEOREM ApprovalsHold == Spec => []ApprovedBeforeSuccess
  <1>1. ApprovalInv => ApprovedBeforeSuccess
    BY DEF ApprovalInv
  <1>2. QED
    BY <1>1, ApprovalInit, ApprovalStep, PTL DEF Spec
-----------------------------------------------------------------------------
(* Pauses for an approval, and the attempts they cost *)

\* Calls of a task that a reviewer has yet to decide, or has rejected.
OpenCalls(t) == {c \in CallsOf(t) : approvals[c] \in {"pending", "rejected"}}

ApprovedCalls(t) == {c \in CallsOf(t) : approvals[c] = "approved"}

\* A task has at most one open call, and nobody works on it: its executor, if it
\* still has one, is about to put it to wait.
Paused ==
  \A t \in Tasks : OpenCalls(t) # {} =>
    /\ tasks[t].status \in {"running", "waiting_approval", "failed"}
    /\ \A w \in Workers : Executes(w, t) => worker[w].pc = "wait"
    /\ \A c, d \in OpenCalls(t) : c = d

\* A task at rest that nothing holds back, or about to be, has an attempt left.
AttemptLeft(t) ==
  /\ OpenCalls(t) = {}
  /\ \/ tasks[t].status \in {"pending", "waiting_approval"}
     \/ \E w \in Workers : Executes(w, t) /\ worker[w].pc = "wait"
  => tasks[t].attempts < MaxAttempts + Cardinality(ApprovedCalls(t))

Budget ==
  \A t \in Tasks :
    /\ IsFiniteSet(ApprovedCalls(t))
    /\ tasks[t].attempts <= MaxAttempts + Cardinality(ApprovedCalls(t))
    /\ AttemptLeft(t)

\* What a process does to a row.
LEMMA RowStep ==
  ASSUME TypeOK, NEW w \in Workers, StepOf(w), NEW t \in Tasks
  PROVE  \/ tasks'[t] = tasks[t]
         \/ /\ Resumable(t) /\ tasks'[t].status = "pending"
            /\ tasks'[t].attempts = tasks[t].attempts
         \/ /\ CanStart(t) /\ worker[w].pc = "scan" /\ tasks'[t].status = "running"
            /\ tasks'[t].attempts = tasks[t].attempts + 1
            /\ worker'[w].pc = "agent" /\ worker'[w].task = t
         \/ /\ Executes(w, t) /\ tasks'[t].attempts = tasks[t].attempts
            /\ worker'[w].pc = "scan"
            /\ \/ worker[w].pc = "finish" /\ tasks'[t].status = "succeeded"
               \/ worker[w].pc = "wait" /\ tasks'[t].status = "waiting_approval"
               \/ worker[w].pc = "fail" /\ tasks'[t].status = "failed"
               \/ /\ worker[w].pc = "fail" /\ tasks'[t].status = "pending"
                  /\ tasks[t].attempts < MaxAttempts
  <1>1. tasks \in [Tasks -> TaskRow] /\ worker \in [Workers -> Worker] /\ worker[w] \in Worker
    BY DEF TypeOK, StoreType, WorkerType
  <1>2. CASE Run(w)
    BY <1>1, <1>2 DEF Run, ResumeApproved, TaskRow
  <1>3. CASE TryStart(w)
    <2>1. PICK u \in worker[w].ready :
            \/ /\ CanStart(u) /\ StartTask(u)
               /\ worker' = [worker EXCEPT ![w].pc = "agent", ![w].ready = @ \ {u},
                                           ![w].progress = TRUE, ![w].task = u]
            \/ UNCHANGED tasks
      BY <1>3 DEF TryStart
    <2>2. CASE UNCHANGED tasks
      BY <2>2
    <2>3. CASE /\ CanStart(u) /\ StartTask(u)
               /\ worker' = [worker EXCEPT ![w].pc = "agent", ![w].ready = @ \ {u},
                                           ![w].progress = TRUE, ![w].task = u]
      <3>1. worker'[w].pc = "agent" /\ worker'[w].task = u /\ worker[w].pc = "scan"
        BY <1>1, <1>3, <2>3 DEF Worker, TryStart
      <3>2. CASE t # u
        BY <1>1, <2>3, <3>2 DEF StartTask
      <3>3. CASE t = u
        <4>1. tasks'[t].status = "running" /\ tasks'[t].attempts = tasks[t].attempts + 1
          BY <1>1, <2>3, <3>3 DEF StartTask, TaskRow
        <4>2. QED
          BY <2>3, <3>1, <3>3, <4>1
      <3>4. QED
        BY <3>2, <3>3
    <2>4. QED
      BY <2>1, <2>2, <2>3
  <1>4. ASSUME NEW s, worker[w].pc \in Executing, NextTask(w),
               tasks' = [tasks EXCEPT ![worker[w].task].status = s], tasks'[t] # tasks[t]
        PROVE  /\ Executes(w, t) /\ tasks'[t].attempts = tasks[t].attempts
               /\ worker'[w].pc = "scan" /\ tasks'[t].status = s
    <2>1. worker[w].task = t
      BY <1>1, <1>4
    <2>2. worker'[w].pc = "scan"
      BY <1>1, <1>4 DEF NextTask, Worker
    <2>3. tasks'[t].attempts = tasks[t].attempts /\ tasks'[t].status = s
      BY <1>1, <1>4, <2>1 DEF TaskRow
    <2>4. QED
      BY <1>4, <2>1, <2>2, <2>3 DEF Executes
  <1>5. CASE Finish(w)
    <2>1. CASE UNCHANGED tasks
      BY <2>1
    <2>2. CASE tasks'[t] # tasks[t] /\ FinishTask(worker[w].task, worker[w].output) /\ NextTask(w)
      <3>1. worker[w].task = t
        BY <1>1, <2>2 DEF FinishTask
      <3>2. worker'[w].pc = "scan"
        BY <1>1, <2>2 DEF NextTask, Worker
      <3>3. tasks'[t].attempts = tasks[t].attempts /\ tasks'[t].status = "succeeded"
        BY <1>1, <2>2, <3>1 DEF FinishTask, TaskRow
      <3>4. QED
        BY <1>5, <3>1, <3>2, <3>3 DEF Finish, Executes, Executing
    <2>3. QED
      BY <1>5, <2>1, <2>2 DEF Finish
  <1>6. CASE Wait(w)
    <2>1. /\ worker[w].pc = "wait" /\ worker[w].pc \in Executing /\ NextTask(w)
          /\ tasks' = [tasks EXCEPT ![worker[w].task].status = "waiting_approval"]
      BY <1>6 DEF Wait, WaitForApproval, Executing
    <2>2. CASE tasks'[t] # tasks[t]
      BY <1>4, <2>1, <2>2
    <2>3. QED
      BY <2>2
  <1>7. CASE Fail(w)
    <2>1. /\ worker[w].pc = "fail" /\ worker[w].pc \in Executing /\ NextTask(w)
          /\ tasks' = [tasks EXCEPT ![worker[w].task].status =
                         FailedStatus(worker[w].task, worker[w].retryable)]
      BY <1>7 DEF Fail, FailTask, Executing
    <2>2. CASE tasks'[t] # tasks[t]
      <3>1. /\ Executes(w, t) /\ tasks'[t].attempts = tasks[t].attempts
            /\ worker'[w].pc = "scan"
            /\ tasks'[t].status = FailedStatus(worker[w].task, worker[w].retryable)
        BY <1>4, <2>1, <2>2
      <3>2. QED
        BY <2>1, <3>1 DEF FailedStatus, Executes
    <2>3. QED
      BY <2>2
  <1>8. QED
    BY <1>2, <1>3, <1>5, <1>6, <1>7
       DEF StepOf, Proceed, storeVars, MarkRunning, QueryReady, EndOfScan, AgentCalls,
           AgentReturns, AgentRaises, StoreArtifact, Settle, Publish, Abort

\* What a process does to the approvals of its task, and what leaves an
\* execution at "wait".
LEMMA CallStep ==
  ASSUME TypeOK, NEW w \in Workers, StepOf(w)
  PROVE  \/ approvals' = approvals /\ (worker'[w].pc = "wait" => worker'[w] = worker[w])
         \/ /\ worker[w].pc = "agent" /\ worker'[w].pc = "wait"
            /\ worker[w].task \in Tasks /\ worker'[w].task = worker[w].task /\ tasks' = tasks
            /\ \E c \in CallsOf(worker[w].task) :
                 approvals[c] # "approved" /\ approvals' = [approvals EXCEPT ![c] = "pending"]
  <1>1. worker \in [Workers -> Worker] /\ worker[w] \in Worker
    BY DEF TypeOK, WorkerType
  <1>2. approvals \in [Calls -> ApprovalStatus \cup {"absent"}]
    BY DEF TypeOK, StoreType
  <1>3. CASE AgentCalls(w)
    <2> DEFINE t == worker[w].task
               c == Script[t][worker[w].step + 1]
    <2>1. /\ worker[w].pc = "agent" /\ worker[w].step < Len(Script[t]) /\ tasks' = tasks
          /\ \/ CallVerdict(c) = "required" /\ Goto(w, "wait") /\ RequestApproval(c)
             \/ Raise(w, FALSE) /\ UNCHANGED approvals
             \/ worker' = [worker EXCEPT ![w].step = @ + 1] /\ UNCHANGED approvals
      BY <1>3 DEF AgentCalls
    <2>2. t \in Tasks /\ worker[w].step \in Nat
      BY <1>1, <2>1, AtWork DEF Executing, Worker
    <2>3. worker[w].step + 1 \in 1..Len(Script[t])
      BY <2>1, <2>2, ScriptCalls
    <2>4. c \in Calls /\ TaskOf[c] = t
      BY <2>2, <2>3, OrchestratorAssumption
    <2>5. c \in CallsOf(t)
      BY <2>4 DEF CallsOf
    <2> HIDE DEF c
    <2>6. CASE CallVerdict(c) = "required" /\ Goto(w, "wait") /\ RequestApproval(c)
      <3>1. approvals[c] # "approved" /\ approvals[c] # "rejected"
        BY <2>6 DEF CallVerdict
      <3>2. approvals[c] = "absent" \/ approvals[c] = "pending"
        BY <1>2, <2>4, <3>1 DEF ApprovalStatus
      <3>3. approvals' = [approvals EXCEPT ![c] = "pending"]
        BY <1>2, <2>4, <2>6, <3>2 DEF RequestApproval
      <3>4. worker'[w].pc = "wait" /\ worker'[w].task = t
        BY <1>1, <2>6 DEF Goto, Worker
      <3>5. QED
        BY <2>1, <2>2, <2>5, <3>1, <3>3, <3>4
    <2>7. CASE Raise(w, FALSE) /\ UNCHANGED approvals
      BY <1>1, <2>7 DEF Raise, Worker
    <2>8. CASE worker' = [worker EXCEPT ![w].step = @ + 1] /\ UNCHANGED approvals
      <3>1. worker'[w].pc = "agent"
        BY <1>1, <2>1, <2>8 DEF Worker
      <3>2. QED
        BY <2>8, <3>1
    <2>9. QED
      BY <2>1, <2>6, <2>7, <2>8
  <1>4. CASE TryStart(w)
    <2>1. PICK u \in worker[w].ready :
            \/ worker' = [worker EXCEPT ![w].pc = "agent", ![w].ready = @ \ {u},
                                        ![w].progress = TRUE, ![w].task = u]
            \/ worker' = [worker EXCEPT ![w].ready = @ \ {u}]
      BY <1>4 DEF TryStart
    <2>2. worker[w].pc = "scan" /\ approvals' = approvals
      BY <1>4 DEF TryStart
    <2>3. worker'[w].pc \in {"agent", "scan"}
      BY <1>1, <2>1, <2>2 DEF Worker
    <2>4. QED
      BY <2>2, <2>3
  <1>5. CASE QueryReady(w)
    BY <1>1, <1>5 DEF QueryReady, storeVars, Worker
  <1>6. CASE AgentReturns(w)
    BY <1>1, <1>6 DEF AgentReturns, AfterStoring, storeVars, Worker
  <1>7. CASE NextTask(w) /\ UNCHANGED approvals
    BY <1>1, <1>7 DEF NextTask, Worker
  <1>8. CASE (\E r : Raise(w, r)) /\ UNCHANGED approvals
    BY <1>1, <1>8 DEF Raise, Worker
  <1>9. CASE \/ StoreArtifact(w)
             \/ (\E pc \in {"mark", "query", "scan", "settle"} : Goto(w, pc)) /\ UNCHANGED approvals
    BY <1>1, <1>9, StoringStep DEF Goto, Worker
  <1>10. CASE Settle(w)
    BY <1>1, <1>10 DEF Settle, storeVars, Worker
  <1>11. CASE worker' = [worker EXCEPT ![w] = Idle] /\ UNCHANGED approvals
    BY <1>1, <1>11 DEF Idle
  <1>12. QED
    BY <1>3, <1>4, <1>5, <1>6, <1>7, <1>8, <1>9, <1>10, <1>11
       DEF StepOf, Proceed, storeVars, Run, MarkRunning, EndOfScan, AgentRaises, Finish, Wait,
           Fail, Publish, Abort

\* Whoever stops executing at "wait" leaves the row waiting, or dies.
LEMMA LeavesWait ==
  ASSUME TypeOK, NEW w \in Workers, StepOf(w), worker[w].pc = "wait"
  PROVE  worker'[w].pc \notin Executing
  <1>1. worker \in [Workers -> Worker]
    BY DEF TypeOK, WorkerType
  <1>2. CASE Wait(w)
    BY <1>1, <1>2 DEF Wait, NextTask, Executing, Worker
  <1>3. CASE Abort(w)
    BY <1>1, <1>3 DEF Abort, Idle, Executing
  <1>4. QED
    BY <1>2, <1>3
       DEF StepOf, Proceed, Run, MarkRunning, QueryReady, TryStart, EndOfScan, AgentCalls,
           AgentReturns, AgentRaises, StoreArtifact, Finish, Fail, Settle, Publish

PauseInv == TypeOK /\ SingleExecutor /\ Paused /\ Budget

\* The set of calls of every task, as a step that leaves the approvals alone sees it.
LEMMA CallsKept ==
  ASSUME UNCHANGED approvals
  PROVE  \A t \in Tasks : OpenCalls(t)' = OpenCalls(t) /\ ApprovedCalls(t)' = ApprovedCalls(t)
  BY DEF OpenCalls, ApprovedCalls, CallsOf

\* A step of a process that leaves the approvals alone.
LEMMA PauseQuiet ==
  ASSUME PauseInv, NEW w \in Workers, StepOf(w), approvals' = approvals,
         worker'[w].pc = "wait" => worker'[w] = worker[w]
  PROVE  Paused' /\ Budget'
  <1> USE DEF PauseInv
  <1>1. \A t \in Tasks : OpenCalls(t)' = OpenCalls(t) /\ ApprovedCalls(t)' = ApprovedCalls(t)
    BY CallsKept
  <1>2. \A v \in Workers : v # w => worker'[v] = worker[v]
    BY OthersStay
  <1>3. tasks \in [Tasks -> TaskRow] /\ MaxAttempts \in Nat /\ TypeOK
    BY StoreAssumption DEF TypeOK, StoreType
  <1>4. ASSUME NEW t \in Tasks, OpenCalls(t) # {}
        PROVE  /\ tasks'[t].status \in {"running", "waiting_approval", "failed"}
               /\ \A v \in Workers : Executes(v, t)' => worker'[v].pc = "wait"
    <2>1. /\ tasks[t].status \in {"running", "waiting_approval", "failed"}
          /\ \A v \in Workers : Executes(v, t) => worker[v].pc = "wait"
      BY <1>4 DEF Paused
    <2>2. ~Resumable(t) /\ ~CanStart(t)
      BY <2>1, <1>4 DEF Resumable, CanStart, OpenCalls, CallsOf
    <2>3. tasks'[t].status \in {"running", "waiting_approval", "failed"}
      BY <1>3, <2>1, <2>2, RowStep
    <2>4. ASSUME NEW v \in Workers, Executes(v, t)' PROVE worker'[v].pc = "wait"
      <3>1. CASE v # w
        BY <2>1, <2>4, <1>2, <3>1 DEF Executes
      <3>2. CASE v = w
        <4>1. Executes(w, t)
          BY <1>3, <2>1, <2>4, <3>2, ExecutorStep
        <4>2. QED
          BY <1>3, <2>1, <2>4, <3>2, <4>1, LeavesWait DEF Executes
      <3>3. QED
        BY <3>1, <3>2
    <2>5. QED
      BY <2>3, <2>4
  <1>5. Paused'
    BY <1>1, <1>4 DEF Paused
  <1>6. ASSUME NEW t \in Tasks
        PROVE  /\ tasks'[t].attempts <= MaxAttempts + Cardinality(ApprovedCalls(t))
               /\ OpenCalls(t) = {} /\ tasks'[t].status \in {"pending", "waiting_approval"} =>
                    tasks'[t].attempts < MaxAttempts + Cardinality(ApprovedCalls(t))
    <2> DEFINE n == Cardinality(ApprovedCalls(t))
    <2>1. n \in Nat /\ tasks[t].attempts \in Nat
      BY <1>3, FS_CardinalityType DEF Budget, TaskRow
    <2>2. tasks[t].attempts <= MaxAttempts + n
      BY DEF Budget
    <2>3. /\ OpenCalls(t) = {}
          /\ \/ tasks[t].status \in {"pending", "waiting_approval"}
             \/ Executes(w, t) /\ worker[w].pc = "wait"
          => tasks[t].attempts < MaxAttempts + n
      BY DEF Budget, AttemptLeft
    <2>4. CanStart(t) => OpenCalls(t) = {} /\ tasks[t].status = "pending"
      BY DEF CanStart, Paused
    <2>5. Resumable(t) => tasks[t].status = "waiting_approval"
      BY DEF Resumable
    <2> HIDE DEF n
    <2>6. /\ tasks'[t].attempts <= MaxAttempts + n
          /\ OpenCalls(t) = {} /\ tasks'[t].status \in {"pending", "waiting_approval"} =>
               tasks'[t].attempts < MaxAttempts + n
      <3>1. CASE tasks'[t] = tasks[t]
        BY <2>2, <2>3, <3>1
      <3>2. CASE Resumable(t) /\ tasks'[t].attempts = tasks[t].attempts
        BY <2>2, <2>3, <2>5, <3>2
      <3>3. CASE /\ CanStart(t) /\ tasks'[t].status = "running"
                 /\ tasks'[t].attempts = tasks[t].attempts + 1
        BY <1>3, <2>1, <2>3, <2>4, <3>3
      <3>4. CASE Executes(w, t) /\ tasks'[t].attempts = tasks[t].attempts
        <4>1. \/ tasks'[t].status \notin {"pending", "waiting_approval"}
              \/ worker[w].pc = "wait"
              \/ tasks[t].attempts < MaxAttempts
              \/ tasks'[t] = tasks[t] /\ tasks[t].status = "running"
          BY <1>3, <3>4, RowStep DEF SingleExecutor, Resumable, CanStart
        <4>2. QED
          BY <1>3, <2>1, <2>2, <2>3, <3>4, <4>1
      <3>5. QED
        BY <1>3, <3>1, <3>2, <3>3, <3>4, RowStep
    <2>7. QED
      BY <2>6 DEF n
  <1>7. ASSUME NEW t \in Tasks, OpenCalls(t) = {},
               NEW v \in Workers, Executes(v, t)', worker'[v].pc = "wait"
        PROVE  tasks'[t].attempts < MaxAttempts + Cardinality(ApprovedCalls(t))
    <2>1. worker'[v] = worker[v]
      BY <1>2, <1>7
    <2>2. Executes(v, t) /\ worker[v].pc = "wait"
      BY <1>7, <2>1 DEF Executes
    <2>3. tasks[t].attempts < MaxAttempts + Cardinality(ApprovedCalls(t))
      BY <1>7, <2>2 DEF Budget, AttemptLeft
    <2>4. v # w
      BY <1>3, <1>7, <2>2, LeavesWait DEF Executes
    <2>5. tasks[t].status = "running" /\ ~Executes(w, t)
      BY <2>2, <2>4 DEF SingleExecutor
    <2>6. tasks'[t] = tasks[t]
      BY <1>3, <2>5, RunningStays
    <2>7. QED
      BY <2>3, <2>6
  <1>8. Budget'
    BY <1>1, <1>6, <1>7 DEF Budget, AttemptLeft
  <1>9. QED
    BY <1>5, <1>8

\* The agent asks for an approval: the one open call of its task.
LEMMA PauseRequest ==
  ASSUME PauseInv, NEW w \in Workers, StepOf(w), worker[w].pc = "agent", worker'[w].pc = "wait",
         NEW u \in Tasks, u = worker[w].task, worker'[w].task = u, tasks' = tasks, NEW c \in CallsOf(u),
         approvals[c] # "approved", approvals' = [approvals EXCEPT ![c] = "pending"]
  PROVE  Paused' /\ Budget'
  <1> USE DEF PauseInv
  <1>1. \A v \in Workers : v # w => worker'[v] = worker[v]
    BY OthersStay
  <1>2. approvals \in [Calls -> ApprovalStatus \cup {"absent"}] /\ c \in Calls
    BY DEF TypeOK, StoreType, CallsOf
  <1>3. Executes(w, u) /\ tasks[u].status = "running"
    BY DEF Executes, Executing, SingleExecutor
  <1>4. OpenCalls(u) = {}
    BY <1>3 DEF Paused
  <1>5. OpenCalls(u)' = {c}
    BY <1>2, <1>4 DEF OpenCalls, CallsOf
  <1>6. \A t \in Tasks : t # u => OpenCalls(t)' = OpenCalls(t)
    BY <1>2 DEF OpenCalls, CallsOf
  <1>7. \A t \in Tasks : ApprovedCalls(t)' = ApprovedCalls(t)
    BY <1>2 DEF ApprovedCalls, CallsOf
  <1>8. \A t \in Tasks : t # u => ~Executes(w, t)' /\ ~Executes(w, t)
    BY DEF Executes
  <1>9. \A t \in Tasks, v \in Workers : t # u => (Executes(v, t)' <=> Executes(v, t))
    BY <1>1, <1>8 DEF Executes
  <1>10. \A v \in Workers : Executes(v, u)' => v = w
    BY <1>1, <1>3 DEF Executes, SingleExecutor
  <1>11. Paused'
    BY <1>1, <1>3, <1>5, <1>6, <1>8, <1>9, <1>10 DEF Paused
  <1>12. \A t \in Tasks : AttemptLeft(t)'
    BY <1>1, <1>5, <1>6, <1>7, <1>8, <1>9 DEF Budget, AttemptLeft
  <1>13. QED
    BY <1>7, <1>11, <1>12 DEF Budget

\* The reviewer decides the one open call of a task.
LEMMA PauseDecide ==
  ASSUME PauseInv, NEW c \in Calls, Decide(c)
  PROVE  Paused' /\ Budget'
  <1> USE DEF PauseInv
  <1> DEFINE u == TaskOf[c]
  <1>1. PICK v \in Verdicts : DecideApproval(c, v)
    BY DEF Decide
  <1>2. approvals \in [Calls -> ApprovalStatus \cup {"absent"}] /\ u \in Tasks
    BY StoreAssumption DEF TypeOK, StoreType
  <1>3. /\ approvals[c] = "pending" /\ approvals' = [approvals EXCEPT ![c] = v]
        /\ v \in {"approved", "rejected"} /\ worker' = worker
        /\ tasks' = [tasks EXCEPT ![u] = DecidedTask(u, v)]
    BY <1>1, OrchestratorAssumption DEF DecideApproval, Decide
  <1>4. tasks \in [Tasks -> TaskRow] /\ MaxAttempts \in Nat
    BY StoreAssumption DEF TypeOK, StoreType
  <1>5. c \in CallsOf(u)
    BY DEF CallsOf
  <1> HIDE DEF u
  <1>6. OpenCalls(u) = {c}
    <2>1. c \in OpenCalls(u)
      BY <1>3, <1>5 DEF OpenCalls
    <2>2. QED
      BY <1>2, <2>1 DEF Paused
  <1>7. \A t \in Tasks : t # u => /\ tasks'[t] = tasks[t] /\ OpenCalls(t)' = OpenCalls(t)
                                  /\ ApprovedCalls(t)' = ApprovedCalls(t)
    BY <1>2, <1>3, <1>4 DEF OpenCalls, ApprovedCalls, CallsOf, u
  <1>8. \A t \in Tasks, w \in Workers : Executes(w, t)' <=> Executes(w, t)
    BY <1>3 DEF Executes
  <1>9. tasks'[u].attempts = tasks[u].attempts
    BY <1>2, <1>3, <1>4 DEF DecidedTask, TaskRow
  <1>10. \/ tasks'[u].status = tasks[u].status
         \/ tasks'[u].status = IF v = "approved" THEN "pending" ELSE "failed"
    BY <1>2, <1>3, <1>4 DEF DecidedTask, TaskRow
  <1>11. CASE v = "approved"
    <2>1. OpenCalls(u)' = {}
      BY <1>2, <1>3, <1>6, <1>11 DEF OpenCalls, CallsOf
    <2>2. ApprovedCalls(u)' = ApprovedCalls(u) \cup {c} /\ c \notin ApprovedCalls(u)
      BY <1>2, <1>3, <1>5, <1>11 DEF ApprovedCalls, CallsOf
    <2>3. IsFiniteSet(ApprovedCalls(u))
      BY <1>2 DEF Budget
    <2>4. /\ IsFiniteSet(ApprovedCalls(u)')
          /\ Cardinality(ApprovedCalls(u)') = Cardinality(ApprovedCalls(u)) + 1
          /\ Cardinality(ApprovedCalls(u)) \in Nat
      BY <2>2, <2>3, FS_AddElement, FS_CardinalityType
    <2>5. tasks[u].attempts <= MaxAttempts + Cardinality(ApprovedCalls(u))
      BY <1>2 DEF Budget
    <2>6. tasks'[u].attempts < MaxAttempts + Cardinality(ApprovedCalls(u)')
      <3>1. tasks[u].attempts \in Nat
        BY <1>2, <1>4 DEF TaskRow
      <3>2. QED
        BY <1>4, <1>9, <2>4, <2>5, <3>1
    <2>7. tasks'[u].attempts <= MaxAttempts + Cardinality(ApprovedCalls(u)')
      <3>1. tasks[u].attempts \in Nat
        BY <1>2, <1>4 DEF TaskRow
      <3>2. QED
        BY <1>4, <1>9, <2>4, <2>5, <3>1
    <2>8. Paused'
      BY <1>3, <1>7, <1>8, <2>1 DEF Paused
    <2>9. Budget'
      BY <1>3, <1>7, <1>8, <2>4, <2>6, <2>7 DEF Budget, AttemptLeft
    <2>10. QED
      BY <2>8, <2>9
  <1>12. CASE v = "rejected"
    <2>1. OpenCalls(u)' = {c}
      BY <1>2, <1>3, <1>6, <1>12 DEF OpenCalls, CallsOf
    <2>2. ApprovedCalls(u)' = ApprovedCalls(u)
      BY <1>2, <1>3, <1>12 DEF ApprovedCalls, CallsOf
    <2>3. tasks'[u].status \in {"running", "waiting_approval", "failed"}
      BY <1>2, <1>6, <1>10, <1>12 DEF Paused
    <2>4. Paused'
      BY <1>2, <1>3, <1>6, <1>7, <1>8, <2>1, <2>3 DEF Paused
    <2>5. Budget'
      BY <1>3, <1>7, <1>8, <1>9, <2>1, <2>2 DEF Budget, AttemptLeft
    <2>6. QED
      BY <2>4, <2>5
  <1>13. QED
    BY <1>3, <1>11, <1>12

LEMMA PauseInit == Init => PauseInv
  <1> SUFFICES ASSUME Init PROVE PauseInv
    OBVIOUS
  <1>1. TypeOK /\ SingleExecutor
    BY CoreInit
  <1>2. \A t \in Tasks : OpenCalls(t) = {} /\ ApprovedCalls(t) = {} /\ tasks[t].attempts = 0
    BY DEF Init, StoreInit, OpenCalls, ApprovedCalls, CallsOf
  <1>3. IsFiniteSet({}) /\ Cardinality({}) = 0 /\ MaxAttempts \in Nat \ {0}
    BY FS_EmptySet, StoreAssumption
  <1>4. Paused
    BY <1>2 DEF Paused
  <1>5. Budget
    <2> SUFFICES ASSUME NEW t \in Tasks
                 PROVE  /\ IsFiniteSet(ApprovedCalls(t))
                        /\ tasks[t].attempts < MaxAttempts + Cardinality(ApprovedCalls(t))
      BY <1>2, <1>3 DEF Budget, AttemptLeft
    <2>1. QED
      BY <1>2, <1>3
  <1>6. QED
    BY <1>1, <1>4, <1>5 DEF PauseInv

LEMMA PauseStep == PauseInv /\ [Next]_vars => PauseInv'
  <1> SUFFICES ASSUME PauseInv, [Next]_vars PROVE PauseInv'
    OBVIOUS
  <1>1. TypeOK /\ SingleExecutor /\ (TypeOK /\ SingleExecutor)'
    BY CoreStep DEF PauseInv
  <1>2. ASSUME NEW w \in Workers, StepOf(w) PROVE Paused' /\ Budget'
    BY <1>1, <1>2, CallStep, PauseQuiet, PauseRequest
  <1>3. ASSUME NEW c \in Calls, Decide(c) PROVE Paused' /\ Budget'
    BY <1>3, PauseDecide
  <1>4. CASE UNCHANGED vars
    <2>1. tasks' = tasks /\ worker' = worker /\ approvals' = approvals
      BY <1>4 DEF vars
    <2>2. \A t \in Tasks : OpenCalls(t)' = OpenCalls(t) /\ ApprovedCalls(t)' = ApprovedCalls(t)
      BY <2>1, CallsKept
    <2>3. \A t \in Tasks, w \in Workers : Executes(w, t)' <=> Executes(w, t)
      BY <2>1 DEF Executes
    <2>4. Paused'
      BY <2>1, <2>2, <2>3 DEF PauseInv, Paused
    <2>5. \A t \in Tasks : AttemptLeft(t) => AttemptLeft(t)'
      BY <2>1, <2>2, <2>3 DEF AttemptLeft
    <2>6. Budget'
      BY <2>1, <2>2, <2>5 DEF PauseInv, Budget
    <2>7. QED
      BY <1>1, <2>4, <2>6 DEF PauseInv
  <1>5. QED
    BY <1>1, <1>2, <1>3, <1>4 DEF Next, StepOf, PauseInv

\* An attempt is paid for by max_attempts or by an approval.
THEOREM AttemptsAreBounded == Spec => []AttemptsBounded
  <1>1. PauseInv => AttemptsBounded
    BY DEF PauseInv, Budget, ApprovedCalls, AttemptsBounded
  <1>2. QED
    BY <1>1, PauseInit, PauseStep, PTL DEF Spec

\* No waiting task goes back to work past an undecided or rejected call.
THEOREM WakingIsApproved == Spec => WakesOnlyApproved
  <1>1. PauseInv' =>
          \A t \in Tasks : tasks[t].status = "waiting_approval" /\ tasks'[t].status = "pending" =>
            \A c \in CallsOf(t) : approvals'[c] \notin {"pending", "rejected"}
    BY DEF PauseInv, Paused, OpenCalls, CallsOf
  <1>2. QED
    BY <1>1, PauseInit, PauseStep, PTL DEF Spec, WakesOnlyApproved

-----------------------------------------------------------------------------
(* Stranded tasks *)

\* A task that is running before and after the step of a process that lives on,
\* and was executed before it, is executed after it.
LEMMA StaysExecuted ==
  ASSUME TypeOK, SingleExecutor, NEW w \in Workers, StepOf(w), ~Abort(w),
         NEW t \in Tasks, Executes(w, t), tasks'[t].status = "running"
  PROVE  Executes(w, t)'
  <1>1. worker \in [Workers -> Worker] /\ worker[w] \in Worker /\ tasks \in [Tasks -> TaskRow]
    BY DEF TypeOK, WorkerType, StoreType
  <1>2. worker[w].pc \in Executing /\ worker[w].task = t
    BY DEF Executes
  <1>3. CASE AgentCalls(w)
    BY <1>1, <1>2, <1>3 DEF AgentCalls, Goto, Raise, Executes, Executing, Worker
  <1>4. CASE AgentReturns(w)
    BY <1>1, <1>2, <1>4 DEF AgentReturns, AfterStoring, Executes, Executing, Worker
  <1>5. CASE (\E r : Raise(w, r)) \/ StoreArtifact(w)
    BY <1>1, <1>2, <1>5, StoringStep DEF Raise, Executes, Executing, Worker
  <1>6. CASE FinishTask(worker[w].task, worker[w].output)
    BY <1>1, <1>2, <1>6 DEF FinishTask, TaskRow
  <1>7. CASE WaitForApproval(worker[w].task)
    BY <1>1, <1>2, <1>7 DEF WaitForApproval, TaskRow
  <1>8. CASE FailTask(worker[w].task, worker[w].retryable)
    BY <1>1, <1>2, <1>8 DEF FailTask, FailedStatus, TaskRow
  <1>9. QED
    BY <1>2, <1>3, <1>4, <1>5, <1>6, <1>7, <1>8
       DEF StepOf, Proceed, Executing, Run, MarkRunning, QueryReady, TryStart, EndOfScan,
           AgentRaises, Finish, Wait, Fail, Settle, Publish

\* A step strands no task but the one whose process it ends.
LEMMA StrandedStep ==
  ASSUME TypeOK, SingleExecutor, NEW w \in Workers, StepOf(w), NEW t \in Stranded'
  PROVE  t \in Stranded \/ (Abort(w) /\ worker[w].task = t)
  <1>1. t \in Tasks /\ tasks'[t].status = "running" /\ \A v \in Workers : ~Executes(v, t)'
    BY DEF Stranded
  <1>2. \A v \in Workers : v # w => ~Executes(v, t)
    BY <1>1, OthersStay DEF Executes
  <1>3. CASE Executes(w, t)
    BY <1>1, <1>3, StaysExecuted DEF Executes
  <1>4. CASE ~Executes(w, t)
    <2>1. tasks'[t] = tasks[t]
      <3>1. CASE worker'[w].pc = "agent" /\ worker'[w].task = t
        BY <1>1, <3>1 DEF Executes, Executing
      <3>2. CASE ~(worker'[w].pc = "agent" /\ worker'[w].task = t)
        BY <1>1, <1>4, <3>2, RowStep
      <3>3. QED
        BY <3>1, <3>2
    <2>2. tasks[t].status = "running"
      BY <1>1, <2>1
    <2>3. \A v \in Workers : ~Executes(v, t)
      BY <1>2, <1>4
    <2>4. QED
      BY <1>1, <2>2, <2>3 DEF Stranded, Executes
  <1>5. QED
    BY <1>3, <1>4

StrandedInv == TypeOK /\ SingleExecutor /\ IsFiniteSet(Stranded) /\ StrandedByAbort

LEMMA StrandedInit == Init => StrandedInv
  <1> SUFFICES ASSUME Init PROVE StrandedInv
    OBVIOUS
  <1>1. TypeOK /\ SingleExecutor
    BY CoreInit
  <1>2. Stranded = {} /\ aborts = 0
    BY DEF Init, StoreInit, Stranded
  <1>3. QED
    BY <1>1, <1>2, FS_EmptySet DEF StrandedInv, StrandedByAbort

LEMMA StrandedNext == StrandedInv /\ [Next]_vars => StrandedInv'
  <1> SUFFICES ASSUME StrandedInv, [Next]_vars PROVE StrandedInv'
    OBVIOUS
  <1>1. TypeOK /\ SingleExecutor /\ (TypeOK /\ SingleExecutor)'
    BY CoreStep DEF StrandedInv
  <1>2. /\ IsFiniteSet(Stranded) /\ Cardinality(Stranded) \in Nat
        /\ Cardinality(Stranded) <= aborts
    BY FS_CardinalityType DEF StrandedInv, StrandedByAbort
  <1>3. aborts \in Nat /\ aborts' \in Nat
    BY <1>1, OrchestratorAssumption DEF TypeOK
  <1>4. ASSUME Stranded' \subseteq Stranded, aborts' = aborts
        PROVE  StrandedInv'
    <2>1. IsFiniteSet(Stranded') /\ Cardinality(Stranded') <= Cardinality(Stranded)
      BY <1>2, <1>4, FS_Subset
    <2>2. Cardinality(Stranded') \in Nat
      BY <2>1, FS_CardinalityType
    <2>3. QED
      BY <1>1, <1>2, <1>3, <1>4, <2>1, <2>2 DEF StrandedInv, StrandedByAbort
  <1>5. ASSUME NEW w \in Workers, StepOf(w) PROVE StrandedInv'
    <2>1. CASE Abort(w)
      <3> DEFINE more == Stranded \cup {worker[w].task}
      <3>1. Stranded' \subseteq more
        BY <1>1, <1>5, StrandedStep
      <3>2. IsFiniteSet(more) /\ Cardinality(more) <= Cardinality(Stranded) + 1
        <4>1. /\ IsFiniteSet(more)
              /\ \/ Cardinality(more) = Cardinality(Stranded)
                 \/ Cardinality(more) = Cardinality(Stranded) + 1
          BY <1>2, FS_AddElement
        <4>2. QED
          BY <1>2, <4>1
      <3>3. IsFiniteSet(Stranded') /\ Cardinality(Stranded') <= Cardinality(more)
        BY <3>1, <3>2, FS_Subset
      <3>4. Cardinality(Stranded') \in Nat /\ Cardinality(more) \in Nat
        BY <3>2, <3>3, FS_CardinalityType
      <3>5. aborts' = aborts + 1
        BY <2>1 DEF Abort
      <3> HIDE DEF more
      <3>6. QED
        BY <1>1, <1>2, <1>3, <3>2, <3>3, <3>4, <3>5 DEF StrandedInv, StrandedByAbort
    <2>2. CASE ~Abort(w)
      <3>1. Stranded' \subseteq Stranded
        BY <1>1, <1>5, <2>2, StrandedStep
      <3>2. aborts' = aborts
        BY <1>5, <2>2
           DEF StepOf, Proceed, Run, MarkRunning, QueryReady, TryStart, EndOfScan, AgentCalls,
               AgentReturns, AgentRaises, StoreArtifact, Finish, Wait, Fail, Settle, Publish
      <3>3. QED
        BY <1>4, <3>1, <3>2
    <2>3. QED
      BY <2>1, <2>2
  <1>6. ASSUME NEW c \in Calls, Decide(c) PROVE StrandedInv'
    <2>1. PICK v \in Verdicts : DecideApproval(c, v)
      BY <1>6 DEF Decide
    <2>2. \A t \in Tasks : tasks'[t].status = "running" => tasks[t].status = "running"
      BY <1>1, <2>1, StoreAssumption
         DEF DecideApproval, DecidedTask, TypeOK, StoreType, TaskRow
    <2>3. worker' = worker /\ aborts' = aborts
      BY <1>6 DEF Decide
    <2>4. Stranded' \subseteq Stranded
      BY <2>2, <2>3 DEF Stranded, Executes
    <2>5. QED
      BY <1>4, <2>3, <2>4
  <1>7. CASE UNCHANGED vars
    <2>1. Stranded' = Stranded /\ aborts' = aborts
      BY <1>7 DEF vars, Stranded, Executes
    <2>2. QED
      BY <1>4, <2>1
  <1>8. QED
    BY <1>5, <1>6, <1>7 DEF Next, StepOf

\* Only processes that die leave tasks stranded, one each at most.
THEOREM StrandedOnlyByAbort == Spec => []StrandedByAbort
  <1>1. StrandedInv => StrandedByAbort
    BY DEF StrandedInv
  <1>2. QED
    BY <1>1, StrandedInit, StrandedNext, PTL DEF Spec

-----------------------------------------------------------------------------
(* Artifacts *)

\* What a process owes the table of artifacts while it executes attempt n of its task,
\* rows being those the attempt added: none before its agent returns, then the first
\* artifacts of the result up to its place in the loop, at the end all of them.
Owed(rec, rows, n) ==
  /\ rec.pc = "agent" => n > 0 /\ rows = {}
  /\ rec.pc \in {"artifact", "finish"} =>
       /\ n > 0
       /\ rec.handed \in Artifacts[rec.task]
       /\ rec.stored \in 0..Len(rec.handed)
       /\ rows = RowsOf(rec.task, n, rec.handed, rec.stored)
       /\ rec.pc = "finish" => rec.stored = Len(rec.handed)

Attempt(t) == tasks[t].attempts

Due(w) ==
  Owed(worker[w], Added(worker[w].task, Attempt(worker[w].task)), Attempt(worker[w].task))

ArtifactDue == \A w \in Workers : Due(w)

ArtifactInv == TypeOK /\ SingleExecutor /\ ArtifactsAccounted /\ ArtifactDue

\* The row of the next artifact of process w.
NextRow(w) ==
  [task |-> worker[w].task, attempt |-> Attempt(worker[w].task),
   place |-> worker[w].stored + 1, id |-> worker[w].handed[worker[w].stored + 1]]

\* Process w adds it.
AddsNext(w) ==
  /\ worker[w].pc = "artifact"
  /\ NextRow(w).id # None => \A row \in artifacts : row.id # NextRow(w).id
  /\ artifacts' = artifacts \cup {NextRow(w)}
  /\ tasks' = tasks
  /\ worker' = [worker EXCEPT ![w].pc = AfterStoring(worker[w].stored + 1, worker[w].handed),
                              ![w].stored = worker[w].stored + 1]

\* The first k + 1 rows of a list are its first k rows and one more.
LEMMA RowsGrow ==
  ASSUME NEW t, NEW n, NEW list, NEW k \in Nat
  PROVE  RowsOf(t, n, list, k + 1) =
           RowsOf(t, n, list, k)
             \cup {[task |-> t, attempt |-> n, place |-> k + 1, id |-> list[k + 1]]}
  <1>1. 1..(k + 1) = (1..k) \cup {k + 1}
    OBVIOUS
  <1>2. QED
    BY <1>1 DEF RowsOf

LEMMA RowsEmpty ==
  ASSUME NEW t, NEW n, NEW list
  PROVE  RowsOf(t, n, list, 0) = {}
  <1>1. 1..0 = {}
    OBVIOUS
  <1>2. QED
    BY <1>1 DEF RowsOf

\* A process adds one artifact at a time, to the task it executes.
LEMMA ArtifactStep ==
  ASSUME NEW w \in Workers, StepOf(w)
  PROVE  artifacts' = artifacts \/ AddsNext(w)
  <1>1. CASE StoreArtifact(w)
    BY <1>1 DEF StoreArtifact, AddArtifact, ArtifactConflicts, AddsNext, NextRow, Attempt
  <1>2. QED
    BY <1>1
       DEF StepOf, Proceed, storeVars, Run, MarkRunning, QueryReady, TryStart, EndOfScan,
           AgentCalls, AgentReturns, AgentRaises, Finish, Wait, Fail, Settle, Publish, Abort

\* How a process comes to the agent, to the artifacts and to the result.
LEMMA PlaceStep ==
  ASSUME TypeOK, NEW w \in Workers, StepOf(w),
         worker'[w].pc \in {"agent", "artifact", "finish"}
  PROVE  \/ /\ worker[w].pc = "scan" /\ worker'[w].pc = "agent"
            /\ worker'[w].task \in Tasks /\ artifacts' = artifacts
            /\ tasks'[worker'[w].task].attempts = tasks[worker'[w].task].attempts + 1
         \/ /\ worker'[w].task = worker[w].task /\ tasks' = tasks /\ artifacts' = artifacts
            /\ worker[w].pc = "agent"
            /\ \/ worker'[w].pc = "agent"
               \/ /\ worker'[w].handed \in Artifacts[worker[w].task]
                  /\ worker'[w].stored = 0
                  /\ worker'[w].pc = AfterStoring(0, worker'[w].handed)
         \/ AddsNext(w)
  <1>1. /\ worker \in [Workers -> Worker] /\ worker[w] \in Worker
        /\ tasks \in [Tasks -> TaskRow]
    BY DEF TypeOK, WorkerType, StoreType
  <1>2. CASE TryStart(w)
    <2>1. PICK u \in worker[w].ready :
            \/ /\ CanStart(u) /\ StartTask(u)
               /\ worker' = [worker EXCEPT ![w].pc = "agent", ![w].ready = @ \ {u},
                                           ![w].progress = TRUE, ![w].task = u]
            \/ worker' = [worker EXCEPT ![w].ready = @ \ {u}]
      BY <1>2 DEF TryStart
    <2>2. u \in Tasks /\ worker[w].pc = "scan" /\ artifacts' = artifacts
      BY <1>1, <1>2 DEF TryStart, Worker
    <2>3. CASE /\ CanStart(u) /\ StartTask(u)
               /\ worker' = [worker EXCEPT ![w].pc = "agent", ![w].ready = @ \ {u},
                                           ![w].progress = TRUE, ![w].task = u]
      <3>1. worker'[w].pc = "agent" /\ worker'[w].task = u
        BY <1>1, <2>3 DEF Worker
      <3>2. tasks'[u].attempts = tasks[u].attempts + 1
        BY <1>1, <2>2, <2>3 DEF StartTask, TaskRow
      <3>3. QED
        BY <2>2, <3>1, <3>2
    <2>4. CASE worker' = [worker EXCEPT ![w].ready = @ \ {u}]
      BY <1>1, <2>2, <2>4 DEF Worker
    <2>5. QED
      BY <2>1, <2>3, <2>4
  <1>3. CASE AgentCalls(w)
    <2>1. worker[w].pc = "agent" /\ tasks' = tasks /\ artifacts' = artifacts
      BY <1>3 DEF AgentCalls
    <2>2. CASE worker' = [worker EXCEPT ![w].step = @ + 1]
      BY <1>1, <2>1, <2>2 DEF Worker
    <2>3. CASE Goto(w, "wait") \/ Raise(w, FALSE)
      BY <1>1, <2>3 DEF Goto, Raise, Worker
    <2>4. QED
      BY <1>3, <2>2, <2>3 DEF AgentCalls
  <1>4. CASE AgentReturns(w)
    <2>1. PICK output \in Outputs, list \in Artifacts[worker[w].task] :
            worker' = [worker EXCEPT ![w].pc = AfterStoring(0, list), ![w].output = output,
                                     ![w].handed = list, ![w].stored = 0]
      BY <1>4 DEF AgentReturns
    <2>2. /\ worker'[w].pc = AfterStoring(0, list) /\ worker'[w].handed = list
          /\ worker'[w].stored = 0 /\ worker'[w].task = worker[w].task
      BY <1>1, <2>1 DEF Worker
    <2>3. QED
      BY <1>4, <2>2 DEF AgentReturns, storeVars
  <1>5. CASE StoreArtifact(w)
    <2>1. CASE Raise(w, TRUE)
      BY <1>1, <2>1 DEF Raise, Worker
    <2>2. CASE ~Raise(w, TRUE)
      BY <1>5, <2>2 DEF StoreArtifact, AddArtifact, ArtifactConflicts, AddsNext, NextRow, Attempt
    <2>3. QED
      BY <2>1, <2>2
  <1>6. CASE (\E r : Raise(w, r)) \/ NextTask(w)
    BY <1>1, <1>6 DEF Raise, NextTask, Worker
  <1>7. CASE \E pc \in {"mark", "query", "scan", "settle"} : Goto(w, pc)
    BY <1>1, <1>7 DEF Goto, Worker
  <1>8. CASE QueryReady(w)
    BY <1>1, <1>8 DEF QueryReady, Worker
  <1>9. CASE Settle(w)
    BY <1>1, <1>9 DEF Settle, Worker
  <1>10. CASE worker' = [worker EXCEPT ![w] = Idle]
    BY <1>1, <1>10 DEF Idle
  <1>11. QED
    BY <1>2, <1>3, <1>4, <1>5, <1>6, <1>7, <1>8, <1>9, <1>10
       DEF StepOf, Proceed, Run, MarkRunning, EndOfScan, AgentRaises, Finish, Wait, Fail,
           Publish, Abort

\* The rows of other attempts stay when a process adds one.
LEMMA AddedStep ==
  ASSUME NEW w \in Workers, artifacts' = artifacts \cup {NextRow(w)}, NEW t, NEW n
  PROVE  Added(t, n)' = IF t = worker[w].task /\ n = Attempt(worker[w].task)
                        THEN Added(t, n) \cup {NextRow(w)} ELSE Added(t, n)
  <1> DEFINE row == NextRow(w)
  <1>1. row.task = worker[w].task /\ row.attempt = Attempt(worker[w].task)
    BY DEF NextRow
  <1> HIDE DEF row
  <1>2. artifacts' = artifacts \cup {row}
    BY DEF row
  <1>3. Added(t, n)' = {r \in artifacts' : r.task = t /\ r.attempt = n}
    BY DEF Added
  <1>4. QED
    BY <1>1, <1>2, <1>3 DEF Added, row

LEMMA AddedSame ==
  ASSUME artifacts' = artifacts, NEW t, NEW n
  PROVE  Added(t, n)' = Added(t, n)
  BY DEF Added

\* Only the step of its own process changes the count of attempts of a task that is
\* executed.
LEMMA AttemptStays ==
  ASSUME TypeOK, SingleExecutor, NEW w \in Workers, StepOf(w),
         NEW v \in Workers, NEW t \in Tasks, Executes(v, t)
  PROVE  tasks'[t].attempts = tasks[t].attempts
  <1>1. tasks[t].status = "running"
    BY DEF SingleExecutor
  <1>2. ~Resumable(t) /\ ~CanStart(t)
    BY <1>1 DEF Resumable, CanStart
  <1>3. QED
    BY <1>2, RowStep

\* What a process owes after a step, given what its task's attempt has added by then.
LEMMA DueAs ==
  ASSUME NEW w \in Workers, NEW t, NEW n, NEW rows, worker'[w].task = t, n = Attempt(t)',
         Added(t, n)' = rows, Owed(worker'[w], rows, n)
  PROVE  Due(w)'
  BY DEF Due, Owed, Attempt, Added

\* Process w adds its next artifact: the accounts of every attempt, its own included.
LEMMA AddingKeeps ==
  ASSUME ArtifactInv, TypeOK', NEW w \in Workers, StepOf(w), AddsNext(w)
  PROVE  ArtifactsAccounted' /\ ArtifactDue'
  <1>1. PICK t, n, list, k :
          /\ t = worker[w].task /\ n = Attempt(t)
          /\ list = worker[w].handed /\ k = worker[w].stored
    OBVIOUS
  <1>2. t \in Tasks /\ Executes(w, t) /\ tasks[t].status = "running"
    <2>1. worker[w].pc \in Executing
      BY DEF AddsNext, Executing
    <2>2. worker[w].task \in Tasks
      BY <2>1, AtWork DEF ArtifactInv
    <2>3. QED
      BY <1>1, <2>1, <2>2 DEF Executes, ArtifactInv, SingleExecutor
  <1>3. n \in Nat /\ k \in Nat /\ Len(list) \in Nat
    <2>1. worker[w] \in Worker /\ tasks[t] \in TaskRow
      BY <1>2 DEF ArtifactInv, TypeOK, StoreType, WorkerType
    <2>2. QED
      BY <1>1, <2>1 DEF TaskRow, Worker, Attempt
  <1>4. /\ n > 0 /\ list \in Artifacts[t] /\ k < Len(list)
        /\ Added(t, n) = RowsOf(t, n, list, k)
    <2>1. Owed(worker[w], Added(t, n), n)
      BY <1>1 DEF ArtifactInv, ArtifactDue, Due
    <2>2. worker[w].pc = "artifact" /\ k < Len(list)
      BY <1>1 DEF AddsNext, ArtifactInv, TypeOK, WorkerType
    <2>3. QED
      BY <1>1, <2>1, <2>2 DEF Owed
  <1>5. PICK new : /\ new = [task |-> t, attempt |-> n, place |-> k + 1, id |-> list[k + 1]]
                   /\ new = NextRow(w)
    BY <1>1 DEF NextRow
  <1>6. /\ artifacts' = artifacts \cup {new}
        /\ new.id # None => \A row \in artifacts : row.id # new.id
    BY <1>5 DEF AddsNext
  <1>7. Added(t, n)' = RowsOf(t, n, list, k + 1)
    <2>1. Added(t, n)' = Added(t, n) \cup {new}
      BY <1>1, <1>5, <1>6, AddedStep
    <2>2. RowsOf(t, n, list, k + 1) = RowsOf(t, n, list, k) \cup {new}
      BY <1>3, <1>5, RowsGrow
    <2>3. QED
      BY <1>4, <2>1, <2>2
  <1>8. /\ tasks' = tasks /\ Succeeded' = Succeeded /\ t \notin Succeeded
        /\ \A u \in Tasks : Attempt(u)' = Attempt(u)
    BY <1>2 DEF AddsNext, Succeeded, Attempt
  <1>9. ASSUME NEW u, NEW m, u # t \/ m # n PROVE Added(u, m)' = Added(u, m)
    BY <1>1, <1>5, <1>6, <1>9, AddedStep
  <1>10. ASSUME NEW u \in Tasks, NEW m \in 1..Attempt(u) PROVE Accounted(u, m)'
    <2>1. CASE u = t /\ m = n
      <3>1. list \in Artifacts[t] /\ k + 1 \in 0..Len(list)
        BY <1>3, <1>4
      <3>2. t \notin Succeeded'
        BY <1>8
      <3>3. Accounted(t, n)'
        BY <1>7, <3>1, <3>2 DEF Accounted
      <3>4. QED
        BY <2>1, <3>3
    <2>2. CASE u # t \/ m # n
      <3>1. Accounted(u, m)
        BY <1>10 DEF ArtifactInv, ArtifactsAccounted, Attempt
      <3>2. Added(u, m)' = Added(u, m)
        BY <1>9, <2>2
      <3>3. QED
        BY <1>8, <3>1, <3>2 DEF Accounted
    <2>3. QED
      BY <2>1, <2>2
  <1>11. \A row \in artifacts' : row.attempt \in 1..tasks'[row.task].attempts
    <2>1. \A row \in artifacts : row.attempt \in 1..tasks[row.task].attempts
      BY DEF ArtifactInv, ArtifactsAccounted
    <2>2. new.task = t /\ new.attempt = n
      BY <1>5
    <2>3. n \in 1..tasks[t].attempts
      BY <1>1, <1>3, <1>4 DEF Attempt
    <2>4. QED
      BY <1>6, <1>8, <2>1, <2>2, <2>3
  <1>12. \A row, other \in artifacts' : row.id = other.id /\ row.id # None => row = other
    <2>1. \A row, other \in artifacts : row.id = other.id /\ row.id # None => row = other
      BY DEF ArtifactInv, ArtifactsAccounted
    <2>2. QED
      BY <1>6, <2>1
  <1>13. ArtifactsAccounted'
    BY <1>8, <1>10, <1>11, <1>12 DEF ArtifactsAccounted, Attempt
  <1>14. ASSUME NEW v \in Workers, v # w PROVE Due(v)'
    <2>1. worker'[v] = worker[v]
      BY <1>14, OthersStay DEF ArtifactInv
    <2>2. CASE worker[v].pc \notin {"agent", "artifact", "finish"}
      BY <2>1, <2>2 DEF Due, Owed
    <2>3. CASE worker[v].pc \in {"agent", "artifact", "finish"}
      <3>1. PICK u \in Tasks : u = worker[v].task /\ Executes(v, u)
        BY <2>3, AtWork DEF ArtifactInv, Executes, Executing
      <3>2. u # t
        BY <1>2, <1>14, <3>1 DEF ArtifactInv, SingleExecutor
      <3>3. PICK m : m = Attempt(u) /\ m = Attempt(u)'
        BY <1>8
      <3>4. Owed(worker[v], Added(u, m), m)
        BY <3>1, <3>3 DEF ArtifactInv, ArtifactDue, Due
      <3>5. Added(u, m)' = Added(u, m)
        BY <1>9, <3>2
      <3>6. QED
        BY <2>1, <3>1, <3>3, <3>4, <3>5, DueAs
    <2>4. QED
      BY <2>2, <2>3
  <1>15. Due(w)'
    <2>0. /\ worker \in [Workers -> Worker] /\ worker[w] \in Worker
          /\ worker' = [worker EXCEPT ![w].pc = AfterStoring(k + 1, list), ![w].stored = k + 1]
      BY <1>1 DEF AddsNext, ArtifactInv, TypeOK, WorkerType
    <2>1. worker'[w].task = t /\ worker'[w].handed = list /\ worker'[w].stored = k + 1
      BY <1>1, <2>0 DEF Worker
    <2>2. worker'[w].pc = AfterStoring(k + 1, list)
      BY <2>0 DEF Worker
    <2>3. n = Attempt(t)'
      BY <1>1, <1>2, <1>8
    <2>4. Owed(worker'[w], RowsOf(t, n, list, k + 1), n)
      BY <1>3, <1>4, <2>1, <2>2 DEF Owed, AfterStoring
    <2>5. QED
      BY <1>7, <2>1, <2>3, <2>4, DueAs
  <1>16. QED
    BY <1>13, <1>14, <1>15 DEF ArtifactDue

\* A step that adds no row keeps the accounts, if it hands no attempt a success that
\* does not account for itself.
LEMMA AccountsKept ==
  ASSUME ArtifactInv, artifacts' = artifacts,
         \A t \in Tasks : tasks[t].attempts \in Nat /\ tasks'[t].attempts \in Nat,
         \A t \in Tasks : tasks'[t].attempts >= tasks[t].attempts,
         \A t \in Succeeded' : tasks'[t].attempts = tasks[t].attempts,
         \A t \in Succeeded' \ Succeeded :
           \E list \in Artifacts[t] :
             Added(t, Attempt(t)) = RowsOf(t, Attempt(t), list, Len(list))
  PROVE  ArtifactsAccounted'
  <1>1. /\ \A row \in artifacts : row.attempt \in 1..tasks[row.task].attempts /\ row.task \in Tasks
        /\ \A row, other \in artifacts : row.id = other.id /\ row.id # None => row = other
    BY DEF ArtifactInv, ArtifactsAccounted, TypeOK, StoreType, ArtifactRow
  <1>2. ASSUME NEW t \in Tasks, NEW n \in 1..tasks'[t].attempts PROVE Accounted(t, n)'
    <2>1. Added(t, n)' = Added(t, n)
      BY AddedSame
    <2>2. CASE n > tasks[t].attempts
      <3>1. Added(t, n) = {}
        BY <1>1, <2>2 DEF Added
      <3>2. PICK list \in Artifacts[t] : TRUE
        BY StoreAssumption
      <3>3. RowsOf(t, n, list, 0) = {} /\ Len(list) \in Nat
        BY RowsEmpty, StoreAssumption
      <3>4. t \notin Succeeded' \/ n # tasks'[t].attempts
        BY <2>2
      <3>5. 0 \in 0..Len(list)
        BY <3>3
      <3>6. QED
        BY <2>1, <3>1, <3>3, <3>4, <3>5 DEF Accounted
    <2>3. CASE n \in 1..tasks[t].attempts
      <3>1. Accounted(t, n)
        BY <2>3 DEF ArtifactInv, ArtifactsAccounted
      <3>2. CASE t \in Succeeded' \ Succeeded /\ n = Attempt(t)
        <4>1. PICK list \in Artifacts[t] : Added(t, n) = RowsOf(t, n, list, Len(list))
          BY <3>2
        <4>2. Len(list) \in 0..Len(list)
          BY StoreAssumption
        <4>3. QED
          BY <2>1, <4>1, <4>2 DEF Accounted
      <3>3. CASE ~(t \in Succeeded' \ Succeeded /\ n = Attempt(t))
        <4>1. PICK list \in Artifacts[t] : \E k \in 0..Len(list) :
                /\ Added(t, n) = RowsOf(t, n, list, k)
                /\ t \in Succeeded /\ n = tasks[t].attempts => k = Len(list)
          BY <3>1 DEF Accounted
        <4>2. PICK k \in 0..Len(list) :
                /\ Added(t, n) = RowsOf(t, n, list, k)
                /\ t \in Succeeded /\ n = tasks[t].attempts => k = Len(list)
          BY <4>1
        <4>3. t \in Succeeded' /\ n = tasks'[t].attempts => k = Len(list)
          BY <3>3, <4>2 DEF Attempt
        <4>4. QED
          BY <2>1, <4>2, <4>3 DEF Accounted
      <3>4. QED
        BY <3>2, <3>3
    <2>4. n > tasks[t].attempts \/ n \in 1..tasks[t].attempts
      OBVIOUS
    <2>5. QED
      BY <2>2, <2>3, <2>4
  <1>3. \A row \in artifacts' : row.attempt \in 1..tasks'[row.task].attempts
    <2> SUFFICES ASSUME NEW row \in artifacts PROVE row.attempt \in 1..tasks'[row.task].attempts
      OBVIOUS
    <2>1. row.task \in Tasks /\ row.attempt \in 1..tasks[row.task].attempts
      BY <1>1
    <2>2. QED
      BY <2>1
  <1>4. QED
    BY <1>1, <1>2, <1>3 DEF ArtifactsAccounted

\* A step of a process keeps the accounts of every task.
LEMMA ArtifactNext ==
  ASSUME ArtifactInv, NEW w \in Workers, StepOf(w)
  PROVE  ArtifactsAccounted' /\ ArtifactDue'
  <1>1. [Next]_vars /\ TypeOK /\ SingleExecutor
    BY DEF StepOf, Next, ArtifactInv
  <1>2. TypeOK'
    BY <1>1, CoreStep
  <1>3. CASE AddsNext(w)
    BY <1>2, <1>3, AddingKeeps
  <1>4. CASE ~AddsNext(w)
    <2>1. artifacts' = artifacts
      BY <1>4, ArtifactStep
    <2>2. \A t \in Tasks : tasks[t].attempts \in Nat /\ tasks'[t].attempts \in Nat
      BY <1>1, <1>2 DEF TypeOK, StoreType, TaskRow
    <2>3. \A t \in Tasks : tasks'[t].attempts \in {tasks[t].attempts, tasks[t].attempts + 1}
      BY <1>1, RowStep
    <2>4. \A t \in Tasks : tasks'[t].attempts >= tasks[t].attempts
      BY <2>2, <2>3
    <2>5. ASSUME NEW t \in Succeeded' PROVE tasks'[t].attempts = tasks[t].attempts
      <3>1. t \in Tasks /\ tasks'[t].status = "succeeded"
        BY DEF Succeeded
      <3>2. QED
        BY <1>1, <3>1, RowStep
    <2>6. ASSUME NEW t \in Succeeded' \ Succeeded
          PROVE  \E list \in Artifacts[t] :
                   Added(t, Attempt(t)) = RowsOf(t, Attempt(t), list, Len(list))
      <3>1. t \in Tasks
        BY DEF Succeeded
      <3>2. PICK v \in Workers : worker[v].pc = "finish" /\ worker[v].task = t
        BY <1>1, <2>6, <3>1, SuccessStep
      <3>3. Owed(worker[v], Added(t, Attempt(t)), Attempt(t))
        BY <3>2 DEF ArtifactInv, ArtifactDue, Due
      <3>4. QED
        BY <3>2, <3>3 DEF Owed
    <2>7. ArtifactsAccounted'
      BY <2>1, <2>2, <2>4, <2>5, <2>6, AccountsKept
    <2>8. ASSUME NEW v \in Workers, v # w PROVE Due(v)'
      <3>1. worker'[v] = worker[v]
        BY <1>1, <2>8, OthersStay
      <3>2. CASE worker[v].pc \notin {"agent", "artifact", "finish"}
        BY <3>1, <3>2 DEF Due, Owed
      <3>3. CASE worker[v].pc \in {"agent", "artifact", "finish"}
        <4>1. PICK u \in Tasks : u = worker[v].task /\ Executes(v, u)
          BY <1>1, <3>3, AtWork DEF Executes, Executing
        <4>2. PICK m : m = Attempt(u) /\ m = Attempt(u)'
          BY <1>1, <4>1, AttemptStays DEF Attempt
        <4>3. Owed(worker[v], Added(u, m), m)
          BY <4>1, <4>2 DEF ArtifactInv, ArtifactDue, Due
        <4>4. Added(u, m)' = Added(u, m)
          BY <2>1, AddedSame
        <4>5. QED
          BY <3>1, <4>1, <4>2, <4>3, <4>4, DueAs
      <3>4. QED
        BY <3>2, <3>3
    <2>9. Due(w)'
      <3>1. CASE worker'[w].pc \notin {"agent", "artifact", "finish"}
        BY <3>1 DEF Due, Owed
      <3>2. CASE /\ worker[w].pc = "scan" /\ worker'[w].pc = "agent"
                 /\ worker'[w].task \in Tasks
                 /\ tasks'[worker'[w].task].attempts = tasks[worker'[w].task].attempts + 1
        <4>1. PICK u \in Tasks : u = worker'[w].task
          BY <3>2
        <4>2. PICK m : m = tasks[u].attempts + 1 /\ m = Attempt(u)'
          BY <3>2, <4>1 DEF Attempt
        <4>3. \A row \in artifacts : row.attempt \in 1..tasks[row.task].attempts
          BY DEF ArtifactInv, ArtifactsAccounted
        <4>4. Added(u, m) = {} /\ m > 0
          BY <2>2, <4>2, <4>3 DEF Added
        <4>5. Added(u, m)' = {}
          BY <2>1, <4>4, AddedSame
        <4>6. Owed(worker'[w], {}, m)
          BY <3>2, <4>4 DEF Owed
        <4>7. QED
          BY <4>1, <4>2, <4>5, <4>6, DueAs
      <3>3. CASE /\ worker'[w].task = worker[w].task /\ tasks' = tasks
                 /\ worker[w].pc = "agent"
                 /\ \/ worker'[w].pc = "agent"
                    \/ /\ worker'[w].handed \in Artifacts[worker[w].task]
                       /\ worker'[w].stored = 0
                       /\ worker'[w].pc = AfterStoring(0, worker'[w].handed)
        <4>1. PICK u, m : u = worker[w].task /\ m = Attempt(u) /\ m = Attempt(u)'
          BY <3>3 DEF Attempt
        <4>2. u \in Tasks
          BY <1>1, <3>3, <4>1, AtWork DEF Executing
        <4>3. Owed(worker[w], Added(u, m), m)
          BY <4>1 DEF ArtifactInv, ArtifactDue, Due
        <4>4. m > 0 /\ Added(u, m) = {}
          BY <3>3, <4>3 DEF Owed
        <4>5. Added(u, m)' = {}
          BY <2>1, <4>4, AddedSame
        <4>6. Owed(worker'[w], {}, m)
          <5>1. CASE worker'[w].pc = "agent"
            BY <4>4, <5>1 DEF Owed
          <5>2. CASE worker'[w].pc # "agent"
            <6>1. PICK list \in Artifacts[u] :
                    list = worker'[w].handed /\ worker'[w].pc = AfterStoring(0, list)
              BY <3>3, <4>1, <5>2
            <6>2. Len(list) \in Nat
              BY <4>2, StoreAssumption
            <6>3. RowsOf(u, m, list, 0) = {}
              BY RowsEmpty
            <6>4. worker'[w].stored = 0 /\ worker'[w].task = u
              BY <3>3, <4>1, <5>2
            <6>5. worker'[w].pc = "finish" => Len(list) = 0
              BY <6>1, <6>2 DEF AfterStoring
            <6>6. QED
              BY <4>4, <5>2, <6>1, <6>2, <6>3, <6>4, <6>5 DEF Owed
          <5>3. QED
            BY <5>1, <5>2
        <4>7. QED
          BY <3>3, <4>1, <4>5, <4>6, DueAs
      <3>4. QED
        BY <1>1, <1>4, <3>1, <3>2, <3>3, PlaceStep
    <2>10. QED
      BY <2>7, <2>8, <2>9 DEF ArtifactDue
  <1>5. QED
    BY <1>3, <1>4

LEMMA ArtifactInit == Init => ArtifactInv
  <1> SUFFICES ASSUME Init PROVE ArtifactInv
    OBVIOUS
  <1>1. TypeOK /\ SingleExecutor
    BY CoreInit
  <1>2. /\ artifacts = {} /\ \A t \in Tasks : tasks[t].attempts = 0
        /\ \A w \in Workers : worker[w].pc = "idle"
    BY DEF Init, StoreInit, Idle
  <1>3. ArtifactsAccounted
    BY <1>2 DEF ArtifactsAccounted
  <1>4. ArtifactDue
    BY <1>2 DEF ArtifactDue, Due, Owed
  <1>5. QED
    BY <1>1, <1>3, <1>4 DEF ArtifactInv

LEMMA ArtifactInvStep == ArtifactInv /\ [Next]_vars => ArtifactInv'
  <1> SUFFICES ASSUME ArtifactInv, [Next]_vars PROVE ArtifactInv'
    OBVIOUS
  <1>1. TypeOK /\ SingleExecutor /\ (TypeOK /\ SingleExecutor)'
    BY CoreStep DEF ArtifactInv
  <1>2. ASSUME NEW w \in Workers, StepOf(w) PROVE ArtifactsAccounted' /\ ArtifactDue'
    BY <1>2, ArtifactNext
  <1>3. ASSUME UNCHANGED <<artifacts, worker>>,
               \A t \in Tasks : tasks'[t].attempts = tasks[t].attempts,
               Succeeded' \subseteq Succeeded
        PROVE  ArtifactsAccounted' /\ ArtifactDue'
    <2>1. \A t \in Tasks : tasks[t].attempts \in Nat
      BY <1>1 DEF TypeOK, StoreType, TaskRow
    <2>2. \A t \in Succeeded' : t \in Tasks
      BY DEF Succeeded
    <2>3. ArtifactsAccounted'
      <3>1. \A t \in Tasks : /\ tasks[t].attempts \in Nat /\ tasks'[t].attempts \in Nat
                             /\ tasks'[t].attempts >= tasks[t].attempts
        BY <1>3, <2>1
      <3>2. \A t \in Succeeded' : tasks'[t].attempts = tasks[t].attempts
        BY <1>3, <2>2
      <3>3. Succeeded' \ Succeeded = {}
        BY <1>3
      <3>4. QED
        BY <1>3, <3>1, <3>2, <3>3, AccountsKept
    <2>4. ASSUME NEW w \in Workers PROVE Due(w)'
      <3>1. CASE worker[w].pc \notin {"agent", "artifact", "finish"}
        BY <1>3, <3>1 DEF Due, Owed
      <3>2. CASE worker[w].pc \in {"agent", "artifact", "finish"}
        <4>1. PICK u \in Tasks : u = worker[w].task
          BY <1>1, <3>2, AtWork DEF Executing
        <4>2. PICK m : m = Attempt(u) /\ m = Attempt(u)'
          BY <1>3, <4>1 DEF Attempt
        <4>3. Owed(worker[w], Added(u, m), m)
          BY <4>1, <4>2 DEF ArtifactInv, ArtifactDue, Due
        <4>4. Added(u, m)' = Added(u, m) /\ worker' = worker
          BY <1>3, AddedSame
        <4>5. QED
          BY <4>1, <4>2, <4>3, <4>4, DueAs
      <3>3. QED
        BY <3>1, <3>2
    <2>5. QED
      BY <2>3, <2>4 DEF ArtifactDue
  <1>4. ASSUME NEW c \in Calls, Decide(c) PROVE ArtifactsAccounted' /\ ArtifactDue'
    <2>1. PICK v \in Verdicts : DecideApproval(c, v)
      BY <1>4 DEF Decide
    <2>2. \A t \in Tasks : /\ tasks'[t].attempts = tasks[t].attempts
                           /\ tasks'[t].status = "succeeded" => tasks[t].status = "succeeded"
      BY <1>1, <2>1, StoreAssumption
         DEF DecideApproval, DecidedTask, TypeOK, StoreType, TaskRow
    <2>3. Succeeded' \subseteq Succeeded
      BY <2>2 DEF Succeeded
    <2>4. QED
      BY <1>3, <1>4, <2>2, <2>3 DEF Decide
  <1>5. ASSUME UNCHANGED vars PROVE ArtifactsAccounted' /\ ArtifactDue'
    <2>1. UNCHANGED <<tasks, artifacts, worker>> /\ Succeeded' = Succeeded
      BY <1>5 DEF vars, Succeeded
    <2>2. QED
      BY <1>3, <2>1
  <1>6. QED
    BY <1>1, <1>2, <1>4, <1>5 DEF Next, StepOf, ArtifactInv

\* What attempts leave in the table of artifacts: failed ones a prefix of what their
\* agents handed over, successful ones all of it, and every id of an agent's own once
\* in the whole table.
THEOREM ArtifactsAreAccounted == Spec => []ArtifactsAccounted
  <1>1. ArtifactInv => ArtifactsAccounted
    BY DEF ArtifactInv
  <1>2. QED
    BY <1>1, ArtifactInit, ArtifactInvStep, PTL DEF Spec
=============================================================================
