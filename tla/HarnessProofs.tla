---------------------------- MODULE HarnessProofs ----------------------------
(***************************************************************************)
(* Proofs about Harness, for any number of processes, tasks, tools, model  *)
(* turns, steps, claims and aborts.  That one process at most executes a   *)
(* task is shown again for the steps of the loop; everything else follows  *)
(* from it: whatever a process has read of the saved turns and of the      *)
(* ledger rows of its task stays true until it uses it.                    *)
(***************************************************************************)
EXTENDS Harness, TLAPS

-----------------------------------------------------------------------------
(* The processes and their tasks *)

Core == Orch!TypeOK /\ Orch!SingleExecutor

\* Process w comes to stand at rec, and disturbs the task of no other process.
Moves(w, rec) ==
  /\ worker' = [worker EXCEPT ![w] = rec]
  /\ rec.pc \in Orch!Executing <=> rec.task # None
  /\ rec.pc \in {"artifact", "finish"} => rec.output # None
  /\ rec.pc # "artifact"
  /\ rec.pc \in Orch!Executing =>
       /\ tasks'[rec.task].status = "running"
       /\ rec.task = worker[w].task \/ tasks[rec.task].status = "pending"
  /\ \A t \in Tasks :
       tasks[t].status = "running" /\ ~Orch!Executes(w, t) => tasks'[t] = tasks[t]

LEMMA Records ==
  ASSUME Core
  PROVE  /\ worker \in [Workers -> Orch!Worker]
         /\ \A w \in Workers : worker[w] \in Orch!Worker
         /\ tasks \in [Tasks -> Orch!TaskRow]
         /\ approvals \in [Calls -> Orch!ApprovalStatus \cup {"absent"}]
         /\ aborts \in 0..MaxAborts
  BY DEF Core, Orch!TypeOK, Orch!StoreType, Orch!WorkerType

\* A process has a task while it executes one, and then the row is running.
LEMMA Holds ==
  ASSUME Core, NEW w \in Workers
  PROVE  /\ worker[w].pc \in Orch!Executing <=> worker[w].task # None
         /\ worker[w].pc \in Orch!Executing =>
              /\ worker[w].task \in Tasks
              /\ tasks[worker[w].task].status = "running"
              /\ Orch!Executes(w, worker[w].task)
  BY DEF Core, Orch!TypeOK, Orch!WorkerType, Orch!Worker, Orch!SingleExecutor, Orch!Executes

LEMMA MovesKeepCore ==
  ASSUME Core, NEW w \in Workers, NEW rec \in Orch!Worker, Moves(w, rec),
         Orch!StoreType', aborts' \in 0..MaxAborts
  PROVE  Core'
  <1>1. worker \in [Workers -> Orch!Worker]
    BY Records
  <1>2. worker'[w] = rec /\ \A v \in Workers : v # w => worker'[v] = worker[v]
    BY <1>1 DEF Moves
  <1>3. Orch!WorkerType'
    BY <1>1, <1>2 DEF Core, Orch!TypeOK, Orch!WorkerType, Moves
  <1>4. \A v \in Workers, t \in Tasks : Orch!Executes(v, t) =>
          /\ tasks[t].status = "running"
          /\ \A u \in Workers : Orch!Executes(u, t) => u = v
    BY DEF Core, Orch!SingleExecutor
  <1>5. ASSUME NEW v \in Workers, NEW t \in Tasks, v # w,
               worker[v].pc \in Orch!Executing, worker[v].task = t
        PROVE  tasks'[t].status = "running" /\ ~(rec.pc \in Orch!Executing /\ rec.task = t)
    <2>1. Orch!Executes(v, t)
      BY <1>5 DEF Orch!Executes
    <2>2. tasks[t].status = "running" /\ ~Orch!Executes(w, t)
      BY <1>4, <1>5, <2>1
    <2>3. tasks'[t].status = "running"
      BY <2>2 DEF Moves
    <2>4. ASSUME rec.pc \in Orch!Executing, rec.task = t PROVE FALSE
      <3>1. worker[w].task = t
        BY <2>2, <2>4 DEF Moves
      <3>2. t # None
        BY StoreAssumption
      <3>3. QED
        BY <2>2, <3>1, <3>2, Holds DEF Orch!Executes
    <2>5. QED
      BY <2>3, <2>4
  <1>6. Orch!SingleExecutor'
    <2> SUFFICES ASSUME NEW v \in Workers, NEW t \in Tasks,
                        worker'[v].pc \in Orch!Executing, worker'[v].task = t
                 PROVE  /\ tasks'[t].status = "running"
                        /\ \A u \in Workers :
                             worker'[u].pc \in Orch!Executing /\ worker'[u].task = t => u = v
      BY DEF Orch!SingleExecutor, Orch!Executes
    <2>1. tasks'[t].status = "running"
      BY <1>2, <1>5 DEF Moves
    <2>2. ASSUME NEW u \in Workers, worker'[u].pc \in Orch!Executing, worker'[u].task = t
          PROVE  u = v
      <3>1. CASE u # w /\ v # w
        BY <1>2, <1>4, <2>2, <3>1 DEF Orch!Executes
      <3>2. CASE u = w \/ v = w
        BY <1>2, <1>5, <2>2, <3>2
      <3>3. QED
        BY <3>1, <3>2
    <2>3. QED
      BY <2>1, <2>2
  <1>7. QED
    BY <1>3, <1>6 DEF Core, Orch!TypeOK

\* A new status that is not success fits the type of a row that has not succeeded.
LEMMA StatusFits ==
  ASSUME Core, NEW t \in Tasks, tasks[t].status # "succeeded",
         NEW s \in {"pending", "running", "waiting_approval", "failed"},
         tasks' = [tasks EXCEPT ![t].status = s], UNCHANGED <<workflow, approvals, artifacts>>
  PROVE  Orch!StoreType'
  BY DEF Core, Orch!TypeOK, Orch!StoreType, Orch!TaskRow, Orch!TaskStatus

\* What a step around the loop hands over to the loop, and takes from it.
Handover(w) ==
  /\ \A v \in Workers : v # w => worker'[v] = worker[v]
  /\ worker'[w].pc # "finish"
  /\ worker'[w].pc = "agent" => worker[w].pc = "scan"
  /\ \A t \in Tasks : tasks'[t].status = "succeeded" =>
       \/ tasks[t].status = "succeeded" /\ tasks'[t] = tasks[t]
       \/ /\ worker[w].pc = "finish" /\ worker[w].task = t
          /\ tasks'[t].output = worker[w].output

\* A process that executes nothing, before and after its step.
LEMMA IdleMoves ==
  ASSUME Core, NEW w \in Workers, worker[w].pc \notin Orch!Executing,
         NEW rec \in Orch!Worker, worker' = [worker EXCEPT ![w] = rec],
         rec.pc \notin Orch!Executing, rec.task = None,
         Orch!StoreType', aborts' = aborts,
         \A t \in Tasks : tasks[t].status = "running" => tasks'[t] = tasks[t],
         \A t \in Tasks : tasks'[t].status = "succeeded" => tasks'[t] = tasks[t]
  PROVE  Core' /\ Handover(w)
  <1>1. Moves(w, rec)
    BY DEF Moves, Orch!Executing
  <1>2. Core'
    BY <1>1, Records, MovesKeepCore
  <1>3. worker'[w] = rec /\ \A v \in Workers : v # w => worker'[v] = worker[v]
    BY Records
  <1>4. rec.pc \notin {"finish", "agent"}
    BY DEF Orch!Executing
  <1>5. QED
    BY <1>2, <1>3, <1>4 DEF Handover

\* The record of a process whose task is done with.
LEMMA ClearedRecord ==
  ASSUME Core, NEW w \in Workers
  PROVE  LET rec == [worker[w] EXCEPT !.pc = "scan", !.task = None, !.step = 0,
                                      !.output = None, !.handed = <<>>, !.stored = 0,
                                      !.retryable = FALSE]
         IN  rec \in Orch!Worker /\ rec.pc = "scan" /\ rec.task = None
  <1>1. worker[w] \in Orch!Worker
    BY Records
  <1>2. <<>> \in Seq(ArtifactIds \cup {None}) /\ 0 \in Nat
    OBVIOUS
  <1>3. QED
    BY <1>1, <1>2 DEF Orch!Worker

\* A process that is done with its task, for a status other than success.
LEMMA LeaveMoves ==
  ASSUME Core, NEW w \in Workers, worker[w].pc \in Orch!Executing, Orch!NextTask(w),
         NEW s \in {"pending", "running", "waiting_approval", "failed"},
         tasks' = [tasks EXCEPT ![worker[w].task].status = s],
         UNCHANGED <<workflow, approvals, artifacts, aborts>>
  PROVE  Core' /\ Handover(w)
  <1> DEFINE rec == [worker[w] EXCEPT !.pc = "scan", !.task = None, !.step = 0,
                                      !.output = None, !.handed = <<>>, !.stored = 0,
                                      !.retryable = FALSE]
  <1>1. rec \in Orch!Worker /\ rec.pc = "scan" /\ rec.task = None
    BY ClearedRecord
  <1>2. worker' = [worker EXCEPT ![w] = rec]
    BY DEF Orch!NextTask
  <1> HIDE DEF rec
  <1>3. /\ worker[w].task \in Tasks /\ tasks[worker[w].task].status = "running"
        /\ Orch!Executes(w, worker[w].task)
    BY Holds
  <1>4. Orch!StoreType'
    BY <1>3, StatusFits
  <1>5. \A t \in Tasks : t # worker[w].task => tasks'[t] = tasks[t]
    BY Records
  <1>6. Moves(w, rec)
    BY <1>1, <1>2, <1>3, <1>5 DEF Moves, Orch!Executing
  <1>7. Core'
    BY <1>1, <1>4, <1>6, Records, MovesKeepCore
  <1>8. worker'[w] = rec /\ \A v \in Workers : v # w => worker'[v] = worker[v]
    BY <1>2, Records
  <1>9. tasks'[worker[w].task].status = s
    BY <1>3, Records DEF Orch!TaskRow
  <1>10. QED
    BY <1>1, <1>5, <1>7, <1>8, <1>9 DEF Handover

\* A step of the schedule, one action at a time.
LEMMA GotoHandover ==
  ASSUME Core, NEW w \in Workers, worker[w].pc \notin Orch!Executing,
         NEW pc \in {"mark", "query", "scan", "settle"}, Orch!Goto(w, pc),
         Orch!StoreType', aborts' = aborts,
         \A t \in Tasks : tasks[t].status = "running" => tasks'[t] = tasks[t],
         \A t \in Tasks : tasks'[t].status = "succeeded" => tasks'[t] = tasks[t]
  PROVE  Core' /\ Handover(w)
  <1> DEFINE rec == [worker[w] EXCEPT !.pc = pc]
  <1>0. worker[w] \in Orch!Worker
    BY Records
  <1>1. rec \in Orch!Worker /\ rec.pc = pc /\ rec.task = worker[w].task
    BY <1>0 DEF Orch!Worker
  <1>2. worker' = [worker EXCEPT ![w] = rec] /\ rec.task = None
    BY <1>1, Holds DEF Orch!Goto
  <1> HIDE DEF rec
  <1>3. QED
    BY <1>1, <1>2, IdleMoves DEF Orch!Executing

LEMMA StoreKept ==
  ASSUME Core, UNCHANGED storeVars
  PROVE  Orch!StoreType'
  BY DEF storeVars, Core, Orch!TypeOK, Orch!StoreType

LEMMA RunHandover ==
  ASSUME Core, NEW w \in Workers, Orch!Run(w)
  PROVE  Core' /\ Handover(w)
  <1>1. worker[w].pc \notin Orch!Executing /\ Orch!Goto(w, "mark") /\ aborts' = aborts
    BY DEF Orch!Run, Orch!Executing
  <1>2. tasks' = [t \in Tasks |-> IF Orch!Resumable(t) THEN [tasks[t] EXCEPT !.status = "pending"]
                                  ELSE tasks[t]]
    BY DEF Orch!Run, Orch!ResumeApproved
  <1>3. \A t \in Tasks : Orch!Resumable(t) => tasks[t].status = "waiting_approval"
    BY DEF Orch!Resumable
  <1>4. Orch!StoreType'
    BY <1>2, <1>3 DEF Orch!Run, Core, Orch!TypeOK, Orch!StoreType, Orch!TaskRow, Orch!TaskStatus
  <1>5. \A t \in Tasks : /\ tasks[t].status = "running" => tasks'[t] = tasks[t]
                         /\ tasks'[t].status = "succeeded" => tasks'[t] = tasks[t]
    BY <1>2, <1>3, Records DEF Orch!TaskRow
  <1>6. QED
    BY <1>1, <1>4, <1>5, GotoHandover

LEMMA MarkHandover ==
  ASSUME Core, NEW w \in Workers, Orch!MarkRunning(w)
  PROVE  Core' /\ Handover(w)
  <1>1. /\ worker[w].pc \notin Orch!Executing /\ Orch!Goto(w, "query")
        /\ aborts' = aborts /\ tasks' = tasks
    BY DEF Orch!MarkRunning, Orch!Executing
  <1>2. Orch!StoreType'
    BY DEF Orch!MarkRunning, Orch!SetWorkflowStatus, Core, Orch!TypeOK, Orch!StoreType,
       Orch!WorkflowStatus
  <1>3. QED
    BY <1>1, <1>2, GotoHandover

LEMMA QueryHandover ==
  ASSUME Core, NEW w \in Workers, Orch!QueryReady(w)
  PROVE  Core' /\ Handover(w)
  <1>0. PICK pc \in {"settle", "scan"} : pc = IF Orch!ReadyTasks = {} THEN "settle" ELSE "scan"
    OBVIOUS
  <1> DEFINE rec == [worker[w] EXCEPT !.pc = pc, !.ready = Orch!ReadyTasks, !.progress = FALSE]
  <1>1. /\ worker[w].pc \notin Orch!Executing /\ worker[w].task = None
        /\ worker[w] \in Orch!Worker
    BY Holds, Records DEF Orch!QueryReady, Orch!Executing
  <1>2. Orch!ReadyTasks \in SUBSET Tasks
    BY DEF Orch!ReadyTasks
  <1>3. rec \in Orch!Worker /\ rec.pc \in {"settle", "scan"} /\ rec.task = None
    BY <1>1, <1>2 DEF Orch!Worker, Orch!Executing
  <1>4. worker' = [worker EXCEPT ![w] = rec] /\ UNCHANGED storeVars /\ aborts' = aborts
    BY <1>0 DEF Orch!QueryReady, Orch!storeVars, storeVars
  <1> HIDE DEF rec
  <1>5. tasks' = tasks /\ Orch!StoreType'
    BY <1>4, StoreKept DEF storeVars
  <1>6. QED
    BY <1>1, <1>3, <1>4, <1>5, IdleMoves DEF Orch!Executing

LEMMA EndHandover ==
  ASSUME Core, NEW w \in Workers, Orch!EndOfScan(w)
  PROVE  Core' /\ Handover(w)
  <1>1. worker[w].pc \notin Orch!Executing /\ aborts' = aborts /\ UNCHANGED storeVars
    BY DEF Orch!EndOfScan, Orch!Executing, Orch!storeVars, storeVars
  <1>2. tasks' = tasks /\ Orch!StoreType'
    BY <1>1, StoreKept DEF storeVars
  <1>3. PICK pc \in {"query", "settle"} : Orch!Goto(w, pc)
    BY DEF Orch!EndOfScan
  <1>4. QED
    BY <1>1, <1>2, <1>3, GotoHandover

LEMMA SettleHandover ==
  ASSUME Core, NEW w \in Workers, Orch!Settle(w)
  PROVE  Core' /\ Handover(w)
  <1> DEFINE rec == [worker[w] EXCEPT !.pc = "publish", !.settled = Orch!SettledStatus]
  <1>1. worker[w].pc \notin Orch!Executing /\ worker[w].task = None
    BY Holds DEF Orch!Settle, Orch!Executing
  <1>2. Orch!SettledStatus \in Orch!WorkflowStatus
    BY DEF Orch!SettledStatus, Orch!WorkflowStatus
  <1>3. rec \in Orch!Worker /\ rec.pc = "publish" /\ rec.task = None
    <2>1. worker[w] \in Orch!Worker
      BY Records
    <2>2. QED
      BY <1>1, <1>2, <2>1 DEF Orch!Worker, Orch!Executing
  <1>4. worker' = [worker EXCEPT ![w] = rec] /\ UNCHANGED storeVars /\ aborts' = aborts
    BY DEF Orch!Settle, Orch!storeVars, storeVars
  <1> HIDE DEF rec
  <1>5. tasks' = tasks /\ Orch!StoreType'
    BY <1>4, StoreKept DEF storeVars
  <1>6. QED
    BY <1>1, <1>3, <1>4, <1>5, IdleMoves DEF Orch!Executing

LEMMA IdleRecord == Orch!Idle \in Orch!Worker /\ Orch!Idle.pc = "idle" /\ Orch!Idle.task = None
  BY DEF Orch!Idle, Orch!Worker, Orch!Executing, Orch!WorkflowStatus

LEMMA PublishHandover ==
  ASSUME Core, NEW w \in Workers, Orch!Publish(w)
  PROVE  Core' /\ Handover(w)
  <1>1. worker[w].pc \notin Orch!Executing /\ aborts' = aborts /\ tasks' = tasks
    BY DEF Orch!Publish, Orch!Executing
  <1>2. Orch!StoreType'
    BY Records DEF Orch!Publish, Orch!SetWorkflowStatus, Core, Orch!TypeOK, Orch!StoreType,
       Orch!Worker
  <1>3. worker' = [worker EXCEPT ![w] = Orch!Idle]
    BY DEF Orch!Publish
  <1>4. QED
    BY <1>1, <1>2, <1>3, IdleRecord, IdleMoves DEF Orch!Executing

LEMMA AbortHandover ==
  ASSUME Core, NEW w \in Workers, Orch!Abort(w)
  PROVE  Core' /\ Handover(w)
  <1>1. UNCHANGED storeVars /\ aborts' \in 0..MaxAborts
    BY Records, HarnessAssumption DEF Orch!Abort, Orch!storeVars, storeVars
  <1>2. worker' = [worker EXCEPT ![w] = Orch!Idle]
    BY DEF Orch!Abort
  <1>3. tasks' = tasks /\ Orch!StoreType'
    BY <1>1, StoreKept DEF storeVars
  <1>4. Moves(w, Orch!Idle)
    BY <1>2, <1>3, IdleRecord DEF Moves, Orch!Executing
  <1>5. Core'
    BY <1>1, <1>3, <1>4, IdleRecord, MovesKeepCore
  <1>6. worker'[w].pc = "idle" /\ \A v \in Workers : v # w => worker'[v] = worker[v]
    BY <1>2, IdleRecord, Records
  <1>7. QED
    BY <1>3, <1>5, <1>6 DEF Handover

LEMMA StartHandover ==
  ASSUME Core, NEW w \in Workers, Orch!TryStart(w)
  PROVE  Core' /\ Handover(w)
  <1>1. PICK t \in worker[w].ready :
          \/ /\ Orch!CanStart(t) /\ Orch!StartTask(t)
             /\ worker' = [worker EXCEPT ![w].pc = "agent", ![w].ready = @ \ {t},
                                         ![w].progress = TRUE, ![w].task = t]
          \/ worker' = [worker EXCEPT ![w].ready = @ \ {t}] /\ UNCHANGED tasks
    BY DEF Orch!TryStart
  <1>2. /\ t \in Tasks /\ worker[w].pc = "scan" /\ worker[w].task = None
        /\ UNCHANGED <<workflow, approvals, artifacts, aborts>>
    BY Records, Holds DEF Orch!TryStart, Orch!Worker, Orch!Executing
  <1>3. CASE /\ Orch!CanStart(t) /\ Orch!StartTask(t)
             /\ worker' = [worker EXCEPT ![w].pc = "agent", ![w].ready = @ \ {t},
                                         ![w].progress = TRUE, ![w].task = t]
    <2> DEFINE rec == [worker[w] EXCEPT !.pc = "agent", !.ready = @ \ {t},
                                        !.progress = TRUE, !.task = t]
    <2>1. rec \in Orch!Worker /\ rec.pc = "agent" /\ rec.task = t
      <3>1. worker[w] \in Orch!Worker
        BY Records
      <3>2. QED
        BY <1>2, <3>1 DEF Orch!Worker, Orch!Executing
    <2>2. worker' = [worker EXCEPT ![w] = rec]
      BY <1>3
    <2> HIDE DEF rec
    <2>3. tasks[t].status = "pending" /\ tasks'[t].status = "running"
      BY <1>2, <1>3, Records DEF Orch!CanStart, Orch!StartTask, Orch!TaskRow
    <2>4. \A u \in Tasks : u # t => tasks'[u] = tasks[u]
      BY <1>3, Records DEF Orch!StartTask
    <2>5. Orch!StoreType'
      BY <1>2, <1>3, <2>3
         DEF Orch!StartTask, Core, Orch!TypeOK, Orch!StoreType, Orch!TaskRow, Orch!TaskStatus
    <2>6. t # None
      BY <1>2, StoreAssumption
    <2>7. Moves(w, rec)
      BY <2>1, <2>2, <2>3, <2>4, <2>6 DEF Moves, Orch!Executing
    <2>8. Core'
      BY <1>2, <2>1, <2>5, <2>7, Records, MovesKeepCore
    <2>9. worker'[w].pc = "agent" /\ \A v \in Workers : v # w => worker'[v] = worker[v]
      BY <2>1, <2>2, Records
    <2>10. QED
      BY <1>2, <2>3, <2>4, <2>8, <2>9 DEF Handover
  <1>4. CASE worker' = [worker EXCEPT ![w].ready = @ \ {t}] /\ UNCHANGED tasks
    <2> DEFINE rec == [worker[w] EXCEPT !.ready = @ \ {t}]
    <2>1. rec \in Orch!Worker /\ rec.pc = "scan" /\ rec.task = None
      <3>1. worker[w] \in Orch!Worker
        BY Records
      <3>2. QED
        BY <1>2, <3>1 DEF Orch!Worker
    <2>2. worker' = [worker EXCEPT ![w] = rec] /\ tasks' = tasks
      BY <1>4
    <2> HIDE DEF rec
    <2>3. Orch!StoreType'
      BY <1>2, <2>2 DEF Core, Orch!TypeOK, Orch!StoreType
    <2>4. QED
      BY <1>2, <2>1, <2>2, <2>3, IdleMoves DEF Orch!Executing
  <1>5. QED
    BY <1>1, <1>3, <1>4

LEMMA FinishHandover ==
  ASSUME Core, NEW w \in Workers, Orch!Finish(w)
  PROVE  Core' /\ Handover(w)
  <1> DEFINE t == worker[w].task
             rec == [worker[w] EXCEPT !.pc = "scan", !.task = None, !.step = 0,
                                      !.output = None, !.handed = <<>>, !.stored = 0,
                                      !.retryable = FALSE]
  <1>1. /\ worker[w].pc = "finish" /\ UNCHANGED <<workflow, approvals, artifacts, aborts>>
        /\ t \in Tasks /\ tasks[t].status = "running" /\ Orch!Executes(w, t)
    BY Holds DEF Orch!Finish, Orch!Executing
  <1>2. Orch!FinishTask(t, worker[w].output) /\ Orch!NextTask(w)
    BY <1>1 DEF Orch!Finish, Orch!FinishConflicts
  <1>3. rec \in Orch!Worker /\ rec.pc = "scan" /\ rec.task = None
    BY ClearedRecord
  <1>4. worker' = [worker EXCEPT ![w] = rec]
    BY <1>2 DEF Orch!NextTask
  <1>5. worker[w].output \in Outputs /\ worker[w].output # None
    BY <1>1, Records DEF Core, Orch!TypeOK, Orch!WorkerType, Orch!Worker
  <1> HIDE DEF t, rec
  <1>6. /\ tasks'[t].status = "succeeded" /\ tasks'[t].output = worker[w].output
        /\ \A u \in Tasks : u # t => tasks'[u] = tasks[u]
    BY <1>1, <1>2, Records DEF Orch!FinishTask, Orch!TaskRow
  <1>7. Orch!StoreType'
    BY <1>1, <1>2, <1>5, <1>6
       DEF Orch!FinishTask, Core, Orch!TypeOK, Orch!StoreType, Orch!TaskRow, Orch!TaskStatus
  <1>8. Moves(w, rec)
    BY <1>1, <1>3, <1>4, <1>6 DEF Moves, Orch!Executing
  <1>9. Core'
    BY <1>1, <1>3, <1>7, <1>8, Records, MovesKeepCore
  <1>10. worker'[w].pc = "scan" /\ \A v \in Workers : v # w => worker'[v] = worker[v]
    BY <1>3, <1>4, Records
  <1>11. QED
    BY <1>1, <1>6, <1>9, <1>10 DEF Handover, t

LEMMA WaitHandover ==
  ASSUME Core, NEW w \in Workers, Orch!Wait(w)
  PROVE  Core' /\ Handover(w)
  <1>1. /\ worker[w].pc \in Orch!Executing /\ Orch!NextTask(w)
        /\ tasks' = [tasks EXCEPT ![worker[w].task].status = "waiting_approval"]
        /\ UNCHANGED <<workflow, approvals, artifacts, aborts>>
    BY DEF Orch!Wait, Orch!WaitForApproval, Orch!Executing
  <1>2. QED
    BY <1>1, LeaveMoves

LEMMA FailHandover ==
  ASSUME Core, NEW w \in Workers, Orch!Fail(w)
  PROVE  Core' /\ Handover(w)
  <1>1. PICK s \in {"pending", "failed"} :
          tasks' = [tasks EXCEPT ![worker[w].task].status = s]
    BY DEF Orch!Fail, Orch!FailTask, Orch!FailedStatus
  <1>2. /\ worker[w].pc \in Orch!Executing /\ Orch!NextTask(w)
        /\ UNCHANGED <<workflow, approvals, artifacts, aborts>>
    BY DEF Orch!Fail, Orch!Executing
  <1>3. QED
    BY <1>1, <1>2, LeaveMoves

LEMMA ScheduleStep ==
  ASSUME Core, NEW w \in Workers, Run(w) \/ Schedules(w) \/ Abort(w)
  PROVE  Core' /\ Handover(w)
  BY RunHandover, MarkHandover, QueryHandover, StartHandover, EndHandover, FinishHandover,
     WaitHandover, FailHandover, SettleHandover, PublishHandover, AbortHandover
     DEF Run, Schedules, Abort

LEMMA DecideStep ==
  ASSUME Core, NEW c \in Calls, Orch!Decide(c)
  PROVE  /\ Core' /\ worker' = worker
         /\ \A t \in Tasks : tasks'[t].status = "succeeded" => tasks'[t] = tasks[t]
  <1> DEFINE u == TaskOf[c]
  <1>1. PICK v \in Verdicts : Orch!DecideApproval(c, v)
    BY DEF Orch!Decide
  <1>2. /\ v \in {"approved", "rejected"} /\ u \in Tasks
        /\ worker' = worker /\ UNCHANGED <<workflow, artifacts, aborts>>
    BY HarnessAssumption, StoreAssumption DEF Orch!Decide
  <1>3. /\ approvals' = [approvals EXCEPT ![c] = v]
        /\ tasks' = [tasks EXCEPT ![u] = Orch!DecidedTask(u, v)]
    BY <1>1 DEF Orch!DecideApproval
  <1> HIDE DEF u
  <1>4. approvals' \in [Calls -> Orch!ApprovalStatus \cup {"absent"}]
    BY <1>2, <1>3, Records DEF Orch!ApprovalStatus
  <1>5. /\ tasks[u] \in Orch!TaskRow /\ Orch!DecidedTask(u, v) \in Orch!TaskRow
        /\ \/ Orch!DecidedTask(u, v) = tasks[u]
           \/ /\ tasks[u].status = "waiting_approval"
              /\ Orch!DecidedTask(u, v).status \in {"pending", "failed"}
              /\ Orch!DecidedTask(u, v).output = tasks[u].output
    BY <1>2, Records DEF Orch!DecidedTask, Orch!TaskRow, Orch!TaskStatus
  <1>6. /\ tasks' \in [Tasks -> Orch!TaskRow] /\ tasks'[u] = Orch!DecidedTask(u, v)
        /\ \A t \in Tasks : t # u => tasks'[t] = tasks[t]
    BY <1>2, <1>3, <1>5, Records
  <1>7. Orch!StoreType'
    BY <1>2, <1>4, <1>5, <1>6 DEF Core, Orch!TypeOK, Orch!StoreType
  <1>8. /\ \A t \in Tasks : tasks[t].status = "running" => tasks'[t] = tasks[t]
        /\ \A t \in Tasks : tasks'[t].status = "succeeded" => tasks'[t] = tasks[t]
    BY <1>5, <1>6
  <1>9. Orch!WorkerType' /\ aborts' \in 0..MaxAborts
    BY <1>2, Records DEF Core, Orch!TypeOK, Orch!WorkerType
  <1>10. Orch!SingleExecutor'
    BY <1>2, <1>8 DEF Core, Orch!SingleExecutor, Orch!Executes
  <1>11. QED
    BY <1>2, <1>7, <1>8, <1>9, <1>10 DEF Core, Orch!TypeOK

-----------------------------------------------------------------------------
(* The loop and what it leaves behind *)

LoopType ==
  /\ loop \in [Workers -> Loop]
  /\ \A w \in Workers : worker[w].pc # "agent" => loop[w] = Fresh

TablesType ==
  /\ Gateway!LedgerType
  /\ effects \in [Calls -> Nat]
  /\ turns \in [Tasks -> [Steps -> AnyTurn \cup {None}]]

\* A saved turn is one the model of its task may take.
TurnsOffered == \A t \in Tasks, n \in Steps : turns[t][n] # None => turns[t][n] \in Turns[t][n]

\* Call c is made by the saved turn of its step.
Told(c) ==
  LET turn == turns[c.task][c.step]
  IN  /\ c.step \in Steps
      /\ turn # None
      /\ c.index \in DOMAIN turn.calls
      /\ turn.calls[c.index] = c.tool

LedgerTold == \A c \in Calls : calls[c].status # "absent" => Told(c)

\* Step n of task t is behind: its saved turn made calls, and all went through.
StepDone(t, n) ==
  /\ turns[t][n] # None
  /\ turns[t][n].calls # <<>>
  /\ \A i \in 1..Len(turns[t][n].calls) :
       calls[CallId(t, n, turns[t][n], i)].status = "succeeded"

\* Output o of task t is what a run of its agent that starts over would return.
BackedUp(t, o) ==
  /\ turns[t][o.steps - 1] = [calls |-> <<>>, text |-> o.text]
  /\ \A n \in 0..(o.steps - 2) : StepDone(t, n)

\* Process w is about to store output o of task t.
Returns(w, t, o) == worker[w].pc = "finish" /\ worker[w].task = t /\ worker[w].output = o

\* What a process has read and done in the loop agrees with the tables.
OnTrack(w) ==
  LET t == worker[w].task
      l == loop[w]
  IN  worker[w].pc = "agent" =>
        /\ \A n \in 0..(l.step - 1) : StepDone(t, n)
        /\ l.pc = "ask" => l.index = 1
        /\ l.pc = "save" =>
             /\ l.step < MaxSteps /\ l.index = 1
             /\ l.turn \in Turns[t][l.step] /\ turns[t][l.step] = None
        /\ l.pc \in {"call", "claim", "handler", "effected"} =>
             /\ l.step < MaxSteps
             /\ l.turn # None /\ l.turn = turns[t][l.step]
             /\ \A i \in 1..(l.index - 1) : calls[CallId(t, l.step, l.turn, i)].status = "succeeded"
             /\ IF l.turn.calls = <<>> THEN l.index = 1 ELSE l.index \in 1..Len(l.turn.calls)
        /\ l.pc \in {"claim", "handler", "effected"} => l.turn.calls # <<>>
        /\ l.pc \in {"handler", "effected"} => calls[CallOf(w)].status = "running"

Story ==
  /\ TurnsOffered
  /\ LedgerTold
  /\ \A w \in Workers : OnTrack(w)
  /\ \A w \in Workers, t \in Tasks, o \in Outputs : Returns(w, t, o) => BackedUp(t, o)
  /\ \A t \in Tasks, o \in Outputs :
       tasks[t].status = "succeeded" /\ tasks[t].output = o => BackedUp(t, o)

IInv == Core /\ LoopType /\ TablesType /\ Story

\* Saved turns and successes are there for good.
Grows ==
  /\ \A t \in Tasks, n \in Steps : turns[t][n] # None => turns'[t][n] = turns[t][n]
  /\ \A c \in Calls : calls[c].status = "succeeded" => calls'[c].status = "succeeded"

LEMMA StepNumbers ==
  /\ MaxSteps \in Nat
  /\ \A n : n \in Steps <=> n \in Nat /\ n < MaxSteps
  BY HarnessAssumption DEF Steps

LEMMA StepsBefore == \A s \in Steps : \A n \in 0..(s - 1) : n \in Steps
  BY StepNumbers

LEMMA Offered ==
  ASSUME NEW t \in Tasks, NEW n \in Steps, NEW turn \in Turns[t][n]
  PROVE  /\ turn \in Turn /\ turn # None /\ turn \in AnyTurn
         /\ turn.calls \in Seq(Tools) /\ turn.text \in Texts \cup {None}
         /\ turn.calls = <<>> <=> turn.text # None
         /\ Len(turn.calls) \in Nat /\ DOMAIN turn.calls = 1..Len(turn.calls)
         /\ turn.calls # <<>> => Len(turn.calls) >= 1
         /\ \A i \in 1..Len(turn.calls) :
              CallId(t, n, turn, i) \in Calls /\ turn.calls[i] \in Tools
  <1>1. /\ turn \in Turn
        /\ turn.calls = <<>> <=> turn.text # None
        /\ \A i \in 1..Len(turn.calls) : CallId(t, n, turn, i) \in Calls
    BY HarnessAssumption
  <1>2. turn \in AnyTurn
    BY DEF AnyTurn
  <1>3. turn.calls \in Seq(Tools) /\ turn.text \in Texts \cup {None}
    BY <1>1 DEF Turn
  <1>4. turn # None
    BY <1>1, HarnessAssumption
  <1>5. /\ Len(turn.calls) \in Nat /\ DOMAIN turn.calls = 1..Len(turn.calls)
        /\ \A i \in 1..Len(turn.calls) : turn.calls[i] \in Tools
        /\ turn.calls # <<>> => Len(turn.calls) >= 1
    BY <1>3
  <1>6. QED
    BY <1>1, <1>2, <1>3, <1>4, <1>5

LEMMA IdFields ==
  ASSUME NEW t, NEW n, NEW turn, NEW i
  PROVE  LET c == CallId(t, n, turn, i)
         IN  c.task = t /\ c.step = n /\ c.index = i /\ c.tool = turn.calls[i]
  BY DEF CallId

LEMMA DoneStays ==
  ASSUME TurnsOffered, Grows, NEW t \in Tasks, NEW n \in Steps, StepDone(t, n)
  PROVE  StepDone(t, n)'
  <1>1. turns[t][n] # None /\ turns'[t][n] = turns[t][n] /\ turns[t][n] \in Turns[t][n]
    BY DEF StepDone, Grows, TurnsOffered
  <1>2. \A i \in 1..Len(turns[t][n].calls) : CallId(t, n, turns[t][n], i) \in Calls
    BY <1>1, Offered
  <1>3. \A i \in 1..Len(turns[t][n].calls) :
          calls'[CallId(t, n, turns[t][n], i)].status = "succeeded"
    BY <1>2 DEF StepDone, Grows
  <1>4. turns'[t][n] # None /\ turns'[t][n].calls # <<>>
    BY <1>1 DEF StepDone
  <1>5. \A i \in 1..Len(turns'[t][n].calls) :
          calls'[CallId(t, n, turns'[t][n], i)].status = "succeeded"
    BY <1>1, <1>3
  <1>6. QED
    BY <1>4, <1>5 DEF StepDone, CallId

LEMMA DoneAgrees ==
  ASSUME TurnsOffered, NEW t \in Tasks, NEW n \in Steps, StepDone(t, n),
         turns'[t] = turns[t],
         \A c \in Calls : c.task = t => calls'[c].status = calls[c].status
  PROVE  StepDone(t, n)'
  <1>1. turns[t][n] # None /\ turns[t][n] \in Turns[t][n]
    BY DEF StepDone, TurnsOffered
  <1>2. \A i \in 1..Len(turns[t][n].calls) :
          /\ CallId(t, n, turns[t][n], i) \in Calls
          /\ CallId(t, n, turns[t][n], i).task = t
    BY <1>1, Offered, IdFields
  <1>3. \A i \in 1..Len(turns'[t][n].calls) :
          calls'[CallId(t, n, turns'[t][n], i)].status = "succeeded"
    BY <1>2 DEF StepDone
  <1>4. turns'[t][n] # None /\ turns'[t][n].calls # <<>>
    BY DEF StepDone
  <1>5. QED
    BY <1>3, <1>4 DEF StepDone, CallId

LEMMA BackedStays ==
  ASSUME TurnsOffered, Grows, NEW t \in Tasks, NEW o \in Outputs, BackedUp(t, o)
  PROVE  BackedUp(t, o)'
  <1>1. o.steps \in 1..MaxSteps /\ o.text \in Texts
    BY HarnessAssumption
  <1>2. o.steps - 1 \in Steps /\ \A n \in 0..(o.steps - 2) : n \in Steps
    BY <1>1, StepNumbers
  <1>3. [calls |-> <<>>, text |-> o.text] # None
    <2>1. [calls |-> <<>>, text |-> o.text] \in Turn
      BY <1>1 DEF Turn
    <2>2. QED
      BY <2>1, HarnessAssumption
  <1>4. turns'[t][o.steps - 1] = [calls |-> <<>>, text |-> o.text]
    BY <1>2, <1>3 DEF BackedUp, Grows
  <1>5. \A n \in 0..(o.steps - 2) : StepDone(t, n)'
    BY <1>2, DoneStays DEF BackedUp
  <1>6. QED
    BY <1>4, <1>5 DEF BackedUp

LEMMA ToldStays ==
  ASSUME Grows, NEW c \in Calls, Told(c)
  PROVE  Told(c)'
  <1>1. c.task \in Tasks
    BY HarnessAssumption, StoreAssumption
  <1>2. turns'[c.task][c.step] = turns[c.task][c.step]
    BY <1>1 DEF Told, Grows
  <1>3. QED
    BY <1>2 DEF Told

\* What a step of process w leaves to the others.
Local(w) ==
  /\ \A v \in Workers : v # w => worker'[v] = worker[v] /\ loop'[v] = loop[v]
  /\ \A t \in Tasks : t # worker[w].task => turns'[t] = turns[t]
  /\ \A c \in Calls : c.task # worker[w].task => calls'[c].status = calls[c].status

\* What process v has read stays true while the tables of its task stay.
LEMMA OnTrackStays ==
  ASSUME Core, LoopType, TurnsOffered, NEW v \in Workers, OnTrack(v),
         worker'[v] = worker[v], loop'[v] = loop[v],
         worker[v].pc = "agent" => turns'[worker[v].task] = turns[worker[v].task],
         worker[v].pc = "agent" =>
           \A c \in Calls : c.task = worker[v].task => calls'[c].status = calls[c].status
  PROVE  OnTrack(v)'
  <1> DEFINE t == worker[v].task
             l == loop[v]
  <1>1. CASE worker[v].pc # "agent"
    BY <1>1 DEF OnTrack
  <1>2. CASE worker[v].pc = "agent"
    <2>1. t \in Tasks /\ turns'[t] = turns[t]
      BY <1>2, Holds DEF Orch!Executing
    <2>2. \A c \in Calls : c.task = t => calls'[c].status = calls[c].status
      BY <1>2
    <2>3. l \in Loop /\ l.step \in Nat /\ l.step <= MaxSteps /\ l.index \in Nat
      BY StepNumbers DEF LoopType, Loop
    <2>4. ASSUME NEW n \in 0..(l.step - 1), StepDone(t, n) PROVE StepDone(t, n)'
      <3>1. n \in Steps
        BY <2>3, StepNumbers
      <3>2. QED
        BY <2>1, <2>2, <2>4, <3>1, DoneAgrees
    <2>5. ASSUME l.pc \in {"call", "claim", "handler", "effected"}
          PROVE  /\ l.step \in Steps /\ l.turn \in Turns[t][l.step]
                 /\ \A i \in 1..Len(l.turn.calls) :
                      /\ CallId(t, l.step, l.turn, i) \in Calls
                      /\ calls'[CallId(t, l.step, l.turn, i)].status
                           = calls[CallId(t, l.step, l.turn, i)].status
      <3>1. l.step \in Steps /\ l.turn # None /\ l.turn = turns[t][l.step]
        BY <1>2, <2>3, <2>5, StepNumbers DEF OnTrack
      <3>2. l.turn \in Turns[t][l.step]
        BY <2>1, <3>1 DEF TurnsOffered
      <3>3. \A i \in 1..Len(l.turn.calls) : CallId(t, l.step, l.turn, i) \in Calls
        BY <2>1, <3>1, <3>2, Offered
      <3>4. \A i : CallId(t, l.step, l.turn, i).task = t
        BY DEF CallId
      <3>5. QED
        BY <2>2, <3>1, <3>2, <3>3, <3>4
    <2>6. ASSUME l.pc \in {"call", "claim", "handler", "effected"}, NEW i \in 1..(l.index - 1)
          PROVE  calls'[CallId(t, l.step, l.turn, i)].status = "succeeded"
      <3>1. calls[CallId(t, l.step, l.turn, i)].status = "succeeded"
        BY <1>2, <2>6 DEF OnTrack
      <3>2. IF l.turn.calls = <<>> THEN l.index = 1 ELSE l.index \in 1..Len(l.turn.calls)
        BY <1>2, <2>6 DEF OnTrack
      <3>3. CASE l.turn.calls # <<>>
        <4>1. Len(l.turn.calls) \in Nat
          BY <2>1, <2>5, <2>6, Offered
        <4>2. i \in 1..Len(l.turn.calls)
          BY <3>2, <3>3, <2>3, <4>1
        <4>3. QED
          BY <2>5, <2>6, <3>1, <4>2
      <3>4. CASE l.turn.calls = <<>>
        BY <3>2, <3>4, <2>6
      <3>5. QED
        BY <3>3, <3>4
    <2>7. ASSUME l.pc \in {"handler", "effected"} PROVE calls'[CallOf(v)].status = "running"
      <3>1. l.turn.calls # <<>> /\ calls[CallOf(v)].status = "running"
            /\ l.index \in 1..Len(l.turn.calls)
        BY <1>2, <2>7 DEF OnTrack
      <3>2. QED
        BY <2>5, <2>7, <3>1 DEF CallOf
    <2>8. CallOf(v)' = CallOf(v)
      BY DEF CallOf, CallId
    <2>9. QED
      BY <1>2, <2>1, <2>4, <2>6, <2>7 DEF OnTrack, CallOf, CallId
  <1>3. QED
    BY <1>1, <1>2

\* A step of process w keeps the story, if it keeps its own part of it.
LEMMA StoryFrom ==
  ASSUME IInv, NEW w \in Workers, Core', Local(w), Grows, TurnsOffered', OnTrack(w)',
         \A t \in Tasks, o \in Outputs : Returns(w, t, o)' => BackedUp(t, o)',
         \A t \in Tasks : tasks'[t].status = "succeeded" =>
           \/ tasks[t].status = "succeeded" /\ tasks'[t] = tasks[t]
           \/ /\ worker[w].pc = "finish" /\ worker[w].task = t
              /\ tasks'[t].output = worker[w].output,
         \A c \in Calls : calls'[c].status # "absent" =>
           calls[c].status # "absent" \/ Told(c)'
  PROVE  Story'
  <1> USE DEF IInv, Story
  <1>1. LedgerTold'
    <2> SUFFICES ASSUME NEW c \in Calls, calls'[c].status # "absent" PROVE Told(c)'
      BY DEF LedgerTold
    <2>1. CASE Told(c)
      BY <2>1, ToldStays
    <2>2. CASE ~Told(c)
      BY <2>2 DEF LedgerTold
    <2>3. QED
      BY <2>1, <2>2
  <1>2. ASSUME NEW v \in Workers PROVE OnTrack(v)'
    <2>1. CASE v = w
      BY <2>1
    <2>2. CASE v # w
      <3>1. worker[v].pc = "agent" => worker[v].task \in Tasks /\ worker[v].task # worker[w].task
        <4> SUFFICES ASSUME worker[v].pc = "agent", worker[v].task = worker[w].task PROVE FALSE
          BY Holds DEF Orch!Executing
        <4>1. /\ worker[v].task \in Tasks /\ worker[v].task # None
              /\ Orch!Executes(v, worker[v].task)
          BY Holds DEF Orch!Executing
        <4>2. Orch!Executes(w, worker[v].task)
          BY <4>1, Holds
        <4>3. QED
          BY <2>2, <4>1, <4>2 DEF Core, Orch!SingleExecutor
      <3>2. worker[v].pc = "agent" =>
              /\ turns'[worker[v].task] = turns[worker[v].task]
              /\ \A c \in Calls : c.task = worker[v].task => calls'[c].status = calls[c].status
        BY <3>1 DEF Local
      <3>3. worker'[v] = worker[v] /\ loop'[v] = loop[v]
        BY <2>2 DEF Local
      <3>4. QED
        BY <3>2, <3>3, OnTrackStays
    <2>3. QED
      BY <2>1, <2>2
  <1>3. ASSUME NEW v \in Workers, NEW t \in Tasks, NEW o \in Outputs, Returns(v, t, o)'
        PROVE  BackedUp(t, o)'
    <2>1. CASE v = w
      BY <1>3, <2>1
    <2>2. CASE v # w
      <3>1. Returns(v, t, o)
        BY <1>3, <2>2 DEF Local, Returns
      <3>2. QED
        BY <3>1, BackedStays
    <2>3. QED
      BY <2>1, <2>2
  <1>4. ASSUME NEW t \in Tasks, NEW o \in Outputs, tasks'[t].status = "succeeded", tasks'[t].output = o
        PROVE  BackedUp(t, o)'
    <2>1. CASE tasks[t].status = "succeeded" /\ tasks'[t] = tasks[t]
      BY <1>4, <2>1, BackedStays
    <2>2. CASE worker[w].pc = "finish" /\ worker[w].task = t /\ tasks'[t].output = worker[w].output
      <3>1. Returns(w, t, o)
        BY <1>4, <2>2 DEF Returns
      <3>2. QED
        BY <3>1, BackedStays
    <2>3. QED
      BY <1>4, <2>1, <2>2
  <1>5. QED
    BY <1>1, <1>2, <1>3, <1>4

\* The same for a step that no process takes.
LEMMA StoryQuiet ==
  ASSUME IInv, worker' = worker, loop' = loop, turns' = turns,
         \A c \in Calls : calls'[c].status = calls[c].status,
         \A t \in Tasks : tasks'[t].status = "succeeded" => tasks'[t] = tasks[t]
  PROVE  Story'
  <1> USE DEF IInv, Story
  <1>1. Grows
    BY DEF Grows
  <1>2. TurnsOffered'
    BY DEF TurnsOffered
  <1>3. LedgerTold'
    <2> SUFFICES ASSUME NEW c \in Calls, calls'[c].status # "absent" PROVE Told(c)'
      BY DEF LedgerTold
    <2>1. Told(c)
      BY DEF LedgerTold
    <2>2. QED
      BY <1>1, <2>1, ToldStays
  <1>4. \A v \in Workers : OnTrack(v)'
    BY OnTrackStays
  <1>5. \A w \in Workers, t \in Tasks, o \in Outputs : Returns(w, t, o)' => BackedUp(t, o)'
    BY <1>1, BackedStays DEF Returns
  <1>6. ASSUME NEW t \in Tasks, NEW o \in Outputs, tasks'[t].status = "succeeded",
               tasks'[t].output = o
        PROVE  BackedUp(t, o)'
    BY <1>1, <1>6, BackedStays
  <1>7. QED
    BY <1>2, <1>3, <1>4, <1>5, <1>6

\* An agent that has just been started.
LEMMA FreshOnTrack ==
  ASSUME NEW w \in Workers, loop'[w] = Fresh
  PROVE  OnTrack(w)'
  BY DEF OnTrack, Fresh

LEMMA ScheduleKeeps ==
  ASSUME IInv, NEW w \in Workers, Run(w) \/ Schedules(w) \/ Abort(w)
  PROVE  IInv'
  <1> USE DEF IInv
  <1>1. Core' /\ Handover(w)
    BY ScheduleStep
  <1>2. loop' = [loop EXCEPT ![w] = Fresh] /\ UNCHANGED <<calls, effects, turns>>
    <2>1. CASE Abort(w)
      BY <2>1 DEF Abort
    <2>2. CASE Run(w) \/ Schedules(w)
      <3>1. worker[w].pc # "agent" /\ UNCHANGED loopVars
        BY <2>2
           DEF Run, Schedules, Orch!Run, Orch!MarkRunning, Orch!QueryReady, Orch!TryStart,
               Orch!EndOfScan, Orch!Finish, Orch!Wait, Orch!Fail, Orch!Settle, Orch!Publish
      <3>2. loop \in [Workers -> Loop] /\ loop[w] = Fresh /\ loop' = loop
        BY <3>1 DEF LoopType, loopVars
      <3>3. loop' = [loop EXCEPT ![w] = Fresh]
        BY <3>2
      <3>4. QED
        BY <3>1, <3>3 DEF loopVars
    <2>3. QED
      BY <2>1, <2>2
  <1>3. Fresh \in Loop
    BY StepNumbers DEF Fresh, Loop
  <1>4. loop'[w] = Fresh /\ \A v \in Workers : v # w => loop'[v] = loop[v]
    BY <1>2 DEF LoopType
  <1>5. LoopType'
    BY <1>1, <1>2, <1>3, <1>4 DEF LoopType, Handover
  <1>6. TablesType'
    BY <1>2 DEF TablesType, Gateway!LedgerType
  <1>7. OnTrack(w)'
    BY <1>4, FreshOnTrack
  <1>8. Local(w) /\ Grows
    BY <1>1, <1>2, <1>4 DEF Local, Grows, Handover
  <1>9. TurnsOffered' /\ \A t \in Tasks, o \in Outputs : ~Returns(w, t, o)'
    BY <1>1, <1>2 DEF Story, TurnsOffered, Returns, Handover
  <1>10. Story'
    BY <1>1, <1>2, <1>7, <1>8, <1>9, StoryFrom DEF Handover
  <1>11. QED
    BY <1>1, <1>5, <1>6, <1>10

LEMMA DecideKeeps ==
  ASSUME IInv, NEW c \in Calls, Decide(c)
  PROVE  IInv'
  <1> USE DEF IInv
  <1>1. /\ Core' /\ worker' = worker
        /\ \A t \in Tasks : tasks'[t].status = "succeeded" => tasks'[t] = tasks[t]
    BY DecideStep DEF Decide
  <1>2. UNCHANGED <<calls, effects, turns, loop>>
    BY DEF Decide, loopVars
  <1>3. LoopType' /\ TablesType'
    BY <1>1, <1>2 DEF LoopType, TablesType, Gateway!LedgerType
  <1>4. Story'
    BY <1>1, <1>2, StoryQuiet
  <1>5. QED
    BY <1>1, <1>3, <1>4

LEMMA LeaseKeeps ==
  ASSUME IInv, NEW c \in Calls, LeaseExpires(c)
  PROVE  IInv'
  <1> USE DEF IInv
  <1>1. UNCHANGED <<storeVars, worker, aborts, effects, turns, loop>>
    BY DEF LeaseExpires
  <1>2. calls[c].lease = "live" /\ calls' = [calls EXCEPT ![c].lease = "expired"]
    BY DEF LeaseExpires, Gateway!LeaseExpires
  <1>3. calls \in [Calls -> Gateway!Row]
        /\ \A d \in Calls : calls[d].lease # "none" <=> calls[d].status = "running"
    BY DEF TablesType, Gateway!LedgerType
  <1>4. /\ calls' \in [Calls -> Gateway!Row]
        /\ \A d \in Calls : /\ calls'[d].status = calls[d].status
                            /\ calls'[d].lease # "none" <=> calls[d].lease # "none"
    BY <1>2, <1>3 DEF Gateway!Row
  <1>5. Gateway!LedgerType'
    BY <1>3, <1>4 DEF Gateway!LedgerType
  <1>6. LoopType' /\ TablesType'
    BY <1>1, <1>5 DEF LoopType, TablesType
  <1>7. Core'
    <2>1. Orch!TypeOK'
      BY <1>1 DEF Core, storeVars, Orch!TypeOK, Orch!StoreType, Orch!WorkerType
    <2>2. Orch!SingleExecutor'
      BY <1>1 DEF Core, storeVars, Orch!SingleExecutor, Orch!Executes
    <2>3. QED
      BY <2>1, <2>2 DEF Core
  <1>8. Story'
    BY <1>1, <1>4, StoryQuiet DEF storeVars
  <1>9. QED
    BY <1>6, <1>7, <1>8

-----------------------------------------------------------------------------
(* The steps of the loop *)

InTurn == {"call", "claim", "handler", "effected"}

\* Where a process stands in the loop.
LEMMA AtTurn ==
  ASSUME IInv, NEW w \in Workers, worker[w].pc = "agent"
  PROVE  /\ worker[w].task \in Tasks
         /\ loop[w] \in Loop /\ loop[w].step \in 0..MaxSteps /\ loop[w].index \in Nat
         /\ loop[w].pc \in InTurn =>
              /\ loop[w].step \in Steps
              /\ loop[w].turn \in Turns[worker[w].task][loop[w].step]
              /\ loop[w].turn = turns[worker[w].task][loop[w].step]
              /\ loop[w].turn.calls # <<>> =>
                   /\ loop[w].index \in 1..Len(loop[w].turn.calls)
                   /\ CallOf(w) \in Calls /\ CallOf(w).task = worker[w].task
                   /\ Told(CallOf(w))
  <1> DEFINE t == worker[w].task
             l == loop[w]
  <1>1. t \in Tasks
    BY Holds DEF IInv, Orch!Executing
  <1>2. l \in Loop /\ l.step \in 0..MaxSteps /\ l.index \in Nat
    BY DEF IInv, LoopType, Loop
  <1>3. ASSUME l.pc \in InTurn
        PROVE  l.step \in Steps /\ l.turn \in Turns[t][l.step] /\ l.turn = turns[t][l.step]
               /\ IF l.turn.calls = <<>> THEN l.index = 1 ELSE l.index \in 1..Len(l.turn.calls)
    <2>1. /\ l.step < MaxSteps /\ l.turn # None /\ l.turn = turns[t][l.step]
          /\ IF l.turn.calls = <<>> THEN l.index = 1 ELSE l.index \in 1..Len(l.turn.calls)
      BY <1>3 DEF IInv, Story, OnTrack, InTurn
    <2>2. l.step \in Steps
      BY <1>2, <2>1, StepNumbers
    <2>3. QED
      BY <1>1, <2>1, <2>2 DEF IInv, Story, TurnsOffered
  <1>4. ASSUME l.pc \in InTurn, l.turn.calls # <<>>
        PROVE  /\ CallOf(w) \in Calls /\ CallOf(w).task = t /\ Told(CallOf(w))
    <2>1. /\ CallOf(w) = CallId(t, l.step, l.turn, l.index)
          /\ l.index \in 1..Len(l.turn.calls)
      BY <1>3, <1>4 DEF CallOf
    <2>2. CallOf(w) \in Calls
      BY <1>1, <1>3, <1>4, <2>1, Offered
    <2>3. /\ CallOf(w).task = t /\ CallOf(w).step = l.step /\ CallOf(w).index = l.index
          /\ CallOf(w).tool = l.turn.calls[l.index]
      BY <2>1 DEF CallId
    <2>4. DOMAIN l.turn.calls = 1..Len(l.turn.calls) /\ l.turn # None
      BY <1>1, <1>3, <1>4, Offered
    <2>5. QED
      BY <1>3, <1>4, <2>1, <2>2, <2>3, <2>4 DEF Told
  <1>5. QED
    BY <1>1, <1>2, <1>3, <1>4

\* A step of the loop, or an exception after it, leaves every process with the task it had.
LEMMA LoopMoves ==
  ASSUME IInv, NEW w \in Workers, worker[w].pc \in {"agent", "finish"},
         UNCHANGED <<workflow, tasks, artifacts, aborts>>,
         approvals' \in [Calls -> Orch!ApprovalStatus \cup {"absent"}],
         NEW rec \in Orch!Worker, worker' = [worker EXCEPT ![w] = rec],
         NEW l \in Loop, loop' = [loop EXCEPT ![w] = l],
         rec.task = worker[w].task, rec.pc \in {"agent", "wait", "fail", "finish"},
         rec.pc # "agent" => l = Fresh, rec.pc = "finish" => rec.output # None
  PROVE  /\ Core' /\ LoopType'
         /\ worker'[w] = rec /\ loop'[w] = l
         /\ \A v \in Workers : v # w => worker'[v] = worker[v] /\ loop'[v] = loop[v]
  <1> USE DEF IInv
  <1>1. worker[w].task \in Tasks /\ tasks[worker[w].task].status = "running"
    BY Holds DEF Orch!Executing
  <1>2. worker[w].task # None
    BY <1>1, StoreAssumption
  <1>3. Moves(w, rec)
    BY <1>1, <1>2 DEF Moves, Orch!Executing
  <1>4. Orch!StoreType'
    BY DEF Core, Orch!TypeOK, Orch!StoreType
  <1>5. Core'
    BY <1>3, <1>4, Records, MovesKeepCore
  <1>6. worker'[w] = rec /\ \A v \in Workers : v # w => worker'[v] = worker[v]
    BY Records
  <1>7. loop'[w] = l /\ \A v \in Workers : v # w => loop'[v] = loop[v]
    BY DEF LoopType
  <1>8. LoopType'
    BY <1>6, <1>7 DEF LoopType
  <1>9. QED
    BY <1>5, <1>6, <1>7, <1>8

ApprovalsType == approvals \in [Calls -> Orch!ApprovalStatus \cup {"absent"}]

LEMMA BecomesMoves ==
  ASSUME IInv, NEW w \in Workers, worker[w].pc = "agent",
         UNCHANGED <<workflow, tasks, artifacts, aborts>>, ApprovalsType',
         NEW l \in Loop, Becomes(w, l)
  PROVE  /\ Core' /\ LoopType'
         /\ worker'[w] = worker[w] /\ loop'[w] = l
         /\ \A v \in Workers : v # w => worker'[v] = worker[v] /\ loop'[v] = loop[v]
  <1>1. /\ worker[w] \in Orch!Worker /\ worker' = [worker EXCEPT ![w] = worker[w]]
        /\ loop' = [loop EXCEPT ![w] = l]
    BY Records DEF IInv, Becomes
  <1>2. QED
    BY <1>1, LoopMoves DEF ApprovalsType

LEMMA FreshType == Fresh \in Loop
  BY StepNumbers DEF Fresh, Loop

LEMMA RaisesMoves ==
  ASSUME IInv, NEW w \in Workers, worker[w].pc \in {"agent", "finish"},
         UNCHANGED <<workflow, tasks, artifacts, aborts>>, ApprovalsType',
         NEW r \in BOOLEAN, Raises(w, r)
  PROVE  /\ Core' /\ LoopType'
         /\ worker'[w].pc = "fail" /\ worker'[w].task = worker[w].task
         /\ \A v \in Workers : v # w => worker'[v] = worker[v] /\ loop'[v] = loop[v]
  <1> DEFINE rec == [worker[w] EXCEPT !.pc = "fail", !.retryable = r]
  <1>1. worker[w] \in Orch!Worker
    BY Records DEF IInv
  <1>2. rec \in Orch!Worker /\ rec.pc = "fail" /\ rec.task = worker[w].task
    BY <1>1 DEF Orch!Worker, Orch!Executing
  <1>3. worker' = [worker EXCEPT ![w] = rec] /\ loop' = [loop EXCEPT ![w] = Fresh]
    BY DEF Raises, Orch!Raise
  <1> HIDE DEF rec
  <1>4. QED
    BY <1>2, <1>3, FreshType, LoopMoves DEF ApprovalsType

\* A process that leaves the loop without a result keeps the story if the tables do.
LEMMA LeaveStory ==
  ASSUME IInv, NEW w \in Workers, worker[w].pc \in {"agent", "finish"}, Core', Local(w), Grows,
         tasks' = tasks, TurnsOffered', worker'[w].pc \in {"fail", "wait"},
         \A c \in Calls : calls'[c].status # "absent" =>
           calls[c].status # "absent" \/ Told(c)'
  PROVE  Story'
  <1>1. OnTrack(w)'
    BY DEF OnTrack
  <1>2. \A t \in Tasks, o \in Outputs : ~Returns(w, t, o)'
    BY DEF Returns
  <1>3. QED
    BY <1>1, <1>2, StoryFrom

\* The same for one that stays in it.
LEMMA StayStory ==
  ASSUME IInv, NEW w \in Workers, worker[w].pc = "agent", Core', Local(w), Grows, tasks' = tasks,
         TurnsOffered', worker'[w] = worker[w], OnTrack(w)',
         \A c \in Calls : calls'[c].status # "absent" =>
           calls[c].status # "absent" \/ Told(c)'
  PROVE  Story'
  <1>1. \A t \in Tasks, o \in Outputs : ~Returns(w, t, o)'
    BY DEF Returns
  <1>2. QED
    BY <1>1, StoryFrom

\* The process stays in the loop, at l, in a step with a saved turn.
LEMMA InTurnOnTrack ==
  ASSUME IInv, NEW w \in Workers, worker[w].pc = "agent", Grows, worker'[w] = worker[w],
         NEW t \in Tasks, t = worker[w].task, NEW l \in Loop, loop'[w] = l,
         l.step = loop[w].step, l.pc \in InTurn, l.step \in Steps,
         l.turn \in Turns[t][l.step], l.turn = turns'[t][l.step],
         IF l.turn.calls = <<>> THEN l.index = 1 /\ l.pc = "call"
                                ELSE l.index \in 1..Len(l.turn.calls),
         \A i \in 1..(l.index - 1) : calls'[CallId(t, l.step, l.turn, i)].status = "succeeded",
         l.pc \in {"handler", "effected"} =>
           calls'[CallId(t, l.step, l.turn, l.index)].status = "running"
  PROVE  OnTrack(w)'
  <1>1. \A n \in 0..(l.step - 1) : n \in Steps
    BY StepsBefore
  <1>2. \A n \in 0..(l.step - 1) : StepDone(t, n)
    BY DEF IInv, Story, OnTrack
  <1>3. \A n \in 0..(l.step - 1) : StepDone(t, n)'
    BY <1>1, <1>2, DoneStays DEF IInv, Story
  <1>4. l.turn # None /\ l.step < MaxSteps
    BY Offered, StepNumbers
  <1>5. worker'[w].task = t
    OBVIOUS
  <1>6. CallOf(w)' = CallId(t, l.step, l.turn, l.index)
    BY <1>5 DEF CallOf, CallId
  <1>7. l.pc \in {"claim", "handler", "effected"} => l.turn.calls # <<>>
    OBVIOUS
  <1>8. l.pc \in {"handler", "effected"} => calls'[CallOf(w)'].status = "running"
    BY <1>6
  <1>9. worker'[w].pc = "agent" /\ loop'[w].pc \notin {"ask", "save"}
    BY DEF InTurn
  <1>10. QED
    BY <1>3, <1>4, <1>5, <1>7, <1>8, <1>9 DEF OnTrack, InTurn

\* The process comes to the next call of its turn, or to the next step, after the
\* call it made has succeeded.
LEMMA AdvanceOnTrack ==
  ASSUME IInv, NEW w \in Workers, worker[w].pc = "agent", loop[w].pc \in {"claim", "effected"},
         Grows, worker'[w] = worker[w], loop'[w] = Advanced(loop[w]), turns' = turns,
         calls'[CallOf(w)].status = "succeeded"
  PROVE  OnTrack(w)'
  <1> DEFINE l == loop[w]
             n == Len(l.turn.calls)
  <1>1. PICK t \in Tasks : t = worker[w].task
    BY AtTurn
  <1>2. /\ l \in Loop /\ l.step \in Steps /\ l.turn \in Turns[t][l.step]
        /\ l.turn = turns[t][l.step] /\ l.pc \in InTurn
    BY <1>1, AtTurn DEF InTurn
  <1>3. l.turn.calls # <<>>
    BY DEF IInv, Story, OnTrack
  <1>4. l.index \in 1..n /\ CallOf(w) = CallId(t, l.step, l.turn, l.index)
    BY <1>1, <1>2, <1>3, AtTurn DEF CallOf
  <1>5. /\ n \in Nat /\ l.index \in Nat /\ l.turn # None
        /\ \A i \in 1..n : CallId(t, l.step, l.turn, i) \in Calls
    <2>1. n \in Nat /\ l.turn # None
      BY <1>2, Offered
    <2>2. \A i \in 1..n : CallId(t, l.step, l.turn, i) \in Calls
      BY <1>2, Offered
    <2>3. QED
      BY <1>4, <2>1, <2>2
  <1>6. \A i \in 1..(l.index - 1) : calls[CallId(t, l.step, l.turn, i)].status = "succeeded"
    BY <1>1, <1>2 DEF IInv, Story, OnTrack, InTurn
  <1>7. \A i \in 1..l.index : calls'[CallId(t, l.step, l.turn, i)].status = "succeeded"
    <2> SUFFICES ASSUME NEW i \in 1..l.index
                 PROVE  calls'[CallId(t, l.step, l.turn, i)].status = "succeeded"
      OBVIOUS
    <2>1. CASE i = l.index
      BY <1>4, <2>1
    <2>2. CASE i # l.index
      <3>1. i \in 1..(l.index - 1) /\ i \in 1..n
        BY <1>4, <1>5, <2>2
      <3>2. QED
        BY <1>5, <1>6, <3>1 DEF Grows
    <2>3. QED
      BY <2>1, <2>2
  <1>8. CASE l.index < n
    <2> DEFINE m == [l EXCEPT !.pc = "call", !.index = @ + 1, !.attempt = 0]
    <2>1. /\ m \in Loop /\ m.pc = "call" /\ m.index = l.index + 1 /\ m.step = l.step
          /\ m.turn = l.turn
      <3>1. l.index + 1 \in Nat /\ 0 \in Nat
        BY <1>5
      <3>2. QED
        BY <1>2, <3>1 DEF Loop
    <2>2. loop'[w] = m
      BY <1>8 DEF Advanced
    <2> HIDE DEF m
    <2>3. m.index \in 1..Len(m.turn.calls) /\ m.pc \in InTurn
      BY <1>4, <1>5, <1>8, <2>1 DEF InTurn
    <2>4. \A i \in 1..(m.index - 1) : calls'[CallId(t, m.step, m.turn, i)].status = "succeeded"
      BY <1>5, <1>7, <2>1
    <2>5. m.turn = turns'[t][m.step] /\ m.turn \in Turns[t][m.step] /\ m.step \in Steps
      BY <1>2, <2>1
    <2>6. QED
      BY <1>1, <1>3, <2>1, <2>2, <2>3, <2>4, <2>5, InTurnOnTrack
  <1>9. CASE ~(l.index < n)
    <2>0. PICK s \in Steps : s = l.step
      BY <1>2
    <2>1. loop'[w] = [Fresh EXCEPT !.step = s + 1] /\ l.index = n
      BY <1>4, <1>5, <1>9, <2>0 DEF Advanced
    <2>2. /\ loop'[w].pc = "ask" /\ loop'[w].index = 1 /\ loop'[w].step = s + 1
      BY <2>1 DEF Fresh
    <2>4. turns'[t][s] = l.turn /\ s \in Nat
      BY <1>2, <2>0, StepNumbers
    <2>5. StepDone(t, s)'
      <3>1. \A i \in 1..n : calls'[CallId(t, s, l.turn, i)].status = "succeeded"
        BY <1>7, <2>0, <2>1
      <3>2. \A i \in 1..Len(turns'[t][s].calls) :
              calls'[CallId(t, s, turns'[t][s], i)].status = "succeeded"
        BY <2>4, <3>1
      <3>3. turns'[t][s] # None /\ turns'[t][s].calls # <<>>
        BY <1>3, <1>5, <2>4
      <3>4. QED
        BY <3>2, <3>3 DEF StepDone, CallId
    <2>6. \A k \in 0..(s - 1) : k \in Steps /\ StepDone(t, k)
      BY <1>1, <1>2, <2>0, StepNumbers DEF IInv, Story, OnTrack
    <2>7. \A k \in 0..(s - 1) : StepDone(t, k)'
      BY <2>6, DoneStays DEF IInv, Story
    <2>8. \A k \in 0..((s + 1) - 1) : k = s \/ k \in 0..(s - 1)
      BY <2>4
    <2>9. \A k \in 0..(loop'[w].step - 1) : StepDone(t, k)'
      <3>1. loop'[w].step - 1 = (s + 1) - 1
        BY <2>2
      <3>2. SUFFICES ASSUME NEW k \in 0..((s + 1) - 1) PROVE StepDone(t, k)'
        BY <3>1
      <3>3. CASE k = s
        BY <2>5, <3>3
      <3>4. CASE k \in 0..(s - 1)
        BY <2>7, <3>4
      <3>5. QED
        BY <2>8, <3>3, <3>4
    <2>10. worker'[w].task = t
      BY <1>1
    <2>11. QED
      BY <2>2, <2>9, <2>10 DEF OnTrack
  <1>10. QED
    BY <1>8, <1>9

LEMMA AdvancedType ==
  ASSUME IInv, NEW w \in Workers, worker[w].pc = "agent", loop[w].pc \in InTurn
  PROVE  Advanced(loop[w]) \in Loop
  <1> DEFINE l == loop[w]
  <1>1. l \in Loop /\ l.step \in Steps
    BY AtTurn
  <1>2. l.step + 1 \in 0..MaxSteps
    BY <1>1, StepNumbers
  <1>3. [Fresh EXCEPT !.step = l.step + 1] \in Loop
    BY <1>2, FreshType DEF Fresh, Loop
  <1>4. l.index + 1 \in Nat /\ 0 \in Nat
    BY <1>1 DEF Loop
  <1>5. [l EXCEPT !.pc = "call", !.index = @ + 1, !.attempt = 0] \in Loop
    BY <1>1, <1>4 DEF Loop
  <1>6. QED
    BY <1>3, <1>5 DEF Advanced

\* The tables after a step that changes one row of the ledger, or none.
LEMMA RowChange ==
  ASSUME IInv, NEW w \in Workers, worker[w].pc = "agent",
         NEW c \in Calls, c.task = worker[w].task, Told(c),
         NEW row \in Gateway!Row, row.lease # "none" <=> row.status = "running",
         calls' = [calls EXCEPT ![c] = row],
         calls[c].status = "succeeded" => row.status = "succeeded",
         turns' = turns, effects' \in [Calls -> Nat],
         \A v \in Workers : v # w => worker'[v] = worker[v] /\ loop'[v] = loop[v]
  PROVE  /\ TablesType' /\ Grows /\ Local(w) /\ TurnsOffered' /\ calls'[c] = row
         /\ \A d \in Calls : calls'[d].status # "absent" =>
              calls[d].status # "absent" \/ Told(d)'
  <1>1. /\ calls \in [Calls -> Gateway!Row]
        /\ \A d \in Calls : calls[d].lease # "none" <=> calls[d].status = "running"
    BY DEF IInv, TablesType, Gateway!LedgerType
  <1>2. calls'[c] = row /\ \A d \in Calls : d # c => calls'[d] = calls[d]
    BY <1>1
  <1>3. Gateway!LedgerType'
    BY <1>1, <1>2 DEF Gateway!LedgerType
  <1>4. TablesType'
    BY <1>3 DEF IInv, TablesType
  <1>5. Grows
    BY <1>2 DEF Grows
  <1>6. Local(w)
    BY <1>2 DEF Local
  <1>7. TurnsOffered'
    BY DEF IInv, Story, TurnsOffered
  <1>8. Told(c)'
    BY <1>5, ToldStays
  <1>9. QED
    BY <1>2, <1>4, <1>5, <1>6, <1>7, <1>8

LEMMA TablesStay ==
  ASSUME IInv, NEW w \in Workers, UNCHANGED <<calls, turns>>, effects' \in [Calls -> Nat],
         \A v \in Workers : v # w => worker'[v] = worker[v] /\ loop'[v] = loop[v]
  PROVE  TablesType' /\ Grows /\ Local(w) /\ TurnsOffered'
  <1>1. TablesType'
    BY DEF IInv, TablesType, Gateway!LedgerType
  <1>2. QED
    BY <1>1 DEF Grows, Local, IInv, Story, TurnsOffered

\* A process with a call of its turn at hand.
LEMMA AtCall ==
  ASSUME IInv, NEW w \in Workers, loop[w].pc \in InTurn,
         loop[w].pc # "call" \/ loop[w].turn.calls # <<>>
  PROVE  /\ worker[w].pc = "agent" /\ worker[w].task \in Tasks
         /\ loop[w] \in Loop /\ loop[w].step \in Steps
         /\ loop[w].turn \in Turns[worker[w].task][loop[w].step]
         /\ loop[w].turn = turns[worker[w].task][loop[w].step]
         /\ loop[w].turn.calls # <<>>
         /\ loop[w].index \in 1..Len(loop[w].turn.calls)
         /\ CallOf(w) = CallId(worker[w].task, loop[w].step, loop[w].turn, loop[w].index)
         /\ CallOf(w) \in Calls /\ CallOf(w).task = worker[w].task /\ Told(CallOf(w))
         /\ \A i \in 1..(loop[w].index - 1) :
              calls[CallId(worker[w].task, loop[w].step, loop[w].turn, i)].status = "succeeded"
         /\ loop[w].pc \in {"handler", "effected"} => calls[CallOf(w)].status = "running"
  <1>1. worker[w].pc = "agent"
    BY DEF IInv, LoopType, Fresh, InTurn
  <1>2. OnTrack(w)
    BY DEF IInv, Story
  <1>3. loop[w].turn.calls # <<>>
    BY <1>1, <1>2 DEF OnTrack, InTurn
  <1>4. \A i \in 1..(loop[w].index - 1) :
          calls[CallId(worker[w].task, loop[w].step, loop[w].turn, i)].status = "succeeded"
    BY <1>1, <1>2 DEF OnTrack, InTurn
  <1>5. loop[w].pc \in {"handler", "effected"} => calls[CallOf(w)].status = "running"
    BY <1>1, <1>2 DEF OnTrack
  <1>6. QED
    BY <1>1, <1>3, <1>4, <1>5, AtTurn DEF CallOf

\* The steps behind a process stay behind it.
LEMMA BehindStays ==
  ASSUME IInv, NEW w \in Workers, worker[w].pc = "agent", Grows,
         NEW t \in Tasks, t = worker[w].task
  PROVE  \A n \in 0..(loop[w].step - 1) : StepDone(t, n)'
  <1>1. PICK s \in 0..MaxSteps : s = loop[w].step
    BY AtTurn
  <1>2. \A n \in 0..(s - 1) : n \in Steps /\ StepDone(t, n)
    BY <1>1, StepNumbers DEF IInv, Story, OnTrack
  <1>3. \A n \in 0..(s - 1) : StepDone(t, n)'
    BY <1>2, DoneStays DEF IInv, Story
  <1>4. QED
    BY <1>1, <1>3

\* A step that leaves the tables of the store and the ledger alone.
LEMMA QuietTables ==
  ASSUME IInv, UNCHANGED <<storeVars, calls>>
  PROVE  /\ UNCHANGED <<workflow, tasks, artifacts>> /\ tasks' = tasks /\ ApprovalsType'
         /\ \A c \in Calls : calls'[c].status # "absent" => calls[c].status # "absent"
  BY Records DEF IInv, ApprovalsType, storeVars

LEMMA RaiseKeeps ==
  ASSUME IInv, NEW w \in Workers, worker[w].pc \in {"agent", "finish"},
         NEW r \in BOOLEAN, Raises(w, r),
         UNCHANGED <<storeVars, aborts, calls, effects, turns>>
  PROVE  IInv'
  <1>1. /\ Core' /\ LoopType' /\ worker'[w].pc = "fail"
        /\ \A v \in Workers : v # w => worker'[v] = worker[v] /\ loop'[v] = loop[v]
    BY QuietTables, RaisesMoves
  <1>2. effects' \in [Calls -> Nat]
    BY DEF IInv, TablesType
  <1>3. TablesType' /\ Grows /\ Local(w) /\ TurnsOffered'
    BY <1>1, <1>2, TablesStay
  <1>4. Story'
    BY <1>1, <1>3, QuietTables, LeaveStory
  <1>5. QED
    BY <1>1, <1>3, <1>4 DEF IInv

LEMMA StayKeeps ==
  ASSUME IInv, NEW w \in Workers, worker[w].pc = "agent", NEW l \in Loop, Becomes(w, l),
         UNCHANGED <<storeVars, aborts, calls, turns>>, effects' \in [Calls -> Nat],
         OnTrack(w)'
  PROVE  IInv'
  <1>1. /\ Core' /\ LoopType' /\ worker'[w] = worker[w]
        /\ \A v \in Workers : v # w => worker'[v] = worker[v] /\ loop'[v] = loop[v]
    BY QuietTables, BecomesMoves
  <1>2. TablesType' /\ Grows /\ Local(w) /\ TurnsOffered'
    BY <1>1, TablesStay
  <1>3. Story'
    BY <1>1, <1>2, QuietTables, StayStory
  <1>4. QED
    BY <1>1, <1>2, <1>3 DEF IInv

LEMMA SameGrows ==
  ASSUME UNCHANGED <<calls, turns>>
  PROVE  Grows
  BY DEF Grows

LEMMA AskKeeps ==
  ASSUME IInv, NEW w \in Workers, Ask(w)
  PROVE  IInv'
  <1> DEFINE l == loop[w]
  <1>1. /\ worker[w].pc = "agent" /\ l.pc = "ask" /\ Grows
        /\ UNCHANGED <<storeVars, aborts, calls, effects, turns>>
        /\ effects' \in [Calls -> Nat]
    BY SameGrows DEF Ask, In, IInv, TablesType
  <1>2. PICK t \in Tasks : t = worker[w].task
    BY <1>1, AtTurn
  <1>3. l \in Loop /\ l.step \in 0..MaxSteps /\ l.index = 1
    <2>1. OnTrack(w)
      BY DEF IInv, Story
    <2>2. QED
      BY <1>1, <2>1, AtTurn DEF OnTrack
  <1>4. worker' = worker => worker'[w] = worker[w]
    OBVIOUS
  <1>5. CASE \E r \in BOOLEAN : Raises(w, r)
    BY <1>1, <1>5, RaiseKeeps
  <1>6. CASE /\ l.step < MaxSteps /\ turns[t][l.step] # None
             /\ Becomes(w, [l EXCEPT !.pc = "call", !.turn = turns[t][l.step]])
    <2> DEFINE m == [l EXCEPT !.pc = "call", !.turn = turns[t][l.step]]
    <2>1. l.step \in Steps
      BY <1>3, <1>6, StepNumbers
    <2>2. turns[t][l.step] \in Turns[t][l.step]
      BY <1>6, <2>1 DEF IInv, Story, TurnsOffered
    <2>3. turns[t][l.step] \in AnyTurn
      BY <2>1, <2>2, Offered
    <2>4. m \in Loop
      BY <1>3, <2>3 DEF Loop
    <2>5. m.pc = "call" /\ m.turn = turns[t][l.step] /\ m.step = l.step /\ m.index = 1
      BY <1>3 DEF Loop
    <2>6. Becomes(w, m)
      BY <1>6
    <2> HIDE DEF m
    <2>7. loop'[w] = m /\ worker'[w] = worker[w]
      BY <1>1, <2>4, <2>6, QuietTables, BecomesMoves
    <2>8. /\ m.step \in Steps /\ m.turn \in Turns[t][m.step] /\ m.turn = turns'[t][m.step]
          /\ m.pc \in InTurn /\ m.pc \notin {"handler", "effected"}
      BY <1>1, <2>1, <2>2, <2>5 DEF InTurn
    <2>9. m.turn.calls # <<>> => m.index \in 1..Len(m.turn.calls)
      <3>1. m.turn.calls # <<>> => Len(m.turn.calls) \in Nat /\ Len(m.turn.calls) >= 1
        BY <2>8, Offered
      <3>2. QED
        BY <2>5, <3>1
    <2>10. \A i \in 1..(m.index - 1) : FALSE
      BY <2>5
    <2>11. OnTrack(w)'
      BY <1>1, <1>2, <2>4, <2>5, <2>7, <2>8, <2>9, <2>10, InTurnOnTrack
    <2>12. QED
      BY <1>1, <2>4, <2>6, <2>11, StayKeeps
  <1>7. CASE /\ l.step < MaxSteps /\ turns[t][l.step] = None
             /\ \E turn \in Turns[t][l.step] : Becomes(w, Decision(l, turn))
    <2>1. l.step \in Steps
      BY <1>3, <1>7, StepNumbers
    <2>2. PICK turn \in Turns[t][l.step] : Becomes(w, Decision(l, turn))
      BY <1>7
    <2> DEFINE m == [l EXCEPT !.pc = "save", !.turn = turn]
    <2>3. turn \in AnyTurn
      BY <2>1, <2>2, Offered
    <2>4. m \in Loop
      BY <1>3, <2>3 DEF Loop
    <2>5. m.pc = "save" /\ m.turn = turn /\ m.step = l.step /\ m.index = 1
      BY <1>3 DEF Loop
    <2>6. Becomes(w, m)
      BY <2>2 DEF Decision
    <2> HIDE DEF m
    <2>7. loop'[w] = m /\ worker'[w] = worker[w]
      BY <1>1, <2>4, <2>6, QuietTables, BecomesMoves
    <2>8. \A n \in 0..(l.step - 1) : StepDone(t, n)'
      BY <1>1, <1>2, BehindStays
    <2>9. worker'[w].task = t /\ turns'[t][m.step] = None /\ m.step < MaxSteps
          /\ m.turn \in Turns[t][m.step]
      BY <1>1, <1>2, <1>7, <2>5, <2>7
    <2>10. OnTrack(w)'
      BY <2>5, <2>7, <2>8, <2>9 DEF OnTrack
    <2>11. QED
      BY <1>1, <2>4, <2>6, <2>10, StayKeeps
  <1>8. QED
    BY <1>2, <1>5, <1>6, <1>7 DEF Ask

LEMMA SaveKeeps ==
  ASSUME IInv, NEW w \in Workers, SaveStep(w)
  PROVE  IInv'
  <1> DEFINE l == loop[w]
             m == [l EXCEPT !.pc = "call"]
  <1>1. /\ worker[w].pc = "agent" /\ l.pc = "save"
        /\ UNCHANGED <<storeVars, aborts, calls, effects>> /\ Becomes(w, m)
    BY DEF SaveStep, In
  <1>2. PICK t \in Tasks : t = worker[w].task
    BY <1>1, AtTurn
  <1>3. l \in Loop
    BY <1>1, AtTurn
  <1>4. /\ l.step < MaxSteps /\ l.index = 1
        /\ l.turn \in Turns[t][l.step] /\ turns[t][l.step] = None
    BY <1>1, <1>2 DEF IInv, Story, OnTrack
  <1>5. l.step \in Steps
    BY <1>3, <1>4, StepNumbers DEF Loop
  <1>6. m \in Loop /\ m.pc = "call" /\ m.step = l.step /\ m.turn = l.turn /\ m.index = 1
    BY <1>3, <1>4 DEF Loop
  <1> HIDE DEF m
  <1>7. turns \in [Tasks -> [Steps -> AnyTurn \cup {None}]]
    BY DEF IInv, TablesType
  <1>8. turns' = [turns EXCEPT ![t][l.step] = l.turn]
    BY <1>2, <1>4, <1>5, <1>7 DEF SaveStep
  <1>9. l.turn \in AnyTurn /\ l.turn # None
    BY <1>4, <1>5, Offered
  <1>10. /\ turns' \in [Tasks -> [Steps -> AnyTurn \cup {None}]]
         /\ turns'[t][l.step] = l.turn
         /\ \A u \in Tasks : u # t => turns'[u] = turns[u]
         /\ \A n \in Steps : n # l.step => turns'[t][n] = turns[t][n]
    BY <1>5, <1>7, <1>8, <1>9
  <1>11. /\ Core' /\ LoopType' /\ worker'[w] = worker[w] /\ loop'[w] = m
         /\ \A v \in Workers : v # w => worker'[v] = worker[v] /\ loop'[v] = loop[v]
    BY <1>1, <1>6, QuietTables, BecomesMoves
  <1>12. Grows
    BY <1>1, <1>4, <1>10 DEF Grows
  <1>13. Local(w)
    BY <1>1, <1>2, <1>10, <1>11 DEF Local
  <1>14. TurnsOffered'
    <2> SUFFICES ASSUME NEW u \in Tasks, NEW n \in Steps, turns'[u][n] # None
                 PROVE  turns'[u][n] \in Turns[u][n]
      BY DEF TurnsOffered
    <2>1. CASE u = t /\ n = l.step
      BY <1>4, <1>10, <2>1
    <2>2. CASE ~(u = t /\ n = l.step)
      BY <1>10, <2>2 DEF IInv, Story, TurnsOffered
    <2>3. QED
      BY <2>1, <2>2
  <1>15. TablesType'
    BY <1>1, <1>10 DEF IInv, TablesType, Gateway!LedgerType
  <1>16. m.turn.calls # <<>> => m.index \in 1..Len(m.turn.calls)
    <2>1. m.turn.calls # <<>> => Len(m.turn.calls) \in Nat /\ Len(m.turn.calls) >= 1
      BY <1>4, <1>5, <1>6, Offered
    <2>2. QED
      BY <1>6, <2>1
  <1>17. /\ m.step \in Steps /\ m.turn \in Turns[t][m.step] /\ m.turn = turns'[t][m.step]
         /\ m.pc \in InTurn /\ m.pc \notin {"handler", "effected"}
         /\ \A i \in 1..(m.index - 1) : FALSE
    BY <1>4, <1>5, <1>6, <1>10 DEF InTurn
  <1>18. OnTrack(w)'
    BY <1>1, <1>2, <1>6, <1>11, <1>12, <1>16, <1>17, InTurnOnTrack
  <1>19. Story'
    BY <1>1, <1>11, <1>12, <1>13, <1>14, <1>18, QuietTables, StayStory
  <1>20. QED
    BY <1>11, <1>15, <1>19 DEF IInv

LEMMA ReturnKeeps ==
  ASSUME IInv, NEW w \in Workers, AgentReturns(w)
  PROVE  IInv'
  <1> DEFINE l == loop[w]
  <1>1. /\ worker[w].pc = "agent" /\ l.pc = "call" /\ l.turn.calls = <<>> /\ Grows
        /\ UNCHANGED <<storeVars, aborts, calls, effects, turns>>
        /\ effects' \in [Calls -> Nat]
    BY SameGrows DEF AgentReturns, In, IInv, TablesType
  <1>2. PICK t \in Tasks : t = worker[w].task
    BY <1>1, AtTurn
  <1>3. PICK s \in Steps : s = l.step
    BY <1>1, AtTurn DEF InTurn
  <1>4. l.turn \in Turns[t][s] /\ l.turn = turns[t][s]
    BY <1>1, <1>2, <1>3, AtTurn DEF InTurn
  <1>5. l.turn \in Turn /\ l.turn.text # None
    BY <1>1, <1>4, Offered
  <1>6. l.turn = [calls |-> <<>>, text |-> l.turn.text] /\ l.turn.text \in Texts
    BY <1>1, <1>5 DEF Turn
  <1> DEFINE o == [text |-> l.turn.text, steps |-> s + 1]
             rec == [worker[w] EXCEPT !.pc = "finish", !.output = o]
  <1>7. s \in Nat /\ s + 1 \in 1..MaxSteps
    BY <1>3, StepNumbers
  <1>8. o \in Outputs /\ o # None
    <2>1. o \in [text: Texts, steps: 1..MaxSteps]
      BY <1>6, <1>7
    <2>2. o \in Outputs
      BY <2>1, HarnessAssumption
    <2>3. QED
      BY <2>2, StoreAssumption
  <1>9. worker' = [worker EXCEPT ![w] = rec] /\ loop' = [loop EXCEPT ![w] = Fresh]
    BY <1>3 DEF AgentReturns
  <1>10. o.steps = s + 1 /\ o.text = l.turn.text
    OBVIOUS
  <1> HIDE DEF o
  <1>11. worker[w] \in Orch!Worker
    BY Records DEF IInv
  <1>12. rec \in Orch!Worker /\ rec.pc = "finish" /\ rec.output = o /\ rec.task = worker[w].task
    BY <1>8, <1>11 DEF Orch!Worker, Orch!Executing
  <1> HIDE DEF rec
  <1>13. /\ Core' /\ LoopType' /\ worker'[w] = rec
         /\ \A v \in Workers : v # w => worker'[v] = worker[v] /\ loop'[v] = loop[v]
    BY <1>1, <1>8, <1>9, <1>12, FreshType, QuietTables, LoopMoves DEF ApprovalsType
  <1>14. TablesType' /\ Local(w) /\ TurnsOffered'
    BY <1>1, <1>13, TablesStay
  <1>15. OnTrack(w)'
    BY <1>12, <1>13 DEF OnTrack
  <1>16. ASSUME NEW u \in Tasks, NEW p \in Outputs, Returns(w, u, p)' PROVE BackedUp(u, p)'
    <2>1. u = t /\ p = o
      BY <1>2, <1>12, <1>13, <1>16 DEF Returns
    <2>2. p.steps = s + 1 /\ p.text = l.turn.text
      BY <1>10, <2>1
    <2>3. turns'[t][p.steps - 1] = [calls |-> <<>>, text |-> p.text]
      <3>1. p.steps - 1 = s
        BY <1>7, <2>2
      <3>2. QED
        BY <1>1, <1>4, <1>6, <2>2, <3>1
    <2>4. \A n \in 0..(s - 1) : StepDone(t, n)'
      BY <1>1, <1>2, <1>3, BehindStays
    <2>5. p.steps - 2 = s - 1
      BY <1>7, <2>2
    <2>6. \A n \in 0..(p.steps - 2) : StepDone(t, n)'
      BY <2>4, <2>5
    <2>7. BackedUp(t, p)'
      BY <2>3, <2>6 DEF BackedUp
    <2>8. QED
      BY <2>1, <2>7
  <1>17. Story'
    BY <1>1, <1>13, <1>14, <1>15, <1>16, QuietTables, StoryFrom
  <1>18. QED
    BY <1>13, <1>14, <1>17 DEF IInv

\* The row and the approval of the call a process asks leave for.
LEMMA AskedRow ==
  ASSUME IInv, NEW w \in Workers, Authorize(w)
  PROVE  /\ \/ calls' = calls
            \/ /\ calls[CallOf(w)].status = "absent"
               /\ \E row \in Gateway!Row :
                    /\ row.status = "waiting_approval" /\ row.lease = "none"
                    /\ calls' = [calls EXCEPT ![CallOf(w)] = row]
         /\ ApprovalsType'
  <1> DEFINE c == CallOf(w)
             row == [Gateway!NoRow EXCEPT !.status = "waiting_approval",
                                          !.session = "session", !.args = "arguments"]
  <1>1. c \in Calls /\ calls \in [Calls -> Gateway!Row]
    BY AtCall DEF Authorize, In, InTurn, IInv, TablesType, Gateway!LedgerType
  <1>2. row \in Gateway!Row /\ row.status = "waiting_approval" /\ row.lease = "none"
    BY DEF Gateway!Row, Gateway!NoRow, Gateway!ToolCallStatus
  <1>3. \/ calls' = calls
        \/ calls' = [calls EXCEPT ![c] = IF @.status = "absent" THEN row ELSE @]
    BY DEF Authorize, Gateway!RequestApproval, RequestOf
  <1> HIDE DEF c, row
  <1>4. \/ calls' = calls
        \/ calls[c].status = "absent" /\ calls' = [calls EXCEPT ![c] = row]
    BY <1>1, <1>3
  <1>5. approvals \in [Calls -> Orch!ApprovalStatus \cup {"absent"}]
    BY Records DEF IInv
  <1>6. approvals' = approvals \/ RequestApproval(c)
    BY DEF Authorize, c
  <1>7. ApprovalsType'
    BY <1>1, <1>5, <1>6 DEF ApprovalsType, RequestApproval, Orch!ApprovalStatus
  <1>8. QED
    BY <1>2, <1>4, <1>7 DEF c

LEMMA AuthorizeKeeps ==
  ASSUME IInv, NEW w \in Workers, Authorize(w)
  PROVE  IInv'
  <1> DEFINE l == loop[w]
  <1>1. /\ l.pc = "call" /\ l.turn.calls # <<>> /\ l.pc \in InTurn
        /\ UNCHANGED <<workflow, tasks, artifacts, aborts, effects, turns>>
        /\ effects' \in [Calls -> Nat] /\ tasks' = tasks
    BY DEF Authorize, In, InTurn, IInv, TablesType
  <1>2. PICK t \in Tasks : t = worker[w].task
    BY <1>1, AtCall
  <1>3. PICK c \in Calls : c = CallOf(w)
    BY <1>1, AtCall
  <1>4. worker[w].pc = "agent" /\ c.task = worker[w].task /\ Told(c)
    BY <1>1, <1>3, AtCall
  <1>5. ASSUME \A v \in Workers : v # w => worker'[v] = worker[v] /\ loop'[v] = loop[v]
        PROVE  /\ TablesType' /\ Grows /\ Local(w) /\ TurnsOffered'
               /\ \A d \in Calls : calls'[d].status # "absent" =>
                    calls[d].status # "absent" \/ Told(d)'
    <2>1. CASE calls' = calls
      BY <1>1, <1>5, <2>1, TablesStay
    <2>2. CASE \E row \in Gateway!Row :
                 /\ row.status = "waiting_approval" /\ row.lease = "none"
                 /\ calls[c].status = "absent" /\ calls' = [calls EXCEPT ![c] = row]
      BY <1>1, <1>4, <1>5, <2>2, RowChange
    <2>3. QED
      BY <1>3, <2>1, <2>2, AskedRow
  <1>6. CASE Becomes(w, [l EXCEPT !.pc = "claim"])
    <2> DEFINE m == [l EXCEPT !.pc = "claim"]
    <2>1. l \in Loop
      BY <1>1, AtCall
    <2>2. /\ m \in Loop /\ m.pc = "claim" /\ m.step = l.step /\ m.turn = l.turn
          /\ m.index = l.index
      BY <2>1 DEF Loop
    <2>3. Becomes(w, m)
      BY <1>6
    <2> HIDE DEF m
    <2>4. /\ Core' /\ LoopType' /\ worker'[w] = worker[w] /\ loop'[w] = m
          /\ \A v \in Workers : v # w => worker'[v] = worker[v] /\ loop'[v] = loop[v]
      BY <1>1, <1>4, <2>2, <2>3, AskedRow, BecomesMoves
    <2>5. /\ m.step \in Steps /\ m.turn \in Turns[t][m.step] /\ m.turn = turns'[t][m.step]
          /\ m.turn.calls # <<>> /\ m.index \in 1..Len(m.turn.calls)
          /\ m.pc \in InTurn /\ m.pc \notin {"handler", "effected"}
      BY <1>1, <1>2, <2>2, AtCall DEF InTurn
    <2>6. \A i \in 1..(m.index - 1) :
            calls'[CallId(t, m.step, m.turn, i)].status = "succeeded"
      <3> SUFFICES ASSUME NEW i \in 1..(m.index - 1)
                   PROVE  calls'[CallId(t, m.step, m.turn, i)].status = "succeeded"
        OBVIOUS
      <3>1. calls[CallId(t, m.step, m.turn, i)].status = "succeeded"
        BY <1>1, <1>2, <2>2, AtCall
      <3>2. Len(m.turn.calls) \in Nat
        BY <2>5, Offered
      <3>3. i \in 1..Len(m.turn.calls)
        BY <2>5, <3>2
      <3>4. CallId(t, m.step, m.turn, i) \in Calls
        BY <2>5, <3>3, Offered
      <3>5. QED
        BY <1>5, <2>4, <3>1, <3>4 DEF Grows
    <2>7. OnTrack(w)'
      BY <1>2, <1>4, <1>5, <2>2, <2>4, <2>5, <2>6, InTurnOnTrack
    <2>8. Story'
      BY <1>1, <1>4, <1>5, <2>4, <2>7, StayStory
    <2>9. QED
      BY <1>5, <2>4, <2>8 DEF IInv
  <1>7. CASE Orch!Goto(w, "wait") /\ loop' = [loop EXCEPT ![w] = Fresh]
    <2> DEFINE rec == [worker[w] EXCEPT !.pc = "wait"]
    <2>1. worker[w] \in Orch!Worker
      BY Records DEF IInv
    <2>2. rec \in Orch!Worker /\ rec.pc = "wait" /\ rec.task = worker[w].task
      BY <2>1 DEF Orch!Worker, Orch!Executing
    <2>3. worker' = [worker EXCEPT ![w] = rec]
      BY <1>7 DEF Orch!Goto
    <2> HIDE DEF rec
    <2>4. /\ Core' /\ LoopType' /\ worker'[w] = rec
          /\ \A v \in Workers : v # w => worker'[v] = worker[v] /\ loop'[v] = loop[v]
      BY <1>1, <1>4, <1>7, <2>2, <2>3, AskedRow, FreshType, LoopMoves DEF ApprovalsType
    <2>5. Story'
      BY <1>1, <1>4, <1>5, <2>2, <2>4, LeaveStory
    <2>6. QED
      BY <1>5, <2>4, <2>5 DEF IInv
  <1>8. CASE Raises(w, FALSE)
    <2>1. /\ Core' /\ LoopType' /\ worker'[w].pc = "fail"
          /\ \A v \in Workers : v # w => worker'[v] = worker[v] /\ loop'[v] = loop[v]
      BY <1>1, <1>4, <1>8, AskedRow, RaisesMoves
    <2>2. Story'
      BY <1>1, <1>4, <1>5, <2>1, LeaveStory
    <2>3. QED
      BY <1>5, <2>1, <2>2 DEF IInv
  <1>9. QED
    BY <1>6, <1>7, <1>8 DEF Authorize

\* A process comes to stand at l, in its turn, after the row of its call changed.
LEMMA RowStay ==
  ASSUME IInv, NEW w \in Workers, worker[w].pc = "agent", tasks' = tasks,
         UNCHANGED <<workflow, tasks, artifacts, aborts>>, ApprovalsType',
         NEW c \in Calls, c.task = worker[w].task, Told(c),
         NEW row \in Gateway!Row, row.lease # "none" <=> row.status = "running",
         calls' = [calls EXCEPT ![c] = row],
         calls[c].status = "succeeded" => row.status = "succeeded",
         turns' = turns, effects' \in [Calls -> Nat],
         NEW l \in Loop, Becomes(w, l), OnTrack(w)'
  PROVE  IInv'
  <1>1. /\ Core' /\ LoopType' /\ worker'[w] = worker[w]
        /\ \A v \in Workers : v # w => worker'[v] = worker[v] /\ loop'[v] = loop[v]
    BY BecomesMoves
  <1>2. /\ TablesType' /\ Grows /\ Local(w) /\ TurnsOffered'
        /\ \A d \in Calls : calls'[d].status # "absent" =>
             calls[d].status # "absent" \/ Told(d)'
    BY <1>1, RowChange
  <1>3. Story'
    BY <1>1, <1>2, StayStory
  <1>4. QED
    BY <1>1, <1>2, <1>3 DEF IInv

\* The same for a process that leaves the loop.
LEMMA RowLeave ==
  ASSUME IInv, NEW w \in Workers, worker[w].pc = "agent", tasks' = tasks,
         UNCHANGED <<workflow, tasks, artifacts, aborts>>, ApprovalsType',
         NEW c \in Calls, c.task = worker[w].task, Told(c),
         NEW row \in Gateway!Row, row.lease # "none" <=> row.status = "running",
         calls' = [calls EXCEPT ![c] = row],
         calls[c].status # "succeeded",
         turns' = turns, effects' \in [Calls -> Nat],
         NEW r \in BOOLEAN, Raises(w, r)
  PROVE  IInv'
  <1>1. /\ Core' /\ LoopType' /\ worker'[w].pc = "fail"
        /\ \A v \in Workers : v # w => worker'[v] = worker[v] /\ loop'[v] = loop[v]
    BY RaisesMoves
  <1>2. /\ TablesType' /\ Grows /\ Local(w) /\ TurnsOffered'
        /\ \A d \in Calls : calls'[d].status # "absent" =>
             calls[d].status # "absent" \/ Told(d)'
    BY <1>1, RowChange
  <1>3. Story'
    BY <1>1, <1>2, LeaveStory
  <1>4. QED
    BY <1>1, <1>2, <1>3 DEF IInv

\* A row that changes and has not succeeded leaves every success in place.
LEMMA RowGrows ==
  ASSUME IInv, NEW c \in Calls, NEW row, calls' = [calls EXCEPT ![c] = row], turns' = turns,
         calls[c].status = "succeeded" => row.status = "succeeded"
  PROVE  Grows /\ calls'[c] = row
  BY DEF IInv, TablesType, Gateway!LedgerType, Grows

\* The process stays with its call, at another point of it.
LEMMA SameCall ==
  ASSUME IInv, NEW w \in Workers, loop[w].pc \in {"claim", "handler"}, Grows,
         turns' = turns, NEW l \in Loop, Becomes(w, l), l.pc \in {"handler", "effected"},
         l.step = loop[w].step, l.turn = loop[w].turn, l.index = loop[w].index,
         calls'[CallOf(w)].status = "running"
  PROVE  OnTrack(w)'
  <1>1. loop[w].pc \in InTurn /\ loop[w].pc # "call" /\ l.pc \in InTurn
    BY DEF InTurn
  <1>2. PICK t \in Tasks : t = worker[w].task
    BY <1>1, AtCall
  <1>3. worker'[w] = worker[w] /\ loop'[w] = l
    BY DEF Becomes, IInv, LoopType
  <1>4. /\ l.step \in Steps /\ l.turn \in Turns[t][l.step] /\ l.turn = turns'[t][l.step]
        /\ l.turn.calls # <<>> /\ l.index \in 1..Len(l.turn.calls)
        /\ CallOf(w) = CallId(t, l.step, l.turn, l.index)
    BY <1>1, <1>2, AtCall
  <1>5. \A i \in 1..(l.index - 1) : calls'[CallId(t, l.step, l.turn, i)].status = "succeeded"
    <2> SUFFICES ASSUME NEW i \in 1..(l.index - 1)
                 PROVE  calls'[CallId(t, l.step, l.turn, i)].status = "succeeded"
      OBVIOUS
    <2>1. calls[CallId(t, l.step, l.turn, i)].status = "succeeded"
      BY <1>1, <1>2, AtCall
    <2>2. Len(l.turn.calls) \in Nat
      BY <1>4, Offered
    <2>3. i \in 1..Len(l.turn.calls)
      BY <1>4, <2>2
    <2>4. CallId(t, l.step, l.turn, i) \in Calls
      BY <1>4, <2>3, Offered
    <2>5. QED
      BY <2>1, <2>4 DEF Grows
  <1>6. worker[w].pc = "agent"
    BY <1>1, AtCall
  <1>7. calls'[CallId(t, l.step, l.turn, l.index)].status = "running"
    BY <1>4
  <1>8. QED
    BY <1>1, <1>2, <1>3, <1>4, <1>5, <1>6, <1>7, InTurnOnTrack

LEMMA LedgerRows ==
  ASSUME IInv
  PROVE  /\ calls \in [Calls -> Gateway!Row]
         /\ \A c \in Calls : calls[c].lease # "none" <=> calls[c].status = "running"
         /\ effects \in [Calls -> Nat]
  BY DEF IInv, TablesType, Gateway!LedgerType

LEMMA ClaimKeeps ==
  ASSUME IInv, NEW w \in Workers, Claim(w)
  PROVE  IInv'
  <1> DEFINE l == loop[w]
             r == RequestOf(w)
  <1>1. /\ l.pc = "claim" /\ l.pc \in InTurn
        /\ UNCHANGED <<storeVars, aborts, effects, turns>>
    BY DEF Claim, In, InTurn
  <1>2. PICK c \in Calls : c = CallOf(w)
    BY <1>1, AtCall
  <1>3. worker[w].pc = "agent" /\ c.task = worker[w].task /\ Told(c) /\ l \in Loop
    BY <1>1, <1>2, AtCall
  <1>4. r.call = c /\ r.session = "session" /\ r.args = "arguments"
    BY <1>2 DEF RequestOf
  <1>5. effects' \in [Calls -> Nat] /\ tasks' = tasks
        /\ UNCHANGED <<workflow, tasks, artifacts, aborts>> /\ ApprovalsType'
    BY <1>1, LedgerRows, Records DEF storeVars, IInv, ApprovalsType
  <1>6. CASE \E b \in BOOLEAN : Raises(w, b) /\ UNCHANGED calls
    BY <1>1, <1>3, <1>6, RaiseKeeps
  <1>7. CASE Gateway!ClaimVerdict(r) = "replay" /\ Becomes(w, Advanced(l)) /\ UNCHANGED calls
    <2>1. calls[c].status = "succeeded"
      BY <1>4, <1>7 DEF Gateway!ClaimVerdict
    <2>2. Advanced(l) \in Loop
      BY <1>1, <1>3, AdvancedType
    <2>3. worker'[w] = worker[w] /\ loop'[w] = Advanced(l)
      BY <1>7, <2>2 DEF Becomes, IInv, LoopType
    <2>4. calls'[CallOf(w)].status = "succeeded" /\ Grows
      BY <1>1, <1>2, <1>7, <2>1, SameGrows
    <2>5. OnTrack(w)'
      BY <1>1, <1>3, <2>3, <2>4, AdvanceOnTrack
    <2>6. QED
      BY <1>1, <1>3, <1>5, <1>7, <2>2, <2>5, StayKeeps
  <1>8. CASE /\ Gateway!ClaimVerdict(r) = "execute"
             /\ calls' = [calls EXCEPT ![c] = Gateway!Claimed(r)]
             /\ Becomes(w, [l EXCEPT !.pc = "handler", !.attempt = calls'[c].attempt])
    <2>1. PICK row : row = Gateway!Claimed(r)
      OBVIOUS
    <2>2. calls[c].status # "succeeded"
      BY <1>4, <1>8 DEF Gateway!ClaimVerdict
    <2>3. /\ calls[c] \in Gateway!Row /\ calls[c].attempt \in Nat /\ calls[c].result \in Nat
      BY LedgerRows DEF Gateway!Row
    <2>4. calls[c].attempt + 1 \in Nat
      BY <2>3
    <2>5. /\ row \in Gateway!Row /\ row.status = "running" /\ row.lease = "live"
          /\ row.attempt \in Nat
      BY <1>4, <2>1, <2>3, <2>4
         DEF Gateway!Claimed, Gateway!NextAttempt, Gateway!Row, Gateway!ToolCallStatus
    <2>6. calls' = [calls EXCEPT ![c] = row]
      BY <1>8, <2>1
    <2>7. Grows /\ calls'[c] = row
      BY <1>1, <2>2, <2>6, RowGrows
    <2> DEFINE m == [l EXCEPT !.pc = "handler", !.attempt = row.attempt]
    <2>8. /\ m \in Loop /\ m.pc = "handler" /\ m.step = l.step /\ m.turn = l.turn
          /\ m.index = l.index
      BY <1>3, <2>5 DEF Loop
    <2>9. Becomes(w, m)
      BY <1>8, <2>7
    <2> HIDE DEF m
    <2>10. calls'[CallOf(w)].status = "running"
      BY <1>2, <2>5, <2>7
    <2>11. OnTrack(w)'
      BY <1>1, <2>7, <2>8, <2>9, <2>10, SameCall
    <2>12. row.lease # "none" <=> row.status = "running"
      BY <2>5
    <2>13. turns' = turns
      BY <1>1
    <2>14. QED
      BY <1>3, <1>5, <2>2, <2>5, <2>6, <2>8, <2>9, <2>11, <2>12, <2>13, RowStay
  <1>9. QED
    BY <1>4, <1>6, <1>7, <1>8 DEF Claim

LEMMA EffectKeeps ==
  ASSUME IInv, NEW w \in Workers, HandlerEffect(w)
  PROVE  IInv'
  <1> DEFINE l == loop[w]
             m == [l EXCEPT !.pc = "effected"]
  <1>1. /\ l.pc = "handler" /\ l.pc \in InTurn /\ worker[w].pc = "agent"
        /\ UNCHANGED <<storeVars, aborts, calls, turns>> /\ Grows /\ Becomes(w, m)
    BY SameGrows DEF HandlerEffect, In, InTurn
  <1>2. PICK c \in Calls : c = CallOf(w)
    BY <1>1, AtCall
  <1>3. calls[c].status = "running" /\ l \in Loop
    BY <1>1, <1>2, AtCall
  <1>4. effects' = [effects EXCEPT ![c] = @ + 1]
    BY <1>2 DEF HandlerEffect
  <1>5. effects' \in [Calls -> Nat]
    BY <1>4, LedgerRows
  <1>6. /\ m \in Loop /\ m.pc = "effected" /\ m.step = l.step /\ m.turn = l.turn
        /\ m.index = l.index
    BY <1>3 DEF Loop
  <1> HIDE DEF m
  <1>7. OnTrack(w)'
    BY <1>1, <1>2, <1>3, <1>6, SameCall
  <1>8. QED
    BY <1>1, <1>5, <1>6, <1>7, StayKeeps

\* A record of the outcome fits the type of the row, and clears its lease.
LEMMA RecordedType ==
  ASSUME IInv, NEW c \in Calls, NEW s \in {"succeeded", "failed", "uncertain"}, NEW n \in Nat
  PROVE  LET row == Gateway!Recorded(calls[c], s, n)
         IN  row \in Gateway!Row /\ row.status = s /\ row.lease = "none"
  <1>1. calls[c] \in Gateway!Row
    BY LedgerRows
  <1>2. QED
    BY <1>1 DEF Gateway!Recorded, Gateway!Row, Gateway!ToolCallStatus

LEMMA SuccessKeeps ==
  ASSUME IInv, NEW w \in Workers, RecordSuccess(w)
  PROVE  IInv'
  <1> DEFINE l == loop[w]
  <1>1. /\ l.pc = "effected" /\ l.pc \in InTurn /\ worker[w].pc = "agent"
        /\ UNCHANGED <<storeVars, aborts, effects, turns>> /\ Becomes(w, Advanced(l))
    BY DEF RecordSuccess, In, InTurn
  <1>2. PICK c \in Calls : c = CallOf(w)
    BY <1>1, AtCall
  <1>3. c.task = worker[w].task /\ Told(c) /\ l \in Loop /\ l.attempt \in Nat
    BY <1>1, <1>2, AtCall DEF Loop
  <1>4. PICK row : row = Gateway!Recorded(calls[c], "succeeded", l.attempt)
    OBVIOUS
  <1>5. row \in Gateway!Row /\ row.status = "succeeded" /\ row.lease = "none"
    BY <1>3, <1>4, RecordedType
  <1>6. calls' = [calls EXCEPT ![c] = row]
    BY <1>2, <1>4 DEF RecordSuccess
  <1>7. Grows /\ calls'[c] = row /\ turns' = turns
    BY <1>1, <1>5, <1>6, RowGrows
  <1>8. effects' \in [Calls -> Nat] /\ tasks' = tasks
        /\ UNCHANGED <<workflow, tasks, artifacts, aborts>> /\ ApprovalsType'
    BY <1>1, LedgerRows, Records DEF storeVars, IInv, ApprovalsType
  <1>9. Advanced(l) \in Loop
    BY <1>1, AdvancedType
  <1>10. worker'[w] = worker[w] /\ loop'[w] = Advanced(l)
    BY <1>1, <1>9 DEF Becomes, IInv, LoopType
  <1>11. calls'[CallOf(w)].status = "succeeded"
    BY <1>2, <1>5, <1>7
  <1>12. OnTrack(w)'
    BY <1>1, <1>7, <1>10, <1>11, AdvanceOnTrack
  <1>13. row.lease # "none" <=> row.status = "running"
    BY <1>5
  <1>14. QED
    BY <1>1, <1>3, <1>5, <1>6, <1>7, <1>8, <1>9, <1>12, <1>13, RowStay

LEMMA FailureKeeps ==
  ASSUME IInv, NEW w \in Workers, RecordFailure(w)
  PROVE  IInv'
  <1> DEFINE l == loop[w]
  <1>1. /\ l.pc \in {"handler", "effected"} /\ l.pc \in InTurn /\ l.pc # "call"
        /\ UNCHANGED <<storeVars, aborts, effects, turns>>
    BY DEF RecordFailure, InTurn
  <1>2. PICK c \in Calls : c = CallOf(w)
    BY <1>1, AtCall
  <1>3. /\ worker[w].pc = "agent" /\ c.task = worker[w].task /\ Told(c)
        /\ calls[c].status = "running"
    BY <1>1, <1>2, AtCall
  <1>4. PICK row : row = Gateway!Recorded(calls[c], Gateway!FailureStatus(c), calls[c].result)
    OBVIOUS
  <1>5. Gateway!FailureStatus(c) \in {"failed", "uncertain"} /\ calls[c].result \in Nat
    BY LedgerRows DEF Gateway!FailureStatus, Gateway!Row
  <1>6. row \in Gateway!Row /\ row.status \in {"failed", "uncertain"} /\ row.lease = "none"
    BY <1>4, <1>5, RecordedType
  <1>7. calls' = [calls EXCEPT ![c] = row]
    BY <1>2, <1>4 DEF RecordFailure
  <1>8. effects' \in [Calls -> Nat] /\ tasks' = tasks /\ turns' = turns
        /\ UNCHANGED <<workflow, tasks, artifacts, aborts>> /\ ApprovalsType'
    BY <1>1, LedgerRows, Records DEF storeVars, IInv, ApprovalsType
  <1>9. PICK r \in BOOLEAN : Raises(w, r)
    BY DEF RecordFailure, AfterFailure
  <1>10. (row.lease # "none" <=> row.status = "running") /\ calls[c].status # "succeeded"
    BY <1>3, <1>6
  <1>11. QED
    BY <1>3, <1>6, <1>7, <1>8, <1>9, <1>10, RowLeave

LEMMA AttemptKeeps ==
  ASSUME IInv, NEW w \in Workers, AttemptFails(w)
  PROVE  IInv'
  BY RaiseKeeps DEF AttemptFails

-----------------------------------------------------------------------------
(* The invariant and what follows from it *)

LEMMA InitCore ==
  ASSUME Init
  PROVE  Core
  <1> USE DEF Init, Orch!Init
  <1>1. /\ worker = [w \in Workers |-> Orch!Idle] /\ aborts = 0
        /\ tasks = [t \in Tasks |-> [status |-> "pending", attempts |-> 0, output |-> None]]
        /\ workflow = "pending" /\ artifacts = {}
        /\ approvals = [c \in Calls |-> "absent"]
    BY DEF Orch!StoreInit
  <1>2. Orch!StoreType
    BY <1>1 DEF Orch!StoreType, Orch!WorkflowStatus, Orch!TaskRow, Orch!TaskStatus
  <1>3. Orch!WorkerType
    BY <1>1, IdleRecord DEF Orch!WorkerType, Orch!Executing
  <1>4. aborts \in 0..MaxAborts
    BY <1>1, HarnessAssumption
  <1>5. Orch!SingleExecutor
    BY <1>1, IdleRecord DEF Orch!SingleExecutor, Orch!Executes, Orch!Executing
  <1>6. QED
    BY <1>2, <1>3, <1>4, <1>5 DEF Core, Orch!TypeOK

LEMMA InitInv ==
  ASSUME Init
  PROVE  IInv
  <1>1. Core
    BY InitCore
  <1>2. /\ calls = [c \in Calls |-> Gateway!NoRow] /\ effects = [c \in Calls |-> 0]
        /\ turns = [t \in Tasks |-> [n \in Steps |-> None]]
        /\ loop = [w \in Workers |-> Fresh]
    BY DEF Init
  <1>3. /\ worker = [w \in Workers |-> Orch!Idle]
        /\ \A t \in Tasks : tasks[t].status = "pending"
    BY DEF Init, Orch!Init, Orch!StoreInit
  <1>4. LoopType
    BY <1>2, FreshType DEF LoopType
  <1>5. /\ Gateway!NoRow \in Gateway!Row /\ Gateway!NoRow.status = "absent"
        /\ Gateway!NoRow.lease = "none"
    BY DEF Gateway!NoRow, Gateway!Row, Gateway!ToolCallStatus
  <1>6. Gateway!LedgerType
    BY <1>2, <1>5 DEF Gateway!LedgerType
  <1>7. TablesType
    BY <1>2, <1>6 DEF TablesType
  <1>8. TurnsOffered /\ LedgerTold
    BY <1>2, <1>5 DEF TurnsOffered, LedgerTold
  <1>9. \A w \in Workers : worker[w].pc = "idle"
    BY <1>3, IdleRecord
  <1>10. Story
    BY <1>3, <1>8, <1>9 DEF Story, OnTrack, Returns
  <1>11. QED
    BY <1>1, <1>4, <1>7, <1>10 DEF IInv

LEMMA StutterKeeps ==
  ASSUME IInv, UNCHANGED vars
  PROVE  IInv'
  <1>1. UNCHANGED <<storeVars, worker, aborts>> /\ UNCHANGED <<calls, effects, turns, loop>>
    BY DEF vars, orchestratorVars, loopVars
  <1>2. tasks' = tasks
    BY <1>1 DEF storeVars
  <1>3. Core'
    <2>1. Orch!TypeOK'
      BY <1>1 DEF IInv, Core, storeVars, Orch!TypeOK, Orch!StoreType, Orch!WorkerType
    <2>2. Orch!SingleExecutor'
      BY <1>1, <1>2 DEF IInv, Core, Orch!SingleExecutor, Orch!Executes
    <2>3. QED
      BY <2>1, <2>2 DEF Core
  <1>4. LoopType' /\ TablesType'
    BY <1>1 DEF IInv, LoopType, TablesType, Gateway!LedgerType
  <1>5. Story'
    BY <1>1, <1>2, StoryQuiet
  <1>6. QED
    BY <1>3, <1>4, <1>5 DEF IInv

LEMMA NextKeeps ==
  ASSUME IInv, [Next]_vars
  PROVE  IInv'
  <1>1. ASSUME NEW w \in Workers, Run(w) \/ Proceed(w) \/ Abort(w) PROVE IInv'
    BY <1>1, ScheduleKeeps, AskKeeps, SaveKeeps, ReturnKeeps, AuthorizeKeeps, ClaimKeeps,
       EffectKeeps, SuccessKeeps, FailureKeeps, AttemptKeeps
       DEF Proceed
  <1>2. ASSUME NEW c \in Calls, Decide(c) \/ LeaseExpires(c) PROVE IInv'
    BY <1>2, DecideKeeps, LeaseKeeps
  <1>3. QED
    BY <1>1, <1>2, StutterKeeps DEF Next

\* The inductive invariant: exclusive execution, and a loop that agrees with the
\* saved turns and the ledger.
THEOREM Inductive == Spec => []IInv
  BY InitInv, NextKeeps, PTL DEF Spec

\* Every variable keeps its type, and a process is inside the loop of
\* ToolCallingAgent.run only while it runs an agent.
THEOREM TypeCorrect == Spec => []TypeOK
  <1>1. IInv => TypeOK
    BY DEF IInv, Core, LoopType, TablesType, TypeOK
  <1>2. QED
    BY <1>1, Inductive, PTL

\* At most one process executes a task, also when its agent is the loop.
THEOREM ExclusiveExecution == Spec => []Orch!SingleExecutor
  <1>1. IInv => Orch!SingleExecutor
    BY DEF IInv, Core
  <1>2. QED
    BY <1>1, Inductive, PTL

\* Every ledger row is a call that the saved turn of its step makes.
THEOREM LedgerIsTold == Spec => []LedgerMatchesTurns
  <1>1. IInv => LedgerMatchesTurns
    BY DEF IInv, Story, LedgerTold, Told, LedgerMatchesTurns
  <1>2. QED
    BY <1>1, Inductive, PTL

\* The output of a task that succeeded is its saved answer, and every call of the
\* steps before it went through.
THEOREM OutputsAreBackedUp == Spec => []SuccessIsBackedUp
  <1>1. ASSUME IInv PROVE SuccessIsBackedUp
    <2> SUFFICES ASSUME NEW t \in Tasks, tasks[t].status = "succeeded"
                 PROVE  LET last == tasks[t].output.steps - 1
                        IN  /\ turns[t][last] = [calls |-> <<>>, text |-> tasks[t].output.text]
                            /\ \A n \in 0..(last - 1) : \A i \in DOMAIN turns[t][n].calls :
                                 calls[CallId(t, n, turns[t][n], i)].status = "succeeded"
      BY DEF SuccessIsBackedUp, Succeeded
    <2>1. PICK o : o = tasks[t].output
      OBVIOUS
    <2>2. o \in Outputs
      BY <1>1, <2>1 DEF IInv, Core, Orch!TypeOK, Orch!StoreType, Orch!TaskRow
    <2>3. BackedUp(t, o)
      BY <1>1, <2>1, <2>2 DEF IInv, Story
    <2>4. o.steps \in 1..MaxSteps
      BY <2>2, HarnessAssumption
    <2>5. ASSUME NEW n \in 0..((o.steps - 1) - 1), NEW i \in DOMAIN turns[t][n].calls
          PROVE  calls[CallId(t, n, turns[t][n], i)].status = "succeeded"
      <3>1. n \in Steps /\ n \in 0..(o.steps - 2)
        BY <2>4, StepNumbers
      <3>2. StepDone(t, n)
        BY <2>3, <3>1 DEF BackedUp
      <3>3. turns[t][n] \in Turns[t][n]
        BY <1>1, <3>1, <3>2 DEF IInv, Story, TurnsOffered, StepDone
      <3>4. DOMAIN turns[t][n].calls = 1..Len(turns[t][n].calls)
        BY <3>1, <3>3, Offered
      <3>5. QED
        BY <2>5, <3>2, <3>4 DEF StepDone
    <2>6. QED
      BY <2>1, <2>3, <2>5 DEF BackedUp
  <1>2. QED
    BY <1>1, Inductive, PTL

-----------------------------------------------------------------------------
(* A call that succeeded is answered by its replay from then on *)

ReplayKept ==
  \A c \in Calls : calls[c].status = "succeeded" => calls'[c] = calls[c] /\ effects'[c] = effects[c]

LEMMA ReplayFromRow ==
  ASSUME IInv, NEW c \in Calls, calls[c].status # "succeeded",
         NEW row, calls' = [calls EXCEPT ![c] = row], effects' = effects
  PROVE  ReplayKept
  BY LedgerRows DEF ReplayKept

LEMMA ReplayStep ==
  ASSUME IInv, [Next]_vars
  PROVE  ReplayKept
  <1>1. ASSUME UNCHANGED <<calls, effects>> PROVE ReplayKept
    BY <1>1 DEF ReplayKept
  <1>2. ASSUME NEW w \in Workers, Authorize(w) PROVE ReplayKept
    <2>1. PICK c \in Calls : c = CallOf(w)
      BY <1>2, AtCall DEF Authorize, In, InTurn
    <2>2. CASE calls' = calls
      BY <1>1, <1>2, <2>2 DEF Authorize
    <2>3. CASE /\ calls[c].status = "absent"
               /\ \E row \in Gateway!Row : calls' = [calls EXCEPT ![c] = row]
      BY <1>2, <2>3, ReplayFromRow DEF Authorize
    <2>4. QED
      BY <1>2, <2>1, <2>2, <2>3, AskedRow
  <1>3. ASSUME NEW w \in Workers, Claim(w) PROVE ReplayKept
    <2> DEFINE r == RequestOf(w)
    <2>1. PICK c \in Calls : c = CallOf(w)
      BY <1>3, AtCall DEF Claim, In, InTurn
    <2>2. r.call = c /\ r.session = "session" /\ r.args = "arguments"
      BY <2>1 DEF RequestOf
    <2>3. CASE UNCHANGED calls
      BY <1>1, <1>3, <2>3 DEF Claim
    <2>4. CASE /\ Gateway!ClaimVerdict(r) = "execute"
               /\ calls' = [calls EXCEPT ![c] = Gateway!Claimed(r)]
      <3>1. calls[c].status # "succeeded"
        BY <2>2, <2>4 DEF Gateway!ClaimVerdict
      <3>2. QED
        BY <1>3, <2>4, <3>1, ReplayFromRow DEF Claim
    <2>5. QED
      BY <1>3, <2>2, <2>3, <2>4 DEF Claim
  <1>4. ASSUME NEW w \in Workers, HandlerEffect(w) PROVE ReplayKept
    <2>1. PICK c \in Calls : c = CallOf(w)
      BY <1>4, AtCall DEF HandlerEffect, In, InTurn
    <2>2. calls[c].status = "running"
      BY <1>4, <2>1, AtCall DEF HandlerEffect, In, InTurn
    <2>3. effects' = [effects EXCEPT ![c] = @ + 1] /\ calls' = calls
      BY <1>4, <2>1 DEF HandlerEffect
    <2>4. QED
      BY <2>2, <2>3, LedgerRows DEF ReplayKept
  <1>5. ASSUME NEW w \in Workers, RecordSuccess(w) \/ RecordFailure(w) PROVE ReplayKept
    <2>1. loop[w].pc \in {"handler", "effected"} /\ loop[w].pc \in InTurn
      BY <1>5 DEF RecordSuccess, RecordFailure, In, InTurn
    <2>2. PICK c \in Calls : c = CallOf(w)
      BY <2>1, AtCall
    <2>3. calls[c].status = "running"
      BY <2>1, <2>2, AtCall
    <2>4. /\ \E row : calls' = [calls EXCEPT ![c] = row]
          /\ effects' = effects
      BY <1>5, <2>2 DEF RecordSuccess, RecordFailure
    <2>5. QED
      BY <2>3, <2>4, ReplayFromRow
  <1>6. ASSUME NEW c \in Calls, LeaseExpires(c) PROVE ReplayKept
    <2>1. calls[c].lease = "live" /\ effects' = effects
      BY <1>6 DEF LeaseExpires, Gateway!LeaseExpires
    <2>2. calls[c].status = "running"
      BY <2>1, LedgerRows
    <2>3. PICK row : calls' = [calls EXCEPT ![c] = row]
      BY <1>6 DEF LeaseExpires, Gateway!LeaseExpires
    <2>4. QED
      BY <2>1, <2>2, <2>3, ReplayFromRow
  <1>7. ASSUME NEW w \in Workers, Run(w) \/ Abort(w) \/ Schedules(w) \/ Ask(w) \/ SaveStep(w)
                                  \/ AgentReturns(w) \/ AttemptFails(w)
        PROVE  ReplayKept
    BY <1>1, <1>7 DEF Run, Abort, Schedules, loopVars, Ask, SaveStep, AgentReturns, AttemptFails
  <1>8. ASSUME NEW c \in Calls, Decide(c) PROVE ReplayKept
    BY <1>1, <1>8 DEF Decide, loopVars
  <1>9. CASE UNCHANGED vars
    BY <1>1, <1>9 DEF vars, loopVars
  <1>10. QED
    BY <1>2, <1>3, <1>4, <1>5, <1>6, <1>7, <1>8, <1>9 DEF Next, Proceed

\* Once success is in the ledger no late record, claim or effect of its call follows:
\* where one process at most executes a task, the ledger replays it for good.
THEOREM SuccessReplays == Spec => SuccessIsReplayed
  <1>1. IInv /\ [Next]_vars => ReplayKept
    BY ReplayStep
  <1>2. QED
    BY <1>1, Inductive, PTL DEF Spec, SuccessIsReplayed, ReplayKept

-----------------------------------------------------------------------------
(* What the gateway promises, of the whole *)

\* From the claim of a call to the record of its outcome.
Busy == {"claim", "handler", "effected"}

\* Process w is working on call c, and may be about to let the tool act.
Holding(w, c) == loop[w].pc \in Busy /\ CallOf(w) = c
Strikes(w, c) == loop[w].pc = "handler" /\ CallOf(w) = c

\* The claims of a call cover its effects and the one that is about to come; a
\* non-idempotent call is claimed once.
Counted(c) ==
  /\ calls[c].status \in {"absent", "waiting_approval"} => calls[c].attempt = 0
  /\ Gateway!NonIdempotent(c) => calls[c].attempt <= 1 /\ calls[c].status # "failed"
  /\ effects[c] <= calls[c].attempt
  /\ \A w \in Workers : Strikes(w, c) => effects[c] < calls[c].attempt

\* A gated call that has acted, or that a process has been granted, is approved.
Agreed(c) ==
  Gateway!Gated(c) =>
    /\ effects[c] > 0 => approvals[c] = "approved"
    /\ \A w \in Workers : Holding(w, c) => approvals[c] = "approved"

Kept == \A c \in Calls : Counted(c) /\ Agreed(c)

\* A step of one process moves no other.
LEMMA OthersStay ==
  ASSUME IInv, NEW w \in Workers, Run(w) \/ Proceed(w) \/ Abort(w), NEW v \in Workers, v # w
  PROVE  worker'[v] = worker[v] /\ loop'[v] = loop[v]
  <1>1. worker \in [Workers -> Orch!Worker] /\ loop \in [Workers -> Loop]
    BY Records DEF IInv, LoopType
  <1>2. CASE Run(w) \/ Schedules(w) \/ Abort(w)
    <2>1. worker'[v] = worker[v]
      BY <1>2, ScheduleStep DEF IInv, Handover
    <2>2. loop' = loop \/ loop' = [loop EXCEPT ![w] = Fresh]
      BY <1>2 DEF Run, Schedules, Abort, loopVars
    <2>3. QED
      BY <1>1, <2>1, <2>2
  <1>3. ASSUME NEW l, Becomes(w, l) PROVE worker'[v] = worker[v] /\ loop'[v] = loop[v]
    BY <1>1, <1>3 DEF Becomes
  <1>4. ASSUME NEW r, Raises(w, r) PROVE worker'[v] = worker[v] /\ loop'[v] = loop[v]
    BY <1>1, <1>4 DEF Raises, Orch!Raise
  <1>5. CASE Ask(w)
    BY <1>3, <1>4, <1>5 DEF Ask
  <1>6. CASE SaveStep(w)
    BY <1>3, <1>6 DEF SaveStep
  <1>7. CASE AgentReturns(w)
    BY <1>1, <1>7 DEF AgentReturns
  <1>8. CASE Authorize(w)
    <2>1. CASE Orch!Goto(w, "wait") /\ loop' = [loop EXCEPT ![w] = Fresh]
      BY <1>1, <2>1 DEF Orch!Goto
    <2>2. QED
      BY <1>3, <1>4, <1>8, <2>1 DEF Authorize
  <1>9. CASE Claim(w)
    BY <1>3, <1>4, <1>9 DEF Claim
  <1>10. CASE HandlerEffect(w) \/ RecordSuccess(w)
    BY <1>3, <1>10 DEF HandlerEffect, RecordSuccess
  <1>11. CASE RecordFailure(w) \/ AttemptFails(w)
    BY <1>4, <1>11 DEF RecordFailure, AfterFailure, AttemptFails
  <1>12. QED
    BY <1>2, <1>5, <1>6, <1>7, <1>8, <1>9, <1>10, <1>11 DEF Proceed

LEMMA AdvancedPc == \A l : Advanced(l).pc \notin Busy
  BY DEF Advanced, Fresh, Busy

\* Every step but these leaves its process outside a call.
LEMMA Leaves ==
  ASSUME IInv, NEW w \in Workers,
         \/ Run(w) \/ Schedules(w) \/ Abort(w) \/ Ask(w) \/ SaveStep(w) \/ AgentReturns(w)
         \/ RecordSuccess(w) \/ RecordFailure(w) \/ AttemptFails(w)
  PROVE  loop'[w].pc \notin Busy
  <1>1. loop \in [Workers -> Loop] /\ loop[w] \in Loop
    BY DEF IInv, LoopType
  <1>2. Fresh.pc \notin Busy
    BY DEF Fresh, Busy
  <1>3. ASSUME NEW r, Raises(w, r) PROVE loop'[w].pc \notin Busy
    BY <1>1, <1>2, <1>3 DEF Raises
  <1>4. CASE Abort(w) \/ AgentReturns(w)
    BY <1>1, <1>2, <1>4 DEF Abort, AgentReturns
  <1>5. CASE Run(w) \/ Schedules(w)
    <2>1. worker[w].pc # "agent" /\ loop' = loop
      BY <1>5
         DEF Run, Schedules, loopVars, Orch!Run, Orch!MarkRunning, Orch!QueryReady, Orch!TryStart,
             Orch!EndOfScan, Orch!Finish, Orch!Wait, Orch!Fail, Orch!Settle, Orch!Publish
    <2>2. QED
      BY <1>2, <2>1 DEF IInv, LoopType
  <1>6. CASE Ask(w)
    <2>1. ASSUME NEW l, Becomes(w, l), l.pc \in {"call", "save"} PROVE loop'[w].pc \notin Busy
      BY <1>1, <2>1 DEF Becomes, Busy
    <2>2. \A turn : /\ [loop[w] EXCEPT !.pc = "call", !.turn = turn].pc = "call"
                    /\ Decision(loop[w], turn).pc = "save"
      BY <1>1 DEF Loop, Decision
    <2>3. QED
      BY <1>3, <1>6, <2>1, <2>2 DEF Ask
  <1>7. CASE SaveStep(w)
    BY <1>1, <1>7 DEF SaveStep, Becomes, Busy, Loop
  <1>8. CASE RecordSuccess(w)
    BY <1>1, <1>8, AdvancedPc DEF RecordSuccess, Becomes
  <1>9. CASE RecordFailure(w) \/ AttemptFails(w)
    BY <1>3, <1>9 DEF RecordFailure, AfterFailure, AttemptFails
  <1>10. QED
    BY <1>4, <1>5, <1>6, <1>7, <1>8, <1>9

\* A call is in the hands of one process.
LEMMA OneHolder ==
  ASSUME IInv, NEW v \in Workers, NEW w \in Workers, NEW c, Holding(v, c), Holding(w, c)
  PROVE  v = w
  <1>1. /\ worker[v].pc = "agent" /\ worker[v].task = c.task
        /\ worker[w].pc = "agent" /\ worker[w].task = c.task
    BY AtCall DEF Holding, Busy, InTurn
  <1>2. Orch!Executes(v, c.task) /\ Orch!Executes(w, c.task) /\ c.task \in Tasks
    BY <1>1, Holds DEF IInv, Orch!Executing
  <1>3. QED
    BY <1>2 DEF IInv, Core, Orch!SingleExecutor

\* Process v has not moved.
LEMMA SameHold ==
  ASSUME NEW v \in Workers, worker'[v] = worker[v], loop'[v] = loop[v], NEW c
  PROVE  (Holding(v, c)' <=> Holding(v, c)) /\ (Strikes(v, c)' <=> Strikes(v, c))
  BY DEF Holding, Strikes, CallOf, CallId

\* A call nobody takes up, on a step that leaves its row, its effects and its approval.
LEMMA KeptStays ==
  ASSUME NEW c \in Calls, Counted(c), Agreed(c),
         calls'[c].status = calls[c].status, calls'[c].attempt = calls[c].attempt,
         effects'[c] = effects[c], approvals[c] = "approved" => approvals'[c] = "approved",
         \A v \in Workers : Holding(v, c)' => Holding(v, c),
         \A v \in Workers : Strikes(v, c)' => Strikes(v, c)
  PROVE  Counted(c)' /\ Agreed(c)'
  BY DEF Counted, Agreed, Gateway!NonIdempotent, Gateway!Gated

\* Every step is a claim, an authorization, an effect, a record, an expired lease, or
\* one that leaves ledger and effects alone and starts no call.
Aside ==
  /\ UNCHANGED <<calls, effects>>
  /\ \A c \in Calls : approvals[c] = "approved" => approvals'[c] = "approved"
  /\ \A v \in Workers : loop'[v].pc \in Busy => loop'[v] = loop[v] /\ worker'[v] = worker[v]

LEMMA AsideKeeps ==
  ASSUME IInv, Kept, Aside
  PROVE  Kept'
  <1> SUFFICES ASSUME NEW c \in Calls PROVE Counted(c)' /\ Agreed(c)'
    BY DEF Kept
  <1>1. ASSUME NEW v \in Workers
        PROVE  (Holding(v, c)' => Holding(v, c)) /\ (Strikes(v, c)' => Strikes(v, c))
    BY SameHold DEF Aside, Holding, Strikes, Busy
  <1>2. QED
    BY <1>1, KeptStays DEF Aside, Kept

\* A process that leaves its call, or never had one, with ledger and effects as they were.
LEMMA OutAside ==
  ASSUME IInv, NEW w \in Workers, Run(w) \/ Proceed(w) \/ Abort(w), UNCHANGED <<calls, effects>>,
         \A c \in Calls : approvals[c] = "approved" => approvals'[c] = "approved",
         loop'[w].pc \notin Busy
  PROVE  Aside
  BY OthersStay DEF Aside

\* A step of process w on the row of call c only, after which w is not about to strike.
LEMMA RowKeeps ==
  ASSUME IInv, Kept, NEW w \in Workers, Run(w) \/ Proceed(w) \/ Abort(w), NEW c \in Calls,
         NEW row, calls' = [calls EXCEPT ![c] = row], effects' = effects,
         row.attempt = calls[c].attempt,
         row.status \in {"absent", "waiting_approval"} => row.attempt = 0,
         Gateway!NonIdempotent(c) => row.status # "failed",
         \A d \in Calls : approvals[d] = "approved" => approvals'[d] = "approved",
         loop'[w].pc \notin Busy
  PROVE  Kept'
  <1> SUFFICES ASSUME NEW d \in Calls PROVE Counted(d)' /\ Agreed(d)'
    BY DEF Kept
  <1>1. ASSUME NEW v \in Workers
        PROVE  (Holding(v, d)' => Holding(v, d)) /\ (Strikes(v, d)' => Strikes(v, d))
    <2>1. CASE v = w
      BY <2>1 DEF Holding, Strikes, Busy
    <2>2. CASE v # w
      BY <2>2, OthersStay, SameHold
    <2>3. QED
      BY <2>1, <2>2
  <1>2. calls'[c] = row /\ \A e \in Calls : e # c => calls'[e] = calls[e]
    BY LedgerRows
  <1>3. CASE d # c
    BY <1>1, <1>2, <1>3, KeptStays DEF Kept
  <1>4. CASE d = c
    <2>1. Counted(c) /\ Agreed(c)
      BY DEF Kept
    <2>2. Counted(c)'
      BY <1>1, <1>2, <1>4, <2>1 DEF Counted, Gateway!NonIdempotent
    <2>3. Agreed(c)'
      BY <1>1, <1>4, <2>1 DEF Agreed, Gateway!Gated
    <2>4. QED
      BY <1>4, <2>2, <2>3
  <1>5. QED
    BY <1>3, <1>4

LEMMA AuthorizeKept ==
  ASSUME IInv, Kept, NEW w \in Workers, Authorize(w)
  PROVE  Kept'
  <1>1. loop[w].pc = "call" /\ loop[w].turn.calls # <<>> /\ effects' = effects
    BY DEF Authorize, In
  <1>2. PICK c \in Calls : c = CallOf(w)
    BY <1>1, AtCall DEF InTurn
  <1>3. \A d \in Calls : approvals[d] = "approved" => approvals'[d] = "approved"
    BY Records DEF Authorize, RequestApproval, IInv
  <1>4. loop \in [Workers -> Loop] /\ loop[w] \in Loop
    BY DEF IInv, LoopType
  <1> DEFINE verdict == Gateway!AuthVerdict(RequestOf(w))
  <1>5. CASE verdict = "granted" /\ Becomes(w, [loop[w] EXCEPT !.pc = "claim"])
    <2>1. calls' = calls /\ approvals' = approvals
      BY <1>5 DEF Authorize, Gateway!RequestApproval
    <2>2. Gateway!Gated(c) => approvals[c] = "approved"
      <3>1. RequestOf(w).call = c
        BY <1>2 DEF RequestOf
      <3>2. QED
        BY <1>5, <3>1 DEF Gateway!AuthVerdict
    <2>3. loop'[w] = [loop[w] EXCEPT !.pc = "claim"] /\ worker' = worker
      BY <1>4, <1>5 DEF Becomes
    <2>4. loop'[w].pc = "claim" /\ CallOf(w)' = c
      BY <1>2, <1>4, <2>3 DEF CallOf, CallId, Loop
    <2> SUFFICES ASSUME NEW d \in Calls PROVE Counted(d)' /\ Agreed(d)'
      BY DEF Kept
    <2>5. ASSUME NEW v \in Workers, v # w
          PROVE  (Holding(v, d)' <=> Holding(v, d)) /\ (Strikes(v, d)' <=> Strikes(v, d))
      BY <2>5, OthersStay, SameHold DEF Proceed
    <2>6. /\ \A v \in Workers : Strikes(v, d)' => Strikes(v, d)
          /\ \A v \in Workers : Holding(v, d)' => Holding(v, d) \/ d = c
      BY <2>4, <2>5 DEF Strikes, Holding
    <2>7. CASE d # c
      BY <1>1, <2>1, <2>6, <2>7, KeptStays DEF Kept
    <2>8. CASE d = c
      <3>1. Counted(c)'
        BY <1>1, <2>1, <2>6, <2>8 DEF Kept, Counted, Gateway!NonIdempotent
      <3>2. Agreed(c)'
        BY <1>1, <2>1, <2>2 DEF Agreed, Gateway!Gated
      <3>3. QED
        BY <2>8, <3>1, <3>2
    <2>9. QED
      BY <2>7, <2>8
  <1>6. CASE loop' = [loop EXCEPT ![w] = Fresh]
    <2>1. loop'[w].pc \notin Busy
      BY <1>4, <1>6 DEF Fresh, Busy
    <2>2. CASE calls' = calls
      BY <1>1, <1>3, <2>1, <2>2, OutAside, AsideKeeps DEF Proceed
    <2>3. CASE /\ calls[c].status = "absent"
               /\ calls' = [calls EXCEPT ![c] = [Gateway!NoRow EXCEPT !.status = "waiting_approval",
                                                   !.session = "session", !.args = "arguments"]]
      <3> DEFINE row == [Gateway!NoRow EXCEPT !.status = "waiting_approval",
                                              !.session = "session", !.args = "arguments"]
      <3>1. row.status = "waiting_approval" /\ row.attempt = 0
        BY DEF Gateway!NoRow
      <3>2. calls[c].attempt = 0
        BY <2>3 DEF Kept, Counted
      <3>3. calls' = [calls EXCEPT ![c] = row]
        BY <2>3
      <3> HIDE DEF row
      <3>4. QED
        BY <1>1, <1>3, <2>1, <3>1, <3>2, <3>3, RowKeeps DEF Proceed
    <2>4. QED
      <3>1. RequestOf(w).call = c /\ RequestOf(w).session = "session" /\ RequestOf(w).args = "arguments"
        BY <1>2 DEF RequestOf
      <3>2. calls \in [Calls -> Gateway!Row]
        BY LedgerRows
      <3>3. QED
        BY <2>2, <2>3, <3>1, <3>2 DEF Authorize, Gateway!RequestApproval
  <1>7. QED
    BY <1>5, <1>6 DEF Authorize, Raises

\* A claim is won on a row without a claim that may not be repeated.
LEMMA ClaimKept ==
  ASSUME IInv, Kept, NEW w \in Workers, Claim(w)
  PROVE  Kept'
  <1> DEFINE r == RequestOf(w)
             l == loop[w]
  <1>1. /\ l.pc = "claim" /\ l.pc \in InTurn /\ effects' = effects /\ approvals' = approvals
        /\ l \in Loop /\ loop \in [Workers -> Loop]
    BY DEF Claim, In, InTurn, storeVars, IInv, LoopType
  <1>2. PICK c \in Calls : c = CallOf(w)
    BY <1>1, AtCall
  <1>3. r.call = c /\ r.session = "session" /\ r.args = "arguments"
    BY <1>2 DEF RequestOf
  <1>4. CASE calls' = calls /\ \E b \in BOOLEAN : Raises(w, b)
    <2>1. loop'[w].pc \notin Busy
      BY <1>1, <1>4 DEF Raises, Fresh, Busy
    <2>2. QED
      BY <1>1, <1>4, <2>1, OutAside, AsideKeeps DEF Proceed
  <1>5. CASE calls' = calls /\ Becomes(w, Advanced(l))
    <2>1. loop'[w].pc \notin Busy
      BY <1>1, <1>5, AdvancedPc DEF Becomes
    <2>2. QED
      BY <1>1, <1>5, <2>1, OutAside, AsideKeeps DEF Proceed
  <1>6. CASE /\ Gateway!ClaimVerdict(r) = "execute"
             /\ calls' = [calls EXCEPT ![c] = Gateway!Claimed(r)]
             /\ Becomes(w, [l EXCEPT !.pc = "handler", !.attempt = calls'[c].attempt])
    <2> HIDE DEF l
    <2>1. PICK n \in Nat : n = calls[c].attempt
      BY LedgerRows DEF Gateway!Row
    <2>2. /\ calls'[c].status = "running" /\ calls'[c].attempt = n + 1
          /\ \A d \in Calls : d # c => calls'[d] = calls[d]
      BY <1>3, <1>6, <2>1, LedgerRows DEF Gateway!Claimed, Gateway!NextAttempt
    <2>3. Counted(c) /\ Agreed(c)
      BY DEF Kept
    <2>4. Gateway!NonIdempotent(c) => n = 0
      <3>1. calls[c].status \in Gateway!ToolCallStatus \cup {"absent"}
        BY LedgerRows DEF Gateway!Row
      <3>2. Gateway!NonIdempotent(c) => calls[c].status \in {"absent", "waiting_approval"}
        BY <1>3, <1>6, <2>3, <3>1, LedgerRows
           DEF Gateway!ClaimVerdict, Counted, Gateway!ToolCallStatus
      <3>3. QED
        BY <2>1, <2>3, <3>2 DEF Counted
    <2>5. effects[c] \in Nat /\ effects[c] <= n
      BY <2>1, <2>3, LedgerRows DEF Counted
    <2>6. /\ worker'[w] = worker[w] /\ loop'[w].step = l.step /\ loop'[w].turn = l.turn
          /\ loop'[w].index = l.index /\ loop'[w].pc = "handler"
      BY <1>1, <1>6 DEF Becomes, Loop, l
    <2>7. CallOf(w)' = c
      BY <1>2, <2>6 DEF CallOf, CallId, l
    <2>8. ASSUME NEW v \in Workers, v # w, NEW d \in Calls
          PROVE  (Holding(v, d)' <=> Holding(v, d)) /\ (Strikes(v, d)' <=> Strikes(v, d))
      BY <2>8, OthersStay, SameHold DEF Proceed
    <2>9. Counted(c)'
      <3>1. /\ n + 1 # 0 /\ effects[c] <= n + 1 /\ effects[c] < n + 1
            /\ n = 0 => n + 1 <= 1
        BY <2>1, <2>5
      <3>2. QED
        BY <1>1, <2>2, <2>4, <3>1 DEF Counted, Gateway!NonIdempotent
    <2>10. Agreed(c)'
      <3>1. Holding(w, c)
        BY <1>1, <1>2 DEF Holding, Busy, l
      <3>2. QED
        BY <1>1, <2>3, <3>1 DEF Agreed, Gateway!Gated
    <2>11. ASSUME NEW d \in Calls, d # c PROVE Counted(d)' /\ Agreed(d)'
      <3>1. \A v \in Workers : (Holding(v, d)' => Holding(v, d)) /\ (Strikes(v, d)' => Strikes(v, d))
        BY <2>7, <2>8, <2>11 DEF Holding, Strikes
      <3>2. QED
        BY <1>1, <2>2, <2>11, <3>1, KeptStays DEF Kept
    <2>12. QED
      BY <2>9, <2>10, <2>11 DEF Kept
  <1>7. QED
    BY <1>3, <1>4, <1>5, <1>6 DEF Claim

\* The effect that was counted comes, and no second process is about to add one.
LEMMA EffectKept ==
  ASSUME IInv, Kept, NEW w \in Workers, HandlerEffect(w)
  PROVE  Kept'
  <1> DEFINE l == loop[w]
  <1>1. /\ l.pc = "handler" /\ l.pc \in InTurn /\ calls' = calls /\ approvals' = approvals
        /\ l \in Loop /\ loop \in [Workers -> Loop]
        /\ Becomes(w, [l EXCEPT !.pc = "effected"])
    BY DEF HandlerEffect, In, InTurn, storeVars, IInv, LoopType
  <1>2. PICK c \in Calls : c = CallOf(w)
    BY <1>1, AtCall
  <1>3. Holding(w, c) /\ Strikes(w, c) /\ Counted(c) /\ Agreed(c)
    BY <1>1, <1>2 DEF Holding, Strikes, Busy, Kept
  <1>4. /\ effects'[c] = effects[c] + 1 /\ \A d \in Calls : d # c => effects'[d] = effects[d]
    BY <1>2, LedgerRows DEF HandlerEffect
  <1>5. effects[c] \in Nat /\ calls[c].attempt \in Nat /\ effects[c] < calls[c].attempt
    BY <1>3, LedgerRows DEF Counted, Gateway!Row
  <1>6. /\ worker'[w] = worker[w] /\ loop'[w].step = l.step /\ loop'[w].turn = l.turn
        /\ loop'[w].index = l.index /\ loop'[w].pc = "effected"
    BY <1>1 DEF Becomes, Loop
  <1>7. CallOf(w)' = c
    BY <1>2, <1>6 DEF CallOf, CallId
  <1>8. ASSUME NEW v \in Workers, v # w, NEW d \in Calls
        PROVE  (Holding(v, d)' <=> Holding(v, d)) /\ (Strikes(v, d)' <=> Strikes(v, d))
    BY <1>8, OthersStay, SameHold DEF Proceed
  <1>9. ASSUME NEW v \in Workers PROVE ~Strikes(v, c)'
    <2>1. CASE v = w
      BY <1>6, <2>1 DEF Strikes
    <2>2. CASE v # w
      <3>1. ~Holding(v, c)
        BY <1>3, <2>2, OneHolder
      <3>2. QED
        BY <1>8, <2>2, <3>1 DEF Holding, Strikes, Busy
    <2>3. QED
      BY <2>1, <2>2
  <1>10. Counted(c)'
    <2>1. effects[c] + 1 <= calls[c].attempt
      BY <1>5
    <2>2. QED
      BY <1>1, <1>3, <1>4, <1>9, <2>1 DEF Counted, Gateway!NonIdempotent
  <1>11. Agreed(c)'
    BY <1>1, <1>3 DEF Agreed, Gateway!Gated
  <1>12. ASSUME NEW d \in Calls, d # c PROVE Counted(d)' /\ Agreed(d)'
    <2>1. \A v \in Workers : (Holding(v, d)' => Holding(v, d)) /\ (Strikes(v, d)' => Strikes(v, d))
      BY <1>7, <1>8, <1>12 DEF Holding, Strikes
    <2>2. QED
      BY <1>1, <1>4, <1>12, <2>1, KeptStays DEF Kept
  <1>13. QED
    BY <1>10, <1>11, <1>12 DEF Kept

LEMMA RecordKept ==
  ASSUME IInv, Kept, NEW w \in Workers, RecordSuccess(w) \/ RecordFailure(w)
  PROVE  Kept'
  <1>1. loop[w].pc \in {"handler", "effected"} /\ loop[w].pc \in InTurn
        /\ effects' = effects /\ approvals' = approvals
    BY DEF RecordSuccess, RecordFailure, In, InTurn, storeVars
  <1>2. PICK c \in Calls : c = CallOf(w)
    BY <1>1, AtCall
  <1>3. PICK s, n : /\ calls' = [calls EXCEPT ![c] = Gateway!Recorded(@, s, n)]
                    /\ s \in {"succeeded", Gateway!FailureStatus(c)}
    <2>1. CASE RecordSuccess(w)
      BY <1>2, <2>1 DEF RecordSuccess
    <2>2. CASE RecordFailure(w)
      BY <1>2, <2>2 DEF RecordFailure
    <2>3. QED
      BY <2>1, <2>2
  <1>4. PICK row : row = Gateway!Recorded(calls[c], s, n)
    OBVIOUS
  <1>5. /\ row.status = s /\ row.attempt = calls[c].attempt
        /\ s \notin {"absent", "waiting_approval"}
        /\ Gateway!NonIdempotent(c) => s # "failed"
    BY <1>3, <1>4, LedgerRows
       DEF Gateway!Recorded, Gateway!Row, Gateway!FailureStatus
  <1>6. calls' = [calls EXCEPT ![c] = row]
    BY <1>3, <1>4
  <1>7. loop'[w].pc \notin Busy
    BY Leaves
  <1>8. QED
    BY <1>1, <1>5, <1>6, <1>7, RowKeeps DEF Proceed

LEMMA ExpiryKept ==
  ASSUME IInv, Kept, NEW c \in Calls, LeaseExpires(c)
  PROVE  Kept'
  <1>1. /\ calls' = [calls EXCEPT ![c].lease = "expired"]
        /\ effects' = effects /\ approvals' = approvals /\ worker' = worker /\ loop' = loop
    BY DEF LeaseExpires, Gateway!LeaseExpires, storeVars
  <1>2. \A d \in Calls : calls'[d].status = calls[d].status /\ calls'[d].attempt = calls[d].attempt
    BY <1>1, LedgerRows DEF Gateway!Row
  <1> SUFFICES ASSUME NEW d \in Calls PROVE Counted(d)' /\ Agreed(d)'
    BY DEF Kept
  <1>3. \A v \in Workers : (Holding(v, d)' => Holding(v, d)) /\ (Strikes(v, d)' => Strikes(v, d))
    BY <1>1, SameHold
  <1>4. QED
    BY <1>1, <1>2, <1>3, KeptStays DEF Kept

LEMMA NextKept ==
  ASSUME IInv, Kept, [Next]_vars
  PROVE  Kept'
  <1>1. ASSUME UNCHANGED <<approvals, calls, effects, worker, loop>> PROVE Kept'
    BY <1>1, AsideKeeps DEF Aside
  <1>2. ASSUME NEW w \in Workers,
               Run(w) \/ Schedules(w) \/ Abort(w) \/ Ask(w) \/ SaveStep(w) \/ AgentReturns(w)
                 \/ AttemptFails(w)
        PROVE  Kept'
    <2>1. UNCHANGED <<calls, effects>>
      BY <1>2 DEF Run, Schedules, Abort, Ask, SaveStep, AgentReturns, AttemptFails, loopVars
    <2>2. approvals' = approvals
      BY <1>2
         DEF Run, Schedules, Abort, Ask, SaveStep, AgentReturns, AttemptFails, storeVars,
             Orch!storeVars, Orch!Run, Orch!MarkRunning, Orch!QueryReady, Orch!TryStart,
             Orch!EndOfScan, Orch!Finish, Orch!Wait, Orch!Fail, Orch!Settle, Orch!Publish,
             Orch!Abort
    <2>3. loop'[w].pc \notin Busy
      BY <1>2, Leaves
    <2>4. QED
      BY <1>2, <2>1, <2>2, <2>3, OutAside, AsideKeeps DEF Proceed
  <1>3. ASSUME NEW w \in Workers,
               Authorize(w) \/ Claim(w) \/ HandlerEffect(w) \/ RecordSuccess(w) \/ RecordFailure(w)
        PROVE  Kept'
    BY <1>3, AuthorizeKept, ClaimKept, EffectKept, RecordKept
  <1>4. ASSUME NEW c \in Calls, Decide(c) PROVE Kept'
    <2>1. /\ UNCHANGED <<calls, effects, loop>> /\ worker' = worker
          /\ \E v \in Verdicts : Orch!DecideApproval(c, v)
      BY <1>4 DEF Decide, Orch!Decide, loopVars
    <2>2. \A d \in Calls : approvals[d] = "approved" => approvals'[d] = "approved"
      BY <2>1, Records DEF Orch!DecideApproval, IInv
    <2>3. QED
      BY <2>1, <2>2, AsideKeeps DEF Aside
  <1>5. ASSUME NEW c \in Calls, LeaseExpires(c) PROVE Kept'
    BY <1>5, ExpiryKept
  <1>6. CASE UNCHANGED vars
    BY <1>1, <1>6 DEF vars, orchestratorVars, storeVars, loopVars
  <1>7. QED
    BY <1>2, <1>3, <1>4, <1>5, <1>6 DEF Next, Proceed

LEMMA InitKept ==
  ASSUME Init
  PROVE  Kept
  <1>1. \A c \in Calls : calls[c] = Gateway!NoRow /\ effects[c] = 0
    BY DEF Init
  <1>2. \A w \in Workers : loop[w].pc \notin Busy
    BY DEF Init, Fresh, Busy
  <1>3. ASSUME NEW c \in Calls PROVE Counted(c)
    BY <1>1, <1>2 DEF Counted, Gateway!NoRow, Strikes, Busy
  <1>4. ASSUME NEW c \in Calls PROVE Agreed(c)
    BY <1>1, <1>2 DEF Agreed, Holding
  <1>5. QED
    BY <1>3, <1>4 DEF Kept

LEMMA KeptAlways == Spec => [](IInv /\ Kept)
  BY InitInv, InitKept, NextKeeps, NextKept, PTL DEF Spec

\* A non-idempotent call acts once at most.
ActsOnce == \A c \in Calls : Gateway!NonIdempotent(c) => effects[c] <= 1

\* A gated call that acted had been approved.
ActsApproved == \A c \in Calls : Gateway!Gated(c) /\ effects[c] > 0 => approvals[c] = "approved"

\* Each effect was paid for by a claim.
ActsClaimed == \A c \in Calls : effects[c] <= calls[c].attempt

\* Across pauses, retries of the task, dead processes, lost records and expired leases, no
\* agent makes ToolGateway repeat a non-idempotent call.
THEOREM OnceInTheWhole == Spec => []ActsOnce
  <1>1. IInv /\ Kept => ActsOnce
    <2> SUFFICES ASSUME IInv, Kept, NEW c \in Calls, Gateway!NonIdempotent(c)
                 PROVE  effects[c] <= 1
      BY DEF ActsOnce
    <2>1. effects[c] \in Nat /\ calls[c].attempt \in Nat
      BY LedgerRows DEF Gateway!Row
    <2>2. effects[c] <= calls[c].attempt /\ calls[c].attempt <= 1
      BY DEF Kept, Counted
    <2>3. QED
      BY <2>1, <2>2
  <1>2. QED
    BY <1>1, KeptAlways, PTL

\* Whatever an agent asks for, and in whichever run of it, a gated tool has acted only
\* where a reviewer agreed.
THEOREM ApprovedInTheWhole == Spec => []ActsApproved
  <1>1. Kept => ActsApproved
    BY DEF Kept, Agreed, ActsApproved
  <1>2. QED
    BY <1>1, KeptAlways, PTL

\* The ledger is ahead of the world also when agents start over.
THEOREM ClaimedInTheWhole == Spec => []ActsClaimed
  <1>1. Kept => ActsClaimed
    BY DEF Kept, Counted, ActsClaimed
  <1>2. QED
    BY <1>1, KeptAlways, PTL
=============================================================================
