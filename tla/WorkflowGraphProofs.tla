------------------------ MODULE WorkflowGraphProofs ------------------------
(***************************************************************************)
(* Proofs about WorkflowGraph, for every set of tasks, tools and steps,    *)
(* any number of crashes and any number of graph threads on one workflow.  *)
(***************************************************************************)
EXTENDS WorkflowGraph, TLAPS

\* Nodes of the subgraph, and the delivery of its result.
TaskNode == {"llm", "validate", "approval", "tool", "memory", "finalize", "fail",
             "collect_delivery"}

\* What holds of a state at the entry of its node, now or when a checkpoint of it is
\* resumed: it has what its node needs, and "tool" is entered authorized.
StateOK(s, authorizations) ==
  /\ s \in GraphState
  /\ s.node \in TaskNode => s.task \in Tasks
  /\ s.node \in {"validate", "approval", "tool"} => s.step \in 1..MaxSteps
  /\ s.node \in {"approval", "tool"} => s.turn \in Tools
  /\ s.node = "collect_delivery" => s.status # "running"
  /\ s.node = "tool" /\ Gated(s.turn) => authorizations[Call(s)] = "approved"

\* What holds of a process inside the node of state s.
LocalOK(l, s, starts) ==
  /\ l \in Local
  /\ l.pc = "claim" => l.pick \in Tasks
  /\ l.pc = "save" => s.step < MaxSteps
  /\ l.pc = "answer" => l.answer # None
  /\ l.pc = "in_tool" => s.node = "tool" /\ starts[Call(s)] > 0

ThreadsOK ==
  /\ graph \in [Threads -> GraphState]
  /\ saved \in [Threads -> GraphState]
  /\ local \in [Threads -> Local]
  /\ \A g \in Threads :
       /\ StateOK(graph[g], approvals)
       /\ StateOK(saved[g], approvals)
       /\ LocalOK(local[g], graph[g], invoked)
       /\ local[g].pc \in {"off", "interrupted"} => graph[g] = saved[g]

\* The ledger row of a non-idempotent call tells whether it was started, and a gated
\* call that was started had been approved.
CallOK(c) ==
  /\ NonIdempotent(c.tool) =>
       /\ invoked[c] <= 1
       /\ ledger[c] # "failed"
       /\ ledger[c] = "absent" <=> invoked[c] = 0
  /\ Gated(c.tool) /\ invoked[c] > 0 => approvals[c] = "approved"

StoreOK ==
  /\ workflow \in WorkflowStatus
  /\ tasks \in [Tasks -> TaskRow]
  /\ artifacts \subseteq ArtifactRow
  /\ turns \in [Tasks -> [Steps -> Decision \cup {None}]]
  /\ memories \subseteq Tasks
  /\ crashes \in 0..MaxCrashes

CallsOK ==
  /\ approvals \in [Calls -> ApprovalStatus \cup {"absent"}]
  /\ ledger \in [Calls -> {"absent", "running", "succeeded", "failed", "uncertain"}]
  /\ invoked \in [Calls -> 0..2]
  /\ \A c \in Calls : CallOK(c)

IInv == StoreOK /\ CallsOK /\ ThreadsOK

\* Approvals and starts are not taken back.
Lasting ==
  /\ \A c \in Calls : approvals[c] = "approved" => approvals'[c] = "approved"
  /\ \A c \in Calls : invoked[c] > 0 => invoked'[c] > 0

-----------------------------------------------------------------------------
(* Threads *)

LEMMA CallType ==
  ASSUME NEW s, NEW authorizations, StateOK(s, authorizations), s.node \in {"approval", "tool"}
  PROVE  Call(s) \in Calls /\ Call(s).tool = s.turn
  <1>1. s.task \in Tasks /\ s.step \in 1..MaxSteps /\ s.turn \in Tools
    BY DEF StateOK, TaskNode
  <1>2. s.step - 1 \in Steps
    BY <1>1, GraphAssumption DEF Steps
  <1>3. QED
    BY <1>1, <1>2, GraphAssumption DEF Call

LEMMA StateLasts ==
  ASSUME Lasting, NEW s, StateOK(s, approvals)
  PROVE  StateOK(s, approvals')
  <1>1. s.node = "tool" => Call(s) \in Calls
    BY CallType
  <1>2. QED
    BY <1>1 DEF StateOK, Lasting

LEMMA LocalLasts ==
  ASSUME Lasting, NEW s, NEW l, StateOK(s, approvals), LocalOK(l, s, invoked)
  PROVE  LocalOK(l, s, invoked')
  <1>1. s.node = "tool" => Call(s) \in Calls
    BY CallType
  <1>2. QED
    BY <1>1 DEF LocalOK, Lasting

\* Thread g moves to state s with checkpoint k and process l.
LEMMA Moves ==
  ASSUME ThreadsOK, Lasting, NEW g \in Threads, NEW s, NEW k, NEW l,
         graph' = [graph EXCEPT ![g] = s],
         saved' = [saved EXCEPT ![g] = k],
         local' = [local EXCEPT ![g] = l],
         StateOK(s, approvals'), StateOK(k, approvals'), LocalOK(l, s, invoked'),
         l.pc \in {"off", "interrupted"} => s = k
  PROVE  ThreadsOK'
  <1>1. s \in GraphState /\ k \in GraphState /\ l \in Local
    BY DEF StateOK, LocalOK
  <1>2. /\ graph' \in [Threads -> GraphState]
        /\ saved' \in [Threads -> GraphState]
        /\ local' \in [Threads -> Local]
    BY <1>1 DEF ThreadsOK
  <1>3. graph'[g] = s /\ saved'[g] = k /\ local'[g] = l
    BY DEF ThreadsOK
  <1>4. \A h \in Threads : h # g => graph'[h] = graph[h] /\ saved'[h] = saved[h] /\ local'[h] = local[h]
    BY DEF ThreadsOK
  <1>5. ASSUME NEW h \in Threads
        PROVE  /\ StateOK(graph'[h], approvals')
               /\ StateOK(saved'[h], approvals')
               /\ LocalOK(local'[h], graph'[h], invoked')
               /\ local'[h].pc \in {"off", "interrupted"} => graph'[h] = saved'[h]
    <2>1. CASE h = g
      BY <2>1, <1>3
    <2>2. CASE h # g
      <3>1. /\ StateOK(graph[h], approvals)
            /\ StateOK(saved[h], approvals)
            /\ LocalOK(local[h], graph[h], invoked)
            /\ local[h].pc \in {"off", "interrupted"} => graph[h] = saved[h]
        BY DEF ThreadsOK
      <3>2. StateOK(graph[h], approvals')
        BY <3>1, StateLasts
      <3>3. StateOK(saved[h], approvals')
        BY <3>1, StateLasts
      <3>4. LocalOK(local[h], graph[h], invoked')
        BY <3>1, LocalLasts
      <3>5. QED
        BY <3>1, <3>2, <3>3, <3>4, <2>2, <1>4
    <2>3. QED
      BY <2>1, <2>2
  <1>6. QED
    BY <1>2, <1>5 DEF ThreadsOK

LEMMA EntryOK == \A s, starts : LocalOK(Entry, s, starts)
  BY DEF LocalOK, Entry, Local

LEMMA EndNodeKeeps ==
  ASSUME ThreadsOK, Lasting, NEW g \in Threads, NEW s, EndNode(g, s), StateOK(s, approvals')
  PROVE  ThreadsOK'
  <1>1. saved' = [saved EXCEPT ![g] = saved[g]]
    BY DEF EndNode, ThreadsOK
  <1>2. StateOK(saved[g], approvals')
    BY StateLasts DEF ThreadsOK
  <1>3. Entry.pc \notin {"off", "interrupted"}
    BY DEF Entry
  <1>4. QED
    BY <1>1, <1>2, <1>3, EntryOK, Moves DEF EndNode

LEMMA InsideKeeps ==
  ASSUME ThreadsOK, Lasting, NEW g \in Threads, NEW l, Inside(g, l),
         LocalOK(l, graph[g], invoked'), l.pc \notin {"off", "interrupted"}
  PROVE  ThreadsOK'
  <1>1. /\ saved' = [saved EXCEPT ![g] = saved[g]]
        /\ graph' = [graph EXCEPT ![g] = graph[g]]
        /\ local' = [local EXCEPT ![g] = l]
    BY DEF Inside, ThreadsOK
  <1>2. StateOK(saved[g], approvals') /\ StateOK(graph[g], approvals')
    BY StateLasts DEF ThreadsOK
  <1>3. QED
    BY <1>1, <1>2, Moves

LEMMA ReturnKeeps ==
  ASSUME ThreadsOK, Lasting, NEW g \in Threads, NEW s, NEW pc \in {"off", "interrupted"},
         Return(g, s, pc), StateOK(s, approvals')
  PROVE  ThreadsOK'
  <1> DEFINE l == [Entry EXCEPT !.pc = pc]
  <1>1. LocalOK(l, s, invoked')
    BY DEF LocalOK, Entry, Local
  <1>2. local' = [local EXCEPT ![g] = l]
    BY DEF Return
  <1> HIDE DEF l
  <1>3. QED
    BY <1>1, <1>2, Moves DEF Return

\* An exception, or the interrupt of a node, stops in the state the node began with.
LEMMA StopKeeps ==
  ASSUME ThreadsOK, Lasting, NEW g \in Threads, NEW pc \in {"off", "interrupted"},
         Return(g, graph[g], pc)
  PROVE  ThreadsOK'
  <1>1. StateOK(graph[g], approvals')
    BY StateLasts DEF ThreadsOK
  <1>2. QED
    BY <1>1, ReturnKeeps

\* Nothing happens to the threads.
LEMMA ThreadsStay == ThreadsOK /\ Lasting /\ UNCHANGED graphVars => ThreadsOK'
  <1> SUFFICES ASSUME ThreadsOK, Lasting, UNCHANGED graphVars PROVE ThreadsOK'
    OBVIOUS
  <1>1. graph' = graph /\ saved' = saved /\ local' = local
    BY DEF graphVars
  <1>2. \A g \in Threads : StateOK(graph[g], approvals') /\ StateOK(saved[g], approvals')
    BY StateLasts DEF ThreadsOK
  <1>3. \A g \in Threads : LocalOK(local[g], graph[g], invoked')
    BY LocalLasts DEF ThreadsOK
  <1>4. QED
    BY <1>1, <1>2, <1>3 DEF ThreadsOK

-----------------------------------------------------------------------------
(* Tables *)

callVars == <<approvals, ledger, invoked>>

LEMMA CallsStay == CallsOK /\ UNCHANGED callVars => CallsOK' /\ Lasting
  BY DEF CallsOK, CallOK, Lasting, callVars

LEMMA StoreStays ==
  StoreOK /\ UNCHANGED <<workflow, tasks, artifacts, turns, memories, crashes>> => StoreOK'
  BY DEF StoreOK

\* The status, output or attempts of a task change.
LEMMA RowType ==
  ASSUME StoreOK, NEW t, NEW row \in TaskRow, tasks' = [tasks EXCEPT ![t] = row]
  PROVE  tasks' \in [Tasks -> TaskRow]
  BY DEF StoreOK

LEMMA StatusType ==
  ASSUME StoreOK, NEW t \in Tasks, NEW status \in TaskStatus,
         tasks' = [tasks EXCEPT ![t].status = status]
  PROVE  tasks' \in [Tasks -> TaskRow]
  BY DEF StoreOK, TaskRow

LEMMA DecideType ==
  ASSUME StoreOK, CallsOK, NEW c \in Calls, NEW verdict \in Verdicts, DecideApproval(c, verdict),
         UNCHANGED <<ledger, invoked>>
  PROVE  /\ tasks' \in [Tasks -> TaskRow]
         /\ CallsOK' /\ Lasting
         /\ approvals'[c] = verdict
  <1>1. /\ approvals[c] = "pending"
        /\ approvals' = [approvals EXCEPT ![c] = verdict]
        /\ tasks' = [tasks EXCEPT ![TaskOf[c]] = DecidedTask(TaskOf[c], verdict)]
    BY DEF DecideApproval
  <1>2. TaskOf[c] \in Tasks /\ verdict \in {"approved", "rejected"}
    BY StoreAssumption, GraphAssumption
  <1>3. tasks[TaskOf[c]] \in TaskRow
    BY <1>2 DEF StoreOK
  <1>4. DecidedTask(TaskOf[c], verdict) \in TaskRow
    BY <1>2, <1>3 DEF DecidedTask, TaskRow, TaskStatus
  <1>5. tasks' \in [Tasks -> TaskRow]
    BY <1>1, <1>4, RowType
  <1>6. approvals' \in [Calls -> ApprovalStatus \cup {"absent"}] /\ approvals'[c] = verdict
    BY <1>1, <1>2 DEF CallsOK, ApprovalStatus
  <1>7. \A d \in Calls : d # c => approvals'[d] = approvals[d]
    BY <1>1 DEF CallsOK
  <1>8. Lasting
    BY <1>1, <1>7 DEF Lasting
  <1>9. CallsOK'
    BY <1>6, <1>8 DEF CallsOK, CallOK, Lasting
  <1>10. QED
    BY <1>5, <1>6, <1>8, <1>9

LEMMA RequestType ==
  ASSUME CallsOK, NEW c \in Calls, RequestApproval(c), UNCHANGED <<ledger, invoked>>
  PROVE  CallsOK' /\ Lasting
  <1>1. approvals' = [approvals EXCEPT ![c] = IF approvals[c] = "absent" THEN "pending" ELSE approvals[c]]
    BY DEF RequestApproval
  <1>2. approvals' \in [Calls -> ApprovalStatus \cup {"absent"}]
    BY <1>1 DEF CallsOK, ApprovalStatus
  <1>3. \A d \in Calls : approvals[d] = "approved" => approvals'[d] = "approved"
    BY <1>1 DEF CallsOK
  <1>4. QED
    BY <1>2, <1>3 DEF CallsOK, CallOK, Lasting

LEMMA InitInvariant == Init => IInv
  <1> SUFFICES ASSUME Init PROVE IInv
    OBVIOUS
  <1>1. StoreOK
    BY GraphAssumption, StoreAssumption DEF Init, StoreInit, StoreOK, TaskRow, TaskStatus, WorkflowStatus
  <1>2. CallsOK
    BY DEF Init, StoreInit, CallsOK, CallOK
  <1> DEFINE s == [node |-> "validate_plan", task |-> None, step |-> 0, turn |-> None,
                   output |-> None, status |-> "running", deliveries |-> {}]
  <1>3. StateOK(s, approvals)
    BY DEF StateOK, GraphState, Node, TaskNode
  <1>4. LocalOK(Off, s, invoked)
    BY DEF LocalOK, Off, Entry, Local
  <1>5. /\ graph = [g \in Threads |-> s]
        /\ saved = [g \in Threads |-> s]
        /\ local = [g \in Threads |-> Off]
    BY DEF Init
  <1> HIDE DEF s
  <1>6. ThreadsOK
    BY <1>3, <1>4, <1>5 DEF ThreadsOK, StateOK, LocalOK
  <1>7. QED
    BY <1>1, <1>2, <1>6 DEF IInv

-----------------------------------------------------------------------------
(* Steps of a thread *)

\* Where a state may go: each new state below is fit for its node.
LEMMA NodeType ==
  ASSUME NEW s \in GraphState, NEW authorizations,
         NEW node \in {"schedule", "complete", "workflow_fail", "end"}
  PROVE  StateOK([s EXCEPT !.node = node], authorizations)
  BY DEF StateOK, GraphState, Node, TaskNode, Call, Gated

LEMMA TaskNodeType ==
  ASSUME NEW s \in GraphState, s.task \in Tasks, NEW authorizations,
         NEW node \in {"llm", "memory", "finalize", "fail"}
  PROVE  StateOK([s EXCEPT !.node = node], authorizations)
  BY DEF StateOK, GraphState, Node, TaskNode, Call, Gated

LEMMA DispatchedType ==
  ASSUME NEW s \in GraphState, NEW t \in Tasks, NEW authorizations
  PROVE  StateOK(Dispatched(s, t), authorizations)
  BY DEF StateOK, Dispatched, GraphState, Node, TaskNode, Call, Gated

LEMMA DecidedType ==
  ASSUME NEW s \in GraphState, s.task \in Tasks, s.step < MaxSteps,
         NEW d \in Decision \cup {None}, NEW authorizations
  PROVE  StateOK(Decided(s, d), authorizations)
  <1>1. s.step \in Nat /\ s.step + 1 \in 1..MaxSteps
    BY GraphAssumption DEF GraphState
  <1> DEFINE step == s.step + 1
             u == [s EXCEPT !.node = "validate", !.turn = d, !.step = step]
  <1>2. step \in Nat
    BY <1>1
  <1> HIDE DEF step
  <1>3. u \in GraphState /\ u.node = "validate" /\ u.task = s.task /\ u.step = step
    BY <1>2 DEF GraphState, Node
  <1> HIDE DEF u
  <1>4. StateOK(u, authorizations)
    BY <1>1, <1>3 DEF StateOK, step
  <1>5. QED
    BY <1>4 DEF Decided, u, step

LEMMA FailedType ==
  ASSUME NEW s \in GraphState, s.task \in Tasks, NEW authorizations
  PROVE  /\ StateOK(FailedState(s), authorizations)
         /\ StateOK(Rejected(s), authorizations)
  BY DEF StateOK, FailedState, Rejected, GraphState, Node, TaskNode, Call, Gated

LEMMA ToToolType ==
  ASSUME NEW s, NEW authorizations, StateOK(s, authorizations),
         s.node \in {"validate", "approval"}, s.turn \in Tools,
         Gated(s.turn) => authorizations[Call(s)] = "approved"
  PROVE  StateOK([s EXCEPT !.node = "tool"], authorizations)
  <1> DEFINE u == [s EXCEPT !.node = "tool"]
  <1>1. u \in GraphState /\ u.node = "tool" /\ u.task = s.task /\ u.step = s.step /\ u.turn = s.turn
    BY DEF StateOK, GraphState, Node
  <1>2. Call(u) = Call(s)
    BY <1>1 DEF Call
  <1>3. s.task \in Tasks /\ s.step \in 1..MaxSteps
    BY DEF StateOK, TaskNode
  <1> HIDE DEF u
  <1>4. StateOK(u, authorizations)
    BY <1>1, <1>2, <1>3 DEF StateOK
  <1>5. QED
    BY <1>4 DEF u

LEMMA ToApprovalType ==
  ASSUME NEW s, NEW authorizations, StateOK(s, authorizations),
         s.node = "validate", s.turn \in Tools
  PROVE  StateOK([s EXCEPT !.node = "approval"], authorizations)
  BY DEF StateOK, GraphState, Node, TaskNode

\* What a thread that takes a step stands on.
LEMMA AtNode ==
  ASSUME ThreadsOK, NEW g \in Threads
  PROVE  /\ graph[g] \in GraphState
         /\ StateOK(graph[g], approvals)
         /\ graph[g].node \in TaskNode => graph[g].task \in Tasks
         /\ local[g] \in Local
         /\ LocalOK(local[g], graph[g], invoked)
  BY DEF ThreadsOK, StateOK

\* Invoke, Resume, Checkpoint and Crash touch no table.
LEMMA AroundKeeps ==
  ASSUME IInv, NEW g \in Threads, Invoke(g) \/ Resume(g) \/ Checkpoint(g) \/ Crash(g)
  PROVE  IInv'
  <1>1. UNCHANGED <<workflow, tasks, artifacts, turns, memories>> /\ UNCHANGED callVars
    BY DEF Invoke, Resume, Checkpoint, Crash, tables, storeVars, callVars
  <1>2. CallsOK' /\ Lasting
    BY <1>1, CallsStay DEF IInv
  <1>3. crashes' \in 0..MaxCrashes
    BY GraphAssumption DEF IInv, StoreOK, Invoke, Resume, Checkpoint, Crash
  <1>4. StoreOK'
    BY <1>1, <1>3 DEF IInv, StoreOK
  <1>5. CASE Invoke(g)
    BY <1>2, <1>4, <1>5, EntryOK, InsideKeeps DEF IInv, Invoke, Entry
  <1>6. CASE Resume(g)
    <2> PICK answer \in Verdicts : Inside(g, [Entry EXCEPT !.answer = answer])
      BY <1>6 DEF Resume
    <2> DEFINE l == [Entry EXCEPT !.answer = answer]
    <2>1. LocalOK(l, graph[g], invoked') /\ l.pc \notin {"off", "interrupted"}
      BY DEF LocalOK, Entry, Local
    <2> HIDE DEF l
    <2>2. Inside(g, l)
      BY DEF l
    <2>3. QED
      BY <1>2, <1>4, <2>1, <2>2, InsideKeeps DEF IInv
  <1>7. CASE Checkpoint(g)
    <2>1. /\ graph' = [graph EXCEPT ![g] = graph[g]]
          /\ saved' = [saved EXCEPT ![g] = graph[g]]
          /\ local' = [local EXCEPT ![g] = local[g]]
      BY <1>7 DEF Checkpoint, IInv, ThreadsOK
    <2>2. StateOK(graph[g], approvals')
      BY <1>2, StateLasts DEF IInv, ThreadsOK
    <2>3. LocalOK(local[g], graph[g], invoked')
      BY <1>2, LocalLasts DEF IInv, ThreadsOK
    <2>4. QED
      BY <1>2, <1>4, <2>1, <2>2, <2>3, Moves DEF IInv
  <1>8. CASE Crash(g)
    <2>1. /\ graph' = [graph EXCEPT ![g] = saved[g]]
          /\ saved' = [saved EXCEPT ![g] = saved[g]]
          /\ local' = [local EXCEPT ![g] = Off]
      BY <1>8 DEF Crash, IInv, ThreadsOK
    <2>2. StateOK(saved[g], approvals')
      BY <1>2, StateLasts DEF IInv, ThreadsOK
    <2>3. LocalOK(Off, saved[g], invoked')
      BY DEF LocalOK, Off, Entry, Local
    <2>4. QED
      BY <1>2, <1>4, <2>1, <2>2, <2>3, Moves DEF IInv
  <1>9. QED
    BY <1>2, <1>4, <1>5, <1>6, <1>7, <1>8 DEF IInv

\* The parent graph.
LEMMA ParentKeeps ==
  ASSUME IInv, NEW g \in Threads,
         \/ ValidatePlan(g) \/ ScheduleList(g) \/ ScheduleReady(g) \/ ScheduleClaim(g)
         \/ CollectDelivery(g) \/ Complete(g) \/ WorkflowFail(g)
  PROVE  IInv'
  <1> DEFINE s == graph[g]
  <1>0. /\ s \in GraphState /\ StateOK(s, approvals) /\ local[g] \in Local
        /\ s.node \in TaskNode => s.task \in Tasks
        /\ LocalOK(local[g], s, invoked)
    BY AtNode DEF IInv
  <1>1. UNCHANGED callVars
    BY DEF ValidatePlan, ScheduleList, ScheduleReady, ScheduleClaim, CollectDelivery, Complete,
       WorkflowFail, tables, storeVars, callVars
  <1>2. CallsOK' /\ Lasting
    BY <1>1, CallsStay DEF IInv
  <1>3. UNCHANGED <<artifacts, turns, memories, crashes>>
    BY DEF ValidatePlan, ScheduleList, ScheduleReady, ScheduleClaim, CollectDelivery, Complete,
       WorkflowFail, tables, storeVars
  <1>4. workflow' \in WorkflowStatus
    BY DEF ValidatePlan, ScheduleList, ScheduleReady, ScheduleClaim, CollectDelivery, Complete,
       WorkflowFail, tables, storeVars, SetWorkflowStatus, WorkflowStatus, IInv, StoreOK
  <1>5. tasks' \in [Tasks -> TaskRow] /\ ThreadsOK'
    <2>1. ~ScheduleClaim(g) => tasks' = tasks
      BY DEF ValidatePlan, ScheduleList, ScheduleReady, CollectDelivery, Complete,
         WorkflowFail, tables, storeVars
    <2>2. CASE ValidatePlan(g)
      BY <1>0, <1>2, <2>1, <2>2, NodeType, EndNodeKeeps DEF ValidatePlan, ScheduleClaim, At, IInv, StoreOK
    <2>3. CASE ScheduleList(g)
      <3> DEFINE l == [Entry EXCEPT !.pc = "ready", !.seen = Succeeded = Tasks]
      <3>1. LocalOK(l, s, invoked') /\ l.pc \notin {"off", "interrupted"}
        BY DEF LocalOK, Entry, Local
      <3>2. EndNode(g, [s EXCEPT !.node = "workflow_fail"]) \/ Inside(g, l)
        BY <2>3 DEF ScheduleList
      <3> HIDE DEF l
      <3>3. tasks' = tasks
        BY <2>3 DEF ScheduleList, tables, storeVars
      <3>4. QED
        BY <1>0, <1>2, <3>1, <3>2, <3>3, NodeType, EndNodeKeeps, InsideKeeps DEF IInv, StoreOK
    <2>4. CASE ScheduleReady(g)
      <3>1. tasks' = tasks
        BY <2>4 DEF ScheduleReady, tables, storeVars
      <3>2. CASE EndNode(g, [s EXCEPT !.node = NothingReady(local[g].seen)])
        BY <1>0, <1>2, <3>1, <3>2, NodeType, EndNodeKeeps DEF IInv, StoreOK, NothingReady
      <3>3. ASSUME NEW t \in ReadyTasks, Inside(g, [Entry EXCEPT !.pc = "claim", !.pick = t])
            PROVE  ThreadsOK'
        <4> DEFINE l == [Entry EXCEPT !.pc = "claim", !.pick = t]
        <4>1. LocalOK(l, s, invoked') /\ l.pc \notin {"off", "interrupted"}
          BY DEF LocalOK, Entry, Local, ReadyTasks
        <4> HIDE DEF l
        <4>2. Inside(g, l)
          BY <3>3 DEF l
        <4>3. QED
          BY <1>2, <4>1, <4>2, InsideKeeps DEF IInv
      <3>4. QED
        BY <2>4, <3>1, <3>2, <3>3 DEF ScheduleReady, IInv, StoreOK
    <2>5. CASE ScheduleClaim(g)
      <3> DEFINE t == local[g].pick
      <3>1. t \in Tasks
        BY <1>0, <2>5 DEF ScheduleClaim, At, LocalOK
      <3>2. CASE StartTask(t) /\ EndNode(g, Dispatched(s, t))
        <4>1. tasks[t] \in TaskRow
          BY <3>1 DEF IInv, StoreOK
        <4> DEFINE n == tasks[t].attempts + 1
                   row == [tasks[t] EXCEPT !.status = "running", !.attempts = n]
        <4>2. n \in Nat
          BY <4>1 DEF TaskRow
        <4>3. tasks' = [tasks EXCEPT ![t] = row]
          BY <3>2 DEF StartTask
        <4> HIDE DEF n
        <4>7. row \in TaskRow
          BY <4>1, <4>2 DEF TaskRow, TaskStatus
        <4> HIDE DEF row
        <4>4. tasks' \in [Tasks -> TaskRow]
          BY <4>3, <4>7, RowType DEF IInv
        <4>5. ThreadsOK'
          BY <1>0, <1>2, <3>1, <3>2, DispatchedType, EndNodeKeeps DEF IInv
        <4>6. QED
          BY <4>4, <4>5
      <3>3. CASE tasks' = tasks /\ EndNode(g, [s EXCEPT !.node = "workflow_fail"])
        BY <1>0, <1>2, <3>3, NodeType, EndNodeKeeps DEF IInv, StoreOK
      <3>4. QED
        BY <2>5, <3>2, <3>3 DEF ScheduleClaim
    <2>6. CASE CollectDelivery(g)
      <3>1. s.task \in Tasks /\ s.status \in {"succeeded", "failed"}
        BY <1>0, <2>6 DEF CollectDelivery, At, TaskNode, StateOK, GraphState
      <3> DEFINE d == {e \in s.deliveries : e[1] # s.task} \cup {<<s.task, s.status>>}
                 u == [s EXCEPT !.deliveries = d]
      <3>2. u \in GraphState
        BY <1>0, <3>1 DEF GraphState
      <3>3. /\ [u EXCEPT !.node = "schedule"]
                 = [s EXCEPT !.node = "schedule", !.deliveries = d]
            /\ [u EXCEPT !.node = "workflow_fail"]
                 = [s EXCEPT !.node = "workflow_fail", !.deliveries = d]
        BY <1>0 DEF GraphState
      <3>4. \/ EndNode(g, [s EXCEPT !.node = "schedule", !.deliveries = d])
            \/ EndNode(g, [s EXCEPT !.node = "workflow_fail", !.deliveries = d])
        BY <2>6 DEF CollectDelivery
      <3>5. tasks' = tasks
        BY <2>6 DEF CollectDelivery, tables, storeVars
      <3> HIDE DEF d, u
      <3>6. QED
        BY <1>2, <3>2, <3>3, <3>4, <3>5, NodeType, EndNodeKeeps DEF IInv, StoreOK
    <2>7. CASE Complete(g)
      BY <1>0, <1>2, <2>7, NodeType, ReturnKeeps DEF Complete, IInv, StoreOK
    <2>8. CASE WorkflowFail(g)
      BY <1>0, <1>2, <2>8, NodeType, ReturnKeeps DEF WorkflowFail, IInv, StoreOK
    <2>9. QED
      BY <2>2, <2>3, <2>4, <2>5, <2>6, <2>7, <2>8
  <1>6. StoreOK'
    BY <1>3, <1>4, <1>5 DEF IInv, StoreOK
  <1>7. QED
    BY <1>2, <1>5, <1>6 DEF IInv

\* The decision of a step.
LEMMA DecisionKeeps ==
  ASSUME IInv, NEW g \in Threads, CallLLM(g) \/ SaveTurn(g) \/ Validate(g)
  PROVE  IInv'
  <1> DEFINE s == graph[g]
  <1>0. /\ s \in GraphState /\ StateOK(s, approvals) /\ local[g] \in Local
        /\ s.task \in Tasks
        /\ LocalOK(local[g], s, invoked)
    BY AtNode DEF IInv, CallLLM, SaveTurn, Validate, At, TaskNode
  <1>1. UNCHANGED callVars /\ UNCHANGED <<workflow, tasks, artifacts, memories, crashes>>
    BY DEF CallLLM, SaveTurn, Validate, tables, storeVars, callVars
  <1>2. CallsOK' /\ Lasting
    BY <1>1, CallsStay DEF IInv
  <1>3. CASE CallLLM(g)
    <2>1. StoreOK'
      BY <1>1, <1>3, StoreStays DEF CallLLM, tables, IInv
    <2>2. CASE s.step >= MaxSteps /\ EndNode(g, [s EXCEPT !.node = "fail", !.status = "failed", !.turn = None])
      <3> DEFINE u == [s EXCEPT !.status = "failed", !.turn = None]
      <3>1. u \in GraphState /\ u.task \in Tasks
        BY <1>0 DEF GraphState
      <3>2. [u EXCEPT !.node = "fail"] = [s EXCEPT !.node = "fail", !.status = "failed", !.turn = None]
        BY <1>0 DEF GraphState
      <3> HIDE DEF u
      <3>3. QED
        BY <1>2, <2>1, <2>2, <3>1, <3>2, TaskNodeType, EndNodeKeeps DEF IInv
    <2>3. CASE s.step < MaxSteps /\ EndNode(g, Decided(s, SavedTurn(s)))
      <3>1. s.step \in Steps
        BY <1>0, <2>3, GraphAssumption DEF Steps, GraphState
      <3>2. SavedTurn(s) \in Decision \cup {None}
        BY <1>0, <3>1 DEF SavedTurn, IInv, StoreOK
      <3>3. QED
        BY <1>0, <1>2, <2>1, <2>3, <3>2, DecidedType, EndNodeKeeps DEF IInv
    <2>4. ASSUME s.step < MaxSteps, NEW d \in Decision,
                 Inside(g, [Entry EXCEPT !.pc = "save", !.turn = d])
          PROVE  IInv'
      <3> DEFINE l == [Entry EXCEPT !.pc = "save", !.turn = d]
      <3>1. LocalOK(l, s, invoked') /\ l.pc \notin {"off", "interrupted"}
        BY <2>4 DEF LocalOK, Entry, Local
      <3> HIDE DEF l
      <3>2. Inside(g, l)
        BY <2>4 DEF l
      <3>3. QED
        BY <1>2, <2>1, <3>1, <3>2, InsideKeeps DEF IInv
    <2>5. CASE Raise(g)
      BY <1>2, <2>1, <2>5, StopKeeps DEF Raise, IInv
    <2>6. QED
      BY <1>3, <2>2, <2>3, <2>4, <2>5 DEF CallLLM
  <1>4. CASE SaveTurn(g)
    <2>1. s.step < MaxSteps /\ s.step \in Steps /\ local[g].turn \in Decision \cup {None}
      BY <1>0, <1>4, GraphAssumption DEF SaveTurn, At, LocalOK, Local, GraphState, Steps
    <2>2. turns' \in [Tasks -> [Steps -> Decision \cup {None}]]
      BY <1>0, <1>4, <2>1 DEF SaveTurn, IInv, StoreOK
    <2>3. StoreOK'
      BY <1>1, <2>2 DEF IInv, StoreOK
    <2>4. ThreadsOK'
      BY <1>0, <1>2, <1>4, <2>1, DecidedType, EndNodeKeeps DEF SaveTurn, IInv
    <2>5. QED
      BY <1>2, <2>3, <2>4 DEF IInv
  <1>5. CASE Validate(g)
    <2>1. StoreOK'
      BY <1>1, <1>5, StoreStays DEF Validate, tables, IInv
    <2>2. s.node = "validate"
      BY <1>5 DEF Validate, At
    <2>3. CASE EndNode(g, [s EXCEPT !.node = Corrected(s)])
      BY <1>0, <1>2, <2>1, <2>3, TaskNodeType, EndNodeKeeps DEF IInv, Corrected
    <2>4. CASE s.turn \in Tools /\ Gated(s.turn) /\ EndNode(g, [s EXCEPT !.node = "approval"])
      <3>1. StateOK([s EXCEPT !.node = "approval"], approvals)
        BY <1>0, <2>2, <2>4, ToApprovalType
      <3>2. QED
        BY <1>2, <2>1, <2>4, <3>1, StateLasts, EndNodeKeeps DEF IInv
    <2>5. CASE s.turn \in Tools /\ ~Gated(s.turn) /\ EndNode(g, [s EXCEPT !.node = "tool"])
      <3>1. StateOK([s EXCEPT !.node = "tool"], approvals)
        BY <1>0, <2>2, <2>5, ToToolType
      <3>2. QED
        BY <1>2, <2>1, <2>5, <3>1, StateLasts, EndNodeKeeps DEF IInv
    <2>6. ASSUME NEW output \in Outputs, EndNode(g, [s EXCEPT !.node = "memory", !.output = output])
          PROVE  IInv'
      <3> DEFINE u == [s EXCEPT !.output = output]
      <3>1. u \in GraphState /\ u.task \in Tasks
        BY <1>0 DEF GraphState
      <3>2. [u EXCEPT !.node = "memory"] = [s EXCEPT !.node = "memory", !.output = output]
        BY <1>0 DEF GraphState
      <3> HIDE DEF u
      <3>3. QED
        BY <1>2, <2>1, <2>6, <3>1, <3>2, TaskNodeType, EndNodeKeeps DEF IInv
    <2>7. QED
      BY <1>5, <2>3, <2>4, <2>5, <2>6 DEF Validate
  <1>6. QED
    BY <1>3, <1>4, <1>5

\* The approval node.
LEMMA ApprovalKeeps ==
  ASSUME IInv, NEW g \in Threads, ApprovalStatusOf(g) \/ ApprovalWait(g) \/ ApprovalAnswer(g)
  PROVE  IInv'
  <1> DEFINE s == graph[g]
             c == Call(s)
  <1>0. /\ s \in GraphState /\ StateOK(s, approvals) /\ local[g] \in Local
        /\ s.node = "approval" /\ s.task \in Tasks /\ s.turn \in Tools
        /\ LocalOK(local[g], s, invoked)
    BY AtNode DEF IInv, ApprovalStatusOf, ApprovalWait, ApprovalAnswer, At, TaskNode, StateOK
  <1>1. c \in Calls
    BY <1>0, CallType
  <1>2. UNCHANGED <<workflow, artifacts, turns, memories, crashes, ledger, invoked>>
    BY DEF ApprovalStatusOf, ApprovalWait, ApprovalAnswer
  <1>3. CASE ApprovalStatusOf(g)
    <2>1. CallsOK' /\ Lasting
      BY <1>1, <1>2, <1>3, RequestType DEF ApprovalStatusOf, IInv
    <2>2. StoreOK'
      BY <1>2, <1>3, StoreStays DEF ApprovalStatusOf, IInv
    <2>3. CASE Authorized(c) /\ EndNode(g, [s EXCEPT !.node = "tool"])
      <3>1. StateOK([s EXCEPT !.node = "tool"], approvals)
        BY <1>0, <2>3, ToToolType DEF Authorized
      <3>2. QED
        BY <2>1, <2>2, <2>3, <3>1, StateLasts, EndNodeKeeps DEF IInv
    <2>4. CASE EndNode(g, Rejected(s))
      BY <1>0, <2>1, <2>2, <2>4, FailedType, EndNodeKeeps DEF IInv
    <2>5. CASE Inside(g, [local[g] EXCEPT !.pc = "wait"])
      <3> DEFINE l == [local[g] EXCEPT !.pc = "wait"]
      <3>1. LocalOK(l, s, invoked') /\ l.pc \notin {"off", "interrupted"}
        BY <1>0 DEF LocalOK, Local
      <3> HIDE DEF l
      <3>2. Inside(g, l)
        BY <2>5 DEF l
      <3>3. QED
        BY <2>1, <2>2, <3>1, <3>2, InsideKeeps DEF IInv
    <2>6. QED
      BY <1>3, <2>3, <2>4, <2>5 DEF ApprovalStatusOf
  <1>4. CASE ApprovalWait(g)
    <2>1. CallsOK' /\ Lasting
      BY <1>2, <1>4, CallsStay DEF ApprovalWait, IInv, callVars
    <2>2. tasks' \in [Tasks -> TaskRow]
      BY <1>0, <1>4, StatusType DEF ApprovalWait, WaitForApproval, IInv, TaskStatus
    <2>3. StoreOK'
      BY <1>2, <2>2 DEF IInv, StoreOK
    <2>4. CASE Return(g, s, "interrupted")
      BY <2>1, <2>3, <2>4, StopKeeps DEF IInv
    <2>5. CASE local[g].answer # None /\ Inside(g, [local[g] EXCEPT !.pc = "answer"])
      <3> DEFINE l == [local[g] EXCEPT !.pc = "answer"]
      <3>1. LocalOK(l, s, invoked') /\ l.pc \notin {"off", "interrupted"}
        BY <1>0, <2>5 DEF LocalOK, Local
      <3> HIDE DEF l
      <3>2. Inside(g, l)
        BY <2>5 DEF l
      <3>3. QED
        BY <2>1, <2>3, <3>1, <3>2, InsideKeeps DEF IInv
    <2>6. QED
      BY <1>4, <2>4, <2>5 DEF ApprovalWait
  <1>5. CASE ApprovalAnswer(g)
    <2>1. local[g].answer \in Verdicts
      BY <1>0, <1>5 DEF ApprovalAnswer, At, LocalOK, Local
    <2>2. CASE /\ DecideApproval(c, local[g].answer)
               /\ EndNode(g, IF local[g].answer = "approved" THEN [s EXCEPT !.node = "tool"]
                             ELSE Rejected(s))
      <3>1. /\ tasks' \in [Tasks -> TaskRow]
            /\ CallsOK' /\ Lasting
            /\ approvals'[c] = local[g].answer
        BY <1>1, <1>2, <2>1, <2>2, DecideType DEF IInv
      <3>2. StoreOK'
        BY <1>2, <3>1 DEF IInv, StoreOK
      <3>3. StateOK(s, approvals')
        BY <1>0, <3>1, StateLasts
      <3>4. CASE local[g].answer = "approved"
        <4>1. StateOK([s EXCEPT !.node = "tool"], approvals')
          BY <1>0, <3>1, <3>3, <3>4, ToToolType
        <4>2. QED
          BY <2>2, <3>1, <3>2, <3>4, <4>1, EndNodeKeeps DEF IInv
      <3>5. CASE local[g].answer # "approved"
        BY <1>0, <2>2, <3>1, <3>2, <3>5, FailedType, EndNodeKeeps DEF IInv
      <3>6. QED
        BY <3>4, <3>5
    <2>3. CASE Raise(g) /\ UNCHANGED <<approvals, tasks>>
      <3>1. CallsOK' /\ Lasting
        BY <1>2, <2>3, CallsStay DEF IInv, callVars
      <3>2. StoreOK'
        BY <1>2, <2>3, StoreStays DEF IInv
      <3>3. QED
        BY <2>3, <3>1, <3>2, StopKeeps DEF Raise, IInv
    <2>4. QED
      BY <1>5, <2>2, <2>3 DEF ApprovalAnswer
  <1>6. QED
    BY <1>3, <1>4, <1>5

\* The tool node.
LEMMA ToolKeeps ==
  ASSUME IInv, NEW g \in Threads, ToolClaim(g) \/ ToolRecord(g)
  PROVE  IInv'
  <1> DEFINE s == graph[g]
             c == Call(s)
  <1>0. /\ s \in GraphState /\ StateOK(s, approvals)
        /\ s.node = "tool" /\ s.task \in Tasks
        /\ LocalOK(local[g], s, invoked)
    BY AtNode DEF IInv, ToolClaim, ToolRecord, At, TaskNode
  <1>1. c \in Calls /\ c.tool = s.turn
    BY <1>0, CallType
  <1>2. CallOK(c) /\ invoked[c] \in 0..2 /\ (Gated(c.tool) => approvals[c] = "approved")
    BY <1>0, <1>1 DEF IInv, CallsOK, StateOK
  <1>3. UNCHANGED <<workflow, tasks, approvals, artifacts, turns, memories, crashes>>
    BY DEF ToolClaim, ToolRecord, storeVars
  <1>4. StoreOK'
    BY <1>3, StoreStays DEF IInv
  <1>5. StateOK([s EXCEPT !.node = "llm"], approvals')
    BY <1>0, TaskNodeType
  <1>6. ASSUME UNCHANGED <<ledger, invoked>>, EndNode(g, [s EXCEPT !.node = "llm"]) \/ Raise(g)
        PROVE  IInv'
    <2>1. CallsOK' /\ Lasting
      BY <1>3, <1>6, CallsStay DEF IInv, callVars
    <2>2. QED
      BY <1>4, <1>5, <1>6, <2>1, EndNodeKeeps, StopKeeps DEF Raise, IInv
  <1>7. ASSUME Claimable(c),
               ledger' = [ledger EXCEPT ![c] = "running"],
               invoked' = [invoked EXCEPT ![c] = IF @ < 2 THEN @ + 1 ELSE @],
               Inside(g, [Entry EXCEPT !.pc = "in_tool"])
        PROVE  IInv'
    <2>1. /\ invoked'[c] \in 0..2 /\ invoked'[c] > 0
          /\ invoked[c] = 0 => invoked'[c] = 1
          /\ invoked' \in [Calls -> 0..2]
      BY <1>1, <1>2, <1>7 DEF IInv, CallsOK
    <2>2. ledger' \in [Calls -> {"absent", "running", "succeeded", "failed", "uncertain"}]
      BY <1>7 DEF IInv, CallsOK
    <2>3. ledger'[c] = "running"
      BY <1>1, <1>7 DEF IInv, CallsOK
    <2>4. \A d \in Calls : d # c => ledger'[d] = ledger[d] /\ invoked'[d] = invoked[d]
      BY <1>7 DEF IInv, CallsOK
    <2>5. NonIdempotent(c.tool) => invoked[c] = 0
      BY <1>2, <1>7 DEF Claimable, CallOK
    <2>6. \A d \in Calls : d = c => CallOK(d)'
      BY <1>2, <1>3, <2>1, <2>3, <2>5 DEF CallOK, NonIdempotent, Gated
    <2>7. \A d \in Calls : CallOK(d)'
      BY <1>3, <2>4, <2>6 DEF CallOK, IInv, CallsOK, NonIdempotent, Gated
    <2>8. CallsOK'
      BY <1>3, <2>1, <2>2, <2>7 DEF IInv, CallsOK
    <2>9. Lasting
      BY <1>3, <2>1, <2>4 DEF Lasting
    <2> DEFINE l == [Entry EXCEPT !.pc = "in_tool"]
    <2>10. LocalOK(l, s, invoked') /\ l.pc \notin {"off", "interrupted"}
      BY <1>0, <2>1 DEF LocalOK, Entry, Local
    <2> HIDE DEF l
    <2>11. Inside(g, l)
      BY <1>7 DEF l
    <2>12. QED
      BY <1>4, <2>8, <2>9, <2>10, <2>11, InsideKeeps DEF IInv
  <1>8. ASSUME ToolRecord(g), NEW status \in {"succeeded", "uncertain", "failed"},
               status = "failed" => ~NonIdempotent(c.tool),
               ledger' = [ledger EXCEPT ![c] = status],
               EndNode(g, [s EXCEPT !.node = "llm"]) \/ Raise(g)
        PROVE  IInv'
    <2>1. invoked[c] > 0 /\ invoked' = invoked
      BY <1>0, <1>8 DEF ToolRecord, At, LocalOK
    <2>2. ledger' \in [Calls -> {"absent", "running", "succeeded", "failed", "uncertain"}]
      BY <1>8 DEF IInv, CallsOK
    <2>3. ledger'[c] = status /\ \A d \in Calls : d # c => ledger'[d] = ledger[d]
      BY <1>1, <1>8 DEF IInv, CallsOK
    <2>4. \A d \in Calls : d = c => CallOK(d)'
      BY <1>2, <1>3, <1>8, <2>1, <2>3 DEF CallOK, NonIdempotent, Gated
    <2>5. \A d \in Calls : CallOK(d)'
      BY <1>3, <2>1, <2>3, <2>4 DEF CallOK, IInv, CallsOK, NonIdempotent, Gated
    <2>6. CallsOK' /\ Lasting
      BY <1>3, <2>1, <2>2, <2>5 DEF IInv, CallsOK, Lasting
    <2>7. QED
      BY <1>4, <1>5, <1>8, <2>6, EndNodeKeeps, StopKeeps DEF Raise, IInv
  <1>9. CASE ToolClaim(g)
    BY <1>6, <1>7, <1>9 DEF ToolClaim
  <1>10. CASE ToolRecord(g)
    <2>1. CASE ledger' = [ledger EXCEPT ![c] = "succeeded"] /\ EndNode(g, [s EXCEPT !.node = "llm"])
      BY <1>8, <1>10, <2>1
    <2>2. CASE /\ ledger' = [ledger EXCEPT ![c] = IF NonIdempotent(c.tool) THEN "uncertain" ELSE "failed"]
               /\ Raise(g)
      BY <1>8, <1>10, <2>2
    <2>3. QED
      BY <1>10, <2>1, <2>2 DEF ToolRecord
  <1>11. QED
    BY <1>9, <1>10

\* The ends of a task, and the reviewer.
LEMMA OutcomeKeeps ==
  ASSUME IInv, NEW g \in Threads, CommitMemory(g) \/ Finalize(g) \/ FailRead(g) \/ FailWrite(g)
  PROVE  IInv'
  <1> DEFINE s == graph[g]
  <1>0. s \in GraphState /\ s.task \in Tasks
    BY AtNode DEF IInv, CommitMemory, Finalize, FailRead, FailWrite, At, TaskNode
  <1>1. UNCHANGED callVars /\ UNCHANGED <<workflow, artifacts, turns, crashes>>
    BY DEF CommitMemory, Finalize, FailRead, FailWrite, tables, storeVars, callVars
  <1>2. CallsOK' /\ Lasting
    BY <1>1, CallsStay DEF IInv
  <1>3. tasks[s.task] \in TaskRow
    BY <1>0 DEF IInv, StoreOK
  <1>4. CASE CommitMemory(g)
    <2>1. StoreOK'
      BY <1>0, <1>1, <1>4 DEF CommitMemory, storeVars, IInv, StoreOK
    <2>2. QED
      BY <1>0, <1>2, <1>4, <2>1, TaskNodeType, EndNodeKeeps DEF CommitMemory, IInv
  <1>5. CASE Finalize(g)
    <2>1. CASE FinishTask(s.task, s.output)
               /\ EndNode(g, [s EXCEPT !.node = "collect_delivery", !.status = "succeeded"])
      <3> DEFINE row == [tasks[s.task] EXCEPT !.status = "succeeded", !.output = s.output]
                 u == [s EXCEPT !.node = "collect_delivery", !.status = "succeeded"]
      <3>1. row \in TaskRow
        BY <1>0, <1>3 DEF TaskRow, TaskStatus, GraphState
      <3>2. tasks' = [tasks EXCEPT ![s.task] = row]
        BY <2>1 DEF FinishTask
      <3>3. StateOK(u, approvals')
        BY <1>0 DEF StateOK, GraphState, Node, TaskNode
      <3> HIDE DEF row, u
      <3>4. tasks' \in [Tasks -> TaskRow]
        BY <3>1, <3>2, RowType DEF IInv
      <3>5. StoreOK'
        BY <1>1, <1>5, <3>4 DEF Finalize, IInv, StoreOK
      <3>6. EndNode(g, u)
        BY <2>1 DEF u
      <3>7. QED
        BY <1>2, <3>3, <3>5, <3>6, EndNodeKeeps DEF IInv
    <2>2. CASE Raise(g) /\ UNCHANGED tasks
      <3>1. StoreOK'
        BY <1>1, <1>5, <2>2 DEF Finalize, IInv, StoreOK
      <3>2. QED
        BY <1>2, <2>2, <3>1, StopKeeps DEF Raise, IInv
    <2>3. QED
      BY <1>5, <2>1, <2>2 DEF Finalize
  <1>6. CASE FailRead(g)
    <2>1. StoreOK'
      BY <1>1, <1>6, StoreStays DEF FailRead, tables, storeVars, IInv
    <2>2. CASE EndNode(g, FailedState(s))
      BY <1>0, <1>2, <2>1, <2>2, FailedType, EndNodeKeeps DEF IInv
    <2>3. CASE Inside(g, [Entry EXCEPT !.pc = "write"])
      <3> DEFINE l == [Entry EXCEPT !.pc = "write"]
      <3>1. LocalOK(l, s, invoked') /\ l.pc \notin {"off", "interrupted"}
        BY DEF LocalOK, Entry, Local
      <3> HIDE DEF l
      <3>2. Inside(g, l)
        BY <2>3 DEF l
      <3>3. QED
        BY <1>2, <2>1, <3>1, <3>2, InsideKeeps DEF IInv
    <2>4. QED
      BY <1>6, <2>2, <2>3 DEF FailRead
  <1>7. CASE FailWrite(g)
    <2>1. FailedStatus(s.task, FALSE) \in TaskStatus
      BY DEF FailedStatus, TaskStatus
    <2>2. tasks' = [tasks EXCEPT ![s.task].status = FailedStatus(s.task, FALSE)]
      BY <1>7 DEF FailWrite, FailTask
    <2>3. tasks' \in [Tasks -> TaskRow]
      BY <1>0, <2>1, <2>2, StatusType DEF IInv
    <2>4. StoreOK'
      BY <1>1, <1>7, <2>3 DEF FailWrite, IInv, StoreOK
    <2>5. QED
      BY <1>0, <1>2, <1>7, <2>4, FailedType, EndNodeKeeps DEF FailWrite, IInv
  <1>8. QED
    BY <1>4, <1>5, <1>6, <1>7

LEMMA DecideKeeps ==
  ASSUME IInv, NEW c \in Calls, Decide(c)
  PROVE  IInv'
  <1> PICK verdict \in Verdicts : DecideApproval(c, verdict)
    BY DEF Decide
  <1>1. UNCHANGED <<workflow, artifacts, turns, memories, crashes, ledger, invoked>>
        /\ UNCHANGED graphVars
    BY DEF Decide
  <1>2. tasks' \in [Tasks -> TaskRow] /\ CallsOK' /\ Lasting
    BY <1>1, DecideType DEF IInv
  <1>3. StoreOK'
    BY <1>1, <1>2 DEF IInv, StoreOK
  <1>4. QED
    BY <1>1, <1>2, <1>3, ThreadsStay DEF IInv

LEMMA NextInvariant == IInv /\ [Next]_vars => IInv'
  <1> SUFFICES ASSUME IInv, [Next]_vars PROVE IInv'
    OBVIOUS
  <1>1. ASSUME NEW g \in Threads, Proceed(g) PROVE IInv'
    BY <1>1, ParentKeeps, DecisionKeeps, ApprovalKeeps, ToolKeeps, OutcomeKeeps DEF Proceed
  <1>2. CASE UNCHANGED vars
    <2>1. /\ UNCHANGED callVars /\ UNCHANGED graphVars
          /\ UNCHANGED <<workflow, tasks, artifacts, turns, memories, crashes>>
      BY <1>2 DEF vars, tables, storeVars, callVars
    <2>2. CallsOK' /\ Lasting /\ StoreOK'
      BY <2>1, CallsStay, StoreStays DEF IInv
    <2>3. QED
      BY <2>1, <2>2, ThreadsStay DEF IInv
  <1>3. QED
    BY <1>1, <1>2, AroundKeeps, DecideKeeps DEF Next

-----------------------------------------------------------------------------
(* Theorems *)

\* The strengthening holds in every reachable state.
THEOREM Inductive == Spec => []IInv
  BY InitInvariant, NextInvariant, PTL DEF Spec

\* Every variable keeps its type, and a thread that no process runs stands at its
\* checkpoint.
THEOREM TypeCorrect == Spec => []TypeOK
  <1>1. IInv => TypeOK
    BY DEF IInv, StoreOK, CallsOK, ThreadsOK, TypeOK
  <1>2. QED
    BY <1>1, Inductive, PTL

\* However many threads run a workflow and whatever their crashes make them repeat, a
\* non-idempotent call is started once: its row remembers it before the tool does.
THEOREM StartedOnce == Spec => []RiskyCallOnce
  <1>1. IInv => RiskyCallOnce
    BY DEF IInv, CallsOK, CallOK, RiskyCallOnce
  <1>2. QED
    BY <1>1, Inductive, PTL

\* No thread starts a gated call that was not approved, not even from a checkpoint
\* older than the decision.
THEOREM ApprovedFirst == Spec => []ApprovedBeforeTool
  <1>1. IInv => ApprovedBeforeTool
    BY DEF IInv, CallsOK, CallOK, ApprovedBeforeTool
  <1>2. QED
    BY <1>1, Inductive, PTL
=============================================================================
