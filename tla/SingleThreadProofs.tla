------------------------- MODULE SingleThreadProofs -------------------------
(***************************************************************************)
(* What a workflow graph promises when one graph thread at most runs it,   *)
(* as the command line does: proofs for every plan, every set of tools,    *)
(* any number of steps and crashes, and checkpoints as late as they like.  *)
(*                                                                         *)
(* The argument.  The saved decisions of a task fix the way of its agent:  *)
(* whatever node runs again from whatever checkpoint walks the same way,   *)
(* to the deliverable (Completed) or to the failure (Doomed), and no task  *)
(* has both.  With a second thread none of this holds: two processes may   *)
(* sample different decisions for one step, and approval_node overwrites   *)
(* what the other thread made of the task.                                 *)
(***************************************************************************)
EXTENDS WorkflowGraphProofs

OneThread == \A g, h \in Threads : g = h

\* The call that a decision of a step stands for.
CallAt(t, n, tool) == [task |-> t, step |-> n, tool |-> tool]

\* Step n of task t lies behind its agent: its saved decision was invalid, or its call
\* went through.
Passed(t, n) ==
  \/ turns[t][n] = "invalid"
  \/ /\ turns[t][n] \in Tools
     /\ ledger[CallAt(t, n, turns[t][n])] = "succeeded"
     /\ Gated(turns[t][n]) => approvals[CallAt(t, n, turns[t][n])] = "approved"

\* The agent of task t has come as far as step n.
Reached(t, n) == \A m \in Steps : m < n => Passed(t, m)

\* Call c is that of the saved decision of its step.
Told(c) == turns[c.task][c.step] = c.tool /\ Reached(c.task, c.step)

\* The saved decisions of task t lead to a deliverable ...
Completed(t) == \E n \in Steps : turns[t][n] = "final" /\ Reached(t, n)

\* ... or to its failure: out of steps, or at a call that was rejected.
Doomed(t) ==
  \/ Reached(t, MaxSteps)
  \/ \E c \in Calls : c.task = t /\ Told(c) /\ Gated(c.tool) /\ approvals[c] = "rejected"

\* The state s, in memory or in a checkpoint, stands on the saved decisions.
StepOK(s) ==
  /\ s.node = "llm" => Reached(s.task, s.step)
  /\ s.node \in {"validate", "approval", "tool"} =>
       /\ s.turn \in Decision
       /\ turns[s.task][s.step - 1] = s.turn
       /\ Reached(s.task, s.step - 1)
  /\ s.node = "approval" => Gated(s.turn)
  /\ s.node \in {"memory", "finalize"} => Completed(s.task)
  /\ s.node = "finalize" => s.task \in memories
  /\ s.node = "fail" => Doomed(s.task)
  /\ s.node = "complete" => Succeeded = Tasks

\* What a process inside the node of state s has read is still so.
ReadOK(l, s) ==
  /\ l.pc = "save" => l.turn \in Decision /\ turns[s.task][s.step] = None
  /\ l.pc \in {"wait", "answer"} => s.node = "approval" /\ tasks[s.task].status # "succeeded"
  /\ l.pc = "in_tool" => ledger[Call(s)] = "running"
  /\ l.seen => Succeeded = Tasks

\* Requests and starts are those of saved decisions.
ToldOK ==
  \A c \in Calls :
    /\ approvals[c] # "absent" => Told(c) /\ Gated(c.tool)
    /\ invoked[c] > 0 => Told(c)

\* Outcomes are where the saved decisions lead.
OutcomesOK ==
  /\ \A t \in memories : Completed(t)
  /\ \A t \in Tasks : tasks[t].status = "succeeded" => t \in memories
  /\ \A t \in Tasks : tasks[t].status = "failed" => Doomed(t)
  /\ workflow = "succeeded" => Succeeded = Tasks

WalkOK == \A g \in Threads : StepOK(graph[g]) /\ StepOK(saved[g]) /\ ReadOK(local[g], graph[g])

OneInv == ToldOK /\ OutcomesOK /\ WalkOK

\* What no step takes back.
Grows ==
  /\ \A t \in Tasks, n \in Steps : turns[t][n] # None => turns'[t][n] = turns[t][n]
  /\ \A c \in Calls : ledger[c] = "succeeded" => ledger'[c] = "succeeded"
  /\ \A c \in Calls : approvals[c] \in {"approved", "rejected"} => approvals'[c] = approvals[c]

Keeps == \A t \in Succeeded : tasks'[t] = tasks[t]

Later == Grows /\ Keeps /\ memories \subseteq memories'

-----------------------------------------------------------------------------
(* The way of an agent *)

LEMMA CallFields ==
  ASSUME NEW c \in Calls
  PROVE  /\ c.task \in Tasks /\ c.step \in Steps /\ c.tool \in Tools
         /\ CallAt(c.task, c.step, c.tool) = c
  BY GraphAssumption DEF CallAt

LEMMA CallAtType ==
  ASSUME NEW t \in Tasks, NEW n \in Steps, NEW tool \in Tools
  PROVE  CallAt(t, n, tool) \in Calls
  BY GraphAssumption DEF CallAt

LEMMA PassedLasts ==
  ASSUME Grows, NEW t \in Tasks, NEW n \in Steps, Passed(t, n)
  PROVE  Passed(t, n)'
  <1> PICK d : d = turns[t][n]
    OBVIOUS
  <1>1. d # None
    BY GraphAssumption DEF Passed, Decision
  <1>2. turns'[t][n] = d
    BY <1>1 DEF Grows
  <1>3. d \in Tools => CallAt(t, n, d) \in Calls
    BY CallAtType
  <1>4. QED
    BY <1>2, <1>3 DEF Passed, Grows, Gated, CallAt

LEMMA ReachedLasts ==
  ASSUME Grows, NEW t \in Tasks, NEW n, Reached(t, n)
  PROVE  Reached(t, n)'
  BY PassedLasts DEF Reached

LEMMA ToldLasts ==
  ASSUME Grows, NEW c \in Calls, Told(c)
  PROVE  Told(c)'
  <1>1. c.task \in Tasks /\ c.step \in Steps /\ c.tool # None
    BY CallFields, GraphAssumption DEF Decision
  <1>2. turns'[c.task][c.step] = c.tool
    BY <1>1 DEF Told, Grows
  <1>3. Reached(c.task, c.step)'
    BY <1>1, ReachedLasts DEF Told
  <1>4. QED
    BY <1>2, <1>3 DEF Told

LEMMA CompletedLasts ==
  ASSUME Grows, NEW t \in Tasks, Completed(t)
  PROVE  Completed(t)'
  <1> PICK n \in Steps : turns[t][n] = "final" /\ Reached(t, n)
    BY DEF Completed
  <1>1. turns'[t][n] = "final"
    BY GraphAssumption DEF Grows, Decision
  <1>2. Reached(t, n)'
    BY ReachedLasts
  <1>3. QED
    BY <1>1, <1>2 DEF Completed

LEMMA DoomedLasts ==
  ASSUME Grows, NEW t \in Tasks, Doomed(t)
  PROVE  Doomed(t)'
  <1>1. CASE Reached(t, MaxSteps)
    BY <1>1, ReachedLasts DEF Doomed
  <1>2. ASSUME NEW c \in Calls, c.task = t, Told(c), Gated(c.tool), approvals[c] = "rejected"
        PROVE  Doomed(t)'
    <2>1. Told(c)' /\ approvals'[c] = "rejected"
      BY <1>2, ToldLasts DEF Grows
    <2>2. QED
      BY <1>2, <2>1 DEF Doomed, Gated
  <1>3. QED
    BY <1>1, <1>2 DEF Doomed

\* An agent does not pass the step of its deliverable.
LEMMA FinalStops ==
  ASSUME NEW t, NEW n, turns[t][n] = "final", Passed(t, n)
  PROVE  FALSE
  BY GraphAssumption DEF Passed

\* The way of a task leads to one end.
LEMMA OneEnd ==
  ASSUME NEW t \in Tasks, Completed(t), Doomed(t)
  PROVE  FALSE
  <1> PICK n \in Steps : turns[t][n] = "final" /\ Reached(t, n)
    BY DEF Completed
  <1>1. n \in Nat /\ n < MaxSteps
    BY GraphAssumption DEF Steps
  <1>2. CASE Reached(t, MaxSteps)
    BY <1>1, <1>2, FinalStops DEF Reached
  <1>3. ASSUME NEW c \in Calls, c.task = t, Told(c), Gated(c.tool), approvals[c] = "rejected"
        PROVE  FALSE
    <2>1. c.step \in Steps /\ c.step \in Nat /\ c.tool \in Tools /\ CallAt(t, c.step, c.tool) = c
      BY <1>3, CallFields DEF Steps
    <2>2. turns[t][c.step] = c.tool /\ Reached(t, c.step)
      BY <1>3 DEF Told
    <2>3. CASE c.step < n
      <3>1. Passed(t, c.step)
        BY <2>1, <2>3 DEF Reached
      <3>2. QED
        BY <1>3, <2>1, <2>2, <3>1, GraphAssumption DEF Passed
    <2>4. CASE c.step = n
      BY <2>1, <2>2, <2>4, GraphAssumption
    <2>5. CASE n < c.step
      BY <2>2, <2>5, FinalStops DEF Reached
    <2>6. QED
      BY <1>1, <2>1, <2>3, <2>4, <2>5
  <1>4. QED
    BY <1>2, <1>3 DEF Doomed

\* A call of an agent whose way completes was authorized, if it needs to be.
LEMMA CompletedAuthorizes ==
  ASSUME NEW c \in Calls, Told(c), Gated(c.tool), Completed(c.task)
  PROVE  approvals[c] = "approved"
  <1> DEFINE t == c.task
  <1> PICK n \in Steps : turns[t][n] = "final" /\ Reached(t, n)
    BY DEF Completed
  <1>1. n \in Nat /\ c.step \in Nat /\ c.step \in Steps /\ c.tool \in Tools /\ CallAt(t, c.step, c.tool) = c
    BY CallFields DEF Steps
  <1>2. turns[t][c.step] = c.tool /\ Reached(t, c.step)
    BY DEF Told
  <1>3. c.step < n
    <2>1. c.step # n
      BY <1>1, <1>2, GraphAssumption
    <2>2. ~(n < c.step)
      BY <1>2, FinalStops DEF Reached
    <2>3. QED
      BY <1>1, <2>1, <2>2
  <1>4. Passed(t, c.step)
    BY <1>1, <1>3 DEF Reached
  <1>5. QED
    BY <1>1, <1>2, <1>4, GraphAssumption DEF Passed

-----------------------------------------------------------------------------
(* States and processes *)

LEMMA SucceededLasts ==
  ASSUME Keeps, Succeeded = Tasks
  PROVE  Succeeded' = Tasks
  BY DEF Keeps, Succeeded

\* A state stands on the tables of any later time.
LEMMA StepLasts ==
  ASSUME Later, NEW s, StateOK(s, approvals), StepOK(s)
  PROVE  StepOK(s)'
  <1>1. s.node \in TaskNode => s.task \in Tasks
    BY DEF StateOK
  <1>2. s.node = "llm" => Reached(s.task, s.step)'
    BY <1>1, ReachedLasts DEF Later, StepOK, TaskNode
  <1>3. s.node \in {"validate", "approval", "tool"} =>
          /\ s.turn \in Decision
          /\ turns'[s.task][s.step - 1] = s.turn
          /\ Reached(s.task, s.step - 1)'
    <2> SUFFICES ASSUME s.node \in {"validate", "approval", "tool"}
                 PROVE  /\ s.turn \in Decision
                        /\ turns'[s.task][s.step - 1] = s.turn
                        /\ Reached(s.task, s.step - 1)'
      OBVIOUS
    <2>1. /\ s.task \in Tasks /\ s.turn \in Decision
          /\ turns[s.task][s.step - 1] = s.turn
          /\ Reached(s.task, s.step - 1)
      BY <1>1 DEF StepOK, TaskNode
    <2>2. s.step - 1 \in Steps
      BY GraphAssumption DEF StateOK, Steps
    <2>3. turns'[s.task][s.step - 1] = s.turn
      BY <2>1, <2>2, GraphAssumption DEF Later, Grows
    <2>4. QED
      BY <2>1, <2>3, ReachedLasts DEF Later
  <1>4. s.node \in {"memory", "finalize"} => Completed(s.task)'
    BY <1>1, CompletedLasts DEF Later, StepOK, TaskNode
  <1>5. s.node = "finalize" => s.task \in memories'
    BY DEF Later, StepOK
  <1>6. s.node = "fail" => Doomed(s.task)'
    BY <1>1, DoomedLasts DEF Later, StepOK, TaskNode
  <1>7. s.node = "complete" => Succeeded' = Tasks
    BY SucceededLasts DEF Later, StepOK
  <1>8. s.node = "approval" => Gated(s.turn)
    BY DEF StepOK
  <1>9. QED
    BY <1>2, <1>3, <1>4, <1>5, <1>6, <1>7, <1>8 DEF StepOK, Gated

\* The thread moves to state s with checkpoint k and process l.
LEMMA WalkMoves ==
  ASSUME OneThread, ThreadsOK, NEW g \in Threads, NEW s, NEW k, NEW l,
         graph' = [graph EXCEPT ![g] = s],
         saved' = [saved EXCEPT ![g] = k],
         local' = [local EXCEPT ![g] = l],
         StepOK(s)', StepOK(k)', ReadOK(l, s)'
  PROVE  WalkOK'
  <1>1. graph'[g] = s /\ saved'[g] = k /\ local'[g] = l
    BY DEF ThreadsOK
  <1>2. \A h \in Threads : h = g
    BY DEF OneThread
  <1>3. StepOK(graph[g])' /\ StepOK(saved[g])' /\ ReadOK(local[g], graph[g])'
    BY <1>1
  <1>4. \A h \in Threads : StepOK(graph[h])' /\ StepOK(saved[h])' /\ ReadOK(local[h], graph[h])'
    BY <1>2, <1>3
  <1>5. QED
    BY <1>4 DEF WalkOK

LEMMA EntryReads == \A s : ReadOK(Entry, s)'
  BY DEF ReadOK, Entry

\* What a thread stands on, and what stays of it.
LEMMA Standing ==
  ASSUME IInv, WalkOK, NEW g \in Threads
  PROVE  /\ StateOK(graph[g], approvals) /\ StateOK(saved[g], approvals)
         /\ StepOK(graph[g]) /\ StepOK(saved[g])
         /\ ReadOK(local[g], graph[g]) /\ LocalOK(local[g], graph[g], invoked)
         /\ graph[g] \in GraphState /\ local[g] \in Local
         /\ graph[g].node \in TaskNode => graph[g].task \in Tasks
  BY DEF IInv, ThreadsOK, WalkOK, StateOK

LEMMA EndWalks ==
  ASSUME OneThread, IInv, WalkOK, Later, NEW g \in Threads, NEW s, EndNode(g, s), StepOK(s)'
  PROVE  WalkOK'
  <1> PICK k : k = saved[g]
    OBVIOUS
  <1>1. saved' = [saved EXCEPT ![g] = k]
    BY DEF EndNode, IInv, ThreadsOK
  <1>2. StepOK(k)'
    BY Standing, StepLasts
  <1>3. QED
    BY <1>1, <1>2, EntryReads, WalkMoves DEF EndNode, IInv

LEMMA InsideWalks ==
  ASSUME OneThread, IInv, WalkOK, Later, NEW g \in Threads, NEW s, s = graph[g],
         NEW l, Inside(g, l), ReadOK(l, s)'
  PROVE  WalkOK'
  <1> PICK k : k = saved[g]
    OBVIOUS
  <1>1. /\ saved' = [saved EXCEPT ![g] = k]
        /\ graph' = [graph EXCEPT ![g] = s]
        /\ local' = [local EXCEPT ![g] = l]
    BY DEF Inside, IInv, ThreadsOK
  <1>2. StepOK(k)' /\ StepOK(s)'
    BY Standing, StepLasts
  <1>3. QED
    BY <1>1, <1>2, WalkMoves DEF IInv

LEMMA ReturnWalks ==
  ASSUME OneThread, IInv, WalkOK, NEW g \in Threads, NEW s,
         NEW pc \in {"off", "interrupted"}, Return(g, s, pc), StepOK(s)'
  PROVE  WalkOK'
  <1> DEFINE l == [Entry EXCEPT !.pc = pc]
  <1>1. l.pc = pc /\ l.seen = FALSE
    BY DEF Entry
  <1>2. local' = [local EXCEPT ![g] = l]
    BY DEF Return
  <1> HIDE DEF l
  <1>3. ReadOK(l, s)'
    BY <1>1 DEF ReadOK
  <1>4. QED
    BY <1>2, <1>3, WalkMoves DEF Return, IInv

LEMMA StopWalks ==
  ASSUME OneThread, IInv, WalkOK, Later, NEW g \in Threads,
         NEW pc \in {"off", "interrupted"}, Return(g, graph[g], pc)
  PROVE  WalkOK'
  <1> PICK s : s = graph[g]
    OBVIOUS
  <1>1. StepOK(s)'
    BY Standing, StepLasts
  <1>2. Return(g, s, pc)
    OBVIOUS
  <1>3. QED
    BY <1>1, <1>2, ReturnWalks

-----------------------------------------------------------------------------
(* Tables *)

shared == <<workflow, tasks, approvals, turns, ledger, memories, invoked>>

\* Everything but the walk of the thread.
Onward == Later /\ ToldOK' /\ OutcomesOK'

LEMMA RequestsStay ==
  ASSUME ToldOK, Grows, approvals' = approvals, invoked' = invoked
  PROVE  ToldOK'
  BY ToldLasts DEF ToldOK, Gated

LEMMA OutcomesStay ==
  ASSUME OneInv, IInv, Grows, tasks' = tasks, memories' = memories,
         workflow' = "succeeded" => Succeeded = Tasks
  PROVE  Later /\ OutcomesOK'
  <1>1. Later
    BY DEF Later, Keeps
  <1>2. \A t \in memories : Completed(t)'
    BY CompletedLasts DEF OneInv, OutcomesOK, IInv, StoreOK
  <1>3. \A t \in Tasks : tasks[t].status = "failed" => Doomed(t)'
    BY DoomedLasts DEF OneInv, OutcomesOK
  <1>4. Succeeded' = Succeeded
    BY DEF Succeeded
  <1>5. QED
    BY <1>1, <1>2, <1>3, <1>4 DEF OneInv, OutcomesOK

\* The row of one task changes.
LEMMA RowChanges ==
  ASSUME OneInv, IInv, Grows, NEW t \in Tasks, NEW row, tasks' = [tasks EXCEPT ![t] = row],
         workflow' = workflow, memories' = memories,
         tasks[t].status = "succeeded" => row = tasks[t],
         row.status = "succeeded" => t \in memories,
         row.status = "failed" => Doomed(t)'
  PROVE  Later /\ OutcomesOK'
  <1>1. tasks'[t] = row /\ \A u \in Tasks : u # t => tasks'[u] = tasks[u]
    BY DEF IInv, StoreOK
  <1>2. Keeps
    BY <1>1 DEF Keeps, Succeeded
  <1>3. Later
    BY <1>2 DEF Later
  <1>4. \A u \in memories : Completed(u)'
    BY CompletedLasts DEF OneInv, OutcomesOK, IInv, StoreOK
  <1>5. ASSUME NEW u \in Tasks
        PROVE  /\ tasks'[u].status = "succeeded" => u \in memories
               /\ tasks'[u].status = "failed" => Doomed(u)'
    BY <1>1, DoomedLasts DEF OneInv, OutcomesOK
  <1>6. workflow = "succeeded" => Succeeded' = Tasks
    BY <1>2, SucceededLasts DEF OneInv, OutcomesOK
  <1>7. QED
    BY <1>3, <1>4, <1>5, <1>6 DEF OutcomesOK

LEMMA NothingGrows ==
  ASSUME turns' = turns, ledger' = ledger, approvals' = approvals
  PROVE  Grows
  BY DEF Grows

LEMMA QuietOnward ==
  ASSUME OneInv, IInv, UNCHANGED shared
  PROVE  Onward
  <1>1. Grows
    BY NothingGrows DEF shared
  <1>2. workflow' = "succeeded" => Succeeded = Tasks
    BY DEF shared, OneInv, OutcomesOK
  <1>3. tasks' = tasks /\ memories' = memories /\ approvals' = approvals /\ invoked' = invoked
    BY DEF shared
  <1>4. QED
    BY <1>1, <1>2, <1>3, OutcomesStay, RequestsStay DEF Onward, OneInv

LEMMA ReadStays ==
  ASSUME UNCHANGED shared, NEW l, NEW s, ReadOK(l, s)
  PROVE  ReadOK(l, s)'
  BY DEF shared, ReadOK, Succeeded

\* Nodes whose states stand on nothing.
LEMMA FreeStep ==
  ASSUME NEW s, s.node \in {"schedule", "workflow_fail", "end", "collect_delivery"}
  PROVE  StepOK(s)'
  BY DEF StepOK

LEMMA FreeNode ==
  ASSUME NEW s \in GraphState, NEW node \in {"schedule", "workflow_fail", "end", "collect_delivery"}
  PROVE  StepOK([s EXCEPT !.node = node])'
  <1> DEFINE u == [s EXCEPT !.node = node]
  <1>1. u.node = node
    BY DEF GraphState
  <1> HIDE DEF u
  <1>2. StepOK(u)'
    BY <1>1, FreeStep
  <1>3. QED
    BY <1>2 DEF u

\* The call of a state in front of its approval or its tool is that of a saved decision.
LEMMA CallTold ==
  ASSUME NEW s, StateOK(s, approvals), StepOK(s), s.node \in {"approval", "tool"}
  PROVE  /\ Call(s) \in Calls /\ Told(Call(s))
         /\ Call(s).task = s.task /\ Call(s).tool = s.turn
         /\ Call(s) = CallAt(s.task, s.step - 1, s.turn)
         /\ s.task \in Tasks /\ s.turn \in Tools /\ s.step - 1 \in Steps
  <1>1. Call(s) \in Calls
    BY CallType
  <1>2. Call(s).task = s.task /\ Call(s).tool = s.turn /\ Call(s).step = s.step - 1
    BY DEF Call
  <1>3. turns[s.task][s.step - 1] = s.turn /\ Reached(s.task, s.step - 1)
    BY DEF StepOK
  <1>4. s.task \in Tasks /\ s.turn \in Tools /\ s.step - 1 \in Steps
    BY GraphAssumption DEF StateOK, TaskNode, Steps
  <1>5. QED
    BY <1>1, <1>2, <1>3, <1>4 DEF Told, Call, CallAt

-----------------------------------------------------------------------------
(* Steps of the thread *)

LEMMA AroundWalks ==
  ASSUME OneThread, IInv, OneInv, NEW g \in Threads,
         Invoke(g) \/ Resume(g) \/ Checkpoint(g) \/ Crash(g)
  PROVE  Onward /\ WalkOK'
  <1>1. UNCHANGED shared
    BY DEF Invoke, Resume, Checkpoint, Crash, tables, storeVars, shared
  <1>2. Onward /\ Later
    BY <1>1, QuietOnward DEF Onward
  <1>3. WalkOK
    BY DEF OneInv
  <1> PICK s : s = graph[g]
    OBVIOUS
  <1> PICK k : k = saved[g]
    OBVIOUS
  <1>4. StepOK(s)' /\ StepOK(k)'
    BY <1>2, <1>3, Standing, StepLasts
  <1>5. CASE Invoke(g)
    <2>1. ReadOK(Entry, s)'
      BY EntryReads
    <2>2. QED
      BY <1>2, <1>3, <1>5, <2>1, InsideWalks DEF Invoke
  <1>6. CASE Resume(g)
    <2> PICK answer \in Verdicts : Inside(g, [Entry EXCEPT !.answer = answer])
      BY <1>6 DEF Resume
    <2> DEFINE l == [Entry EXCEPT !.answer = answer]
    <2>1. l.pc = "enter" /\ l.seen = FALSE
      BY DEF Entry
    <2> HIDE DEF l
    <2>2. ReadOK(l, s)'
      BY <2>1 DEF ReadOK
    <2>3. Inside(g, l)
      BY DEF l
    <2>4. QED
      BY <1>2, <1>3, <2>2, <2>3, InsideWalks
  <1>7. CASE Checkpoint(g)
    <2> PICK l : l = local[g]
      OBVIOUS
    <2>1. /\ graph' = [graph EXCEPT ![g] = s]
          /\ saved' = [saved EXCEPT ![g] = s]
          /\ local' = [local EXCEPT ![g] = l]
      BY <1>7 DEF Checkpoint, IInv, ThreadsOK
    <2>2. ReadOK(l, s)'
      BY <1>1, <1>3, Standing, ReadStays
    <2>3. QED
      BY <1>2, <1>4, <2>1, <2>2, WalkMoves DEF IInv
  <1>8. CASE Crash(g)
    <2>1. /\ graph' = [graph EXCEPT ![g] = k]
          /\ saved' = [saved EXCEPT ![g] = k]
          /\ local' = [local EXCEPT ![g] = Off]
      BY <1>8 DEF Crash, IInv, ThreadsOK
    <2>2. ReadOK(Off, k)'
      BY DEF ReadOK, Off, Entry
    <2>3. QED
      BY <1>2, <1>4, <2>1, <2>2, WalkMoves DEF IInv
  <1>9. QED
    BY <1>2, <1>5, <1>6, <1>7, <1>8

\* The parent graph, where it touches no row.
LEMMA ParentWalks ==
  ASSUME OneThread, IInv, OneInv, NEW g \in Threads,
         \/ ValidatePlan(g) \/ ScheduleList(g) \/ ScheduleReady(g)
         \/ CollectDelivery(g) \/ Complete(g) \/ WorkflowFail(g)
  PROVE  Onward /\ WalkOK'
  <1> PICK s : s = graph[g]
    OBVIOUS
  <1>1. WalkOK
    BY DEF OneInv
  <1>2. s \in GraphState /\ StepOK(s) /\ ReadOK(local[g], s) /\ local[g] \in Local
    BY <1>1, Standing
  <1>3. /\ tasks' = tasks /\ memories' = memories /\ approvals' = approvals
        /\ invoked' = invoked /\ turns' = turns /\ ledger' = ledger
    BY DEF ValidatePlan, ScheduleList, ScheduleReady, CollectDelivery, Complete, WorkflowFail,
       tables, storeVars
  <1>4. workflow' = "succeeded" => Succeeded = Tasks
    <2>1. CASE ValidatePlan(g) \/ WorkflowFail(g)
      BY <2>1 DEF ValidatePlan, WorkflowFail, SetWorkflowStatus
    <2>2. CASE Complete(g)
      BY <1>2, <2>2 DEF Complete, At, StepOK
    <2>3. CASE ScheduleList(g) \/ ScheduleReady(g) \/ CollectDelivery(g)
      BY <2>3 DEF ScheduleList, ScheduleReady, CollectDelivery, tables, storeVars, OneInv, OutcomesOK
    <2>4. QED
      BY <2>1, <2>2, <2>3
  <1>5. Onward /\ Later
    BY <1>3, <1>4, NothingGrows, OutcomesStay, RequestsStay DEF Onward, OneInv
  <1>6. CASE ValidatePlan(g)
    BY <1>1, <1>2, <1>5, <1>6, FreeNode, EndWalks DEF ValidatePlan
  <1>7. CASE ScheduleList(g)
    <2> PICK l : l = [Entry EXCEPT !.pc = "ready", !.seen = Succeeded = Tasks]
      OBVIOUS
    <2>1. l.pc = "ready" /\ (l.seen => Succeeded = Tasks)
      BY DEF Entry
    <2>2. ReadOK(l, s)'
      BY <1>5, <2>1, SucceededLasts DEF ReadOK, Later
    <2>3. EndNode(g, [s EXCEPT !.node = "workflow_fail"]) \/ Inside(g, l)
      BY <1>7 DEF ScheduleList
    <2>4. QED
      BY <1>1, <1>2, <1>5, <2>2, <2>3, FreeNode, EndWalks, InsideWalks
  <1>8. CASE ScheduleReady(g)
    <2>1. CASE EndNode(g, [s EXCEPT !.node = NothingReady(local[g].seen)])
      <3>1. CASE local[g].seen
        <4> DEFINE u == [s EXCEPT !.node = "complete"]
        <4>1. u.node = "complete"
          BY <1>2 DEF GraphState
        <4>2. EndNode(g, u)
          BY <2>1, <3>1 DEF NothingReady
        <4> HIDE DEF u
        <4>3. Succeeded' = Tasks
          BY <1>2, <1>5, <3>1, SucceededLasts DEF ReadOK, Later
        <4>4. StepOK(u)'
          BY <4>1, <4>3 DEF StepOK
        <4>5. QED
          BY <1>1, <1>5, <4>2, <4>4, EndWalks
      <3>2. CASE ~local[g].seen
        BY <1>1, <1>2, <1>5, <2>1, <3>2, FreeNode, EndWalks DEF NothingReady
      <3>3. QED
        BY <3>1, <3>2
    <2>2. ASSUME NEW t \in ReadyTasks, Inside(g, [Entry EXCEPT !.pc = "claim", !.pick = t])
          PROVE  WalkOK'
      <3> DEFINE l == [Entry EXCEPT !.pc = "claim", !.pick = t]
      <3>1. l.pc = "claim" /\ l.seen = FALSE
        BY DEF Entry
      <3>2. Inside(g, l)
        BY <2>2
      <3> HIDE DEF l
      <3>3. ReadOK(l, s)'
        BY <3>1 DEF ReadOK
      <3>4. QED
        BY <1>1, <1>5, <3>2, <3>3, InsideWalks
    <2>3. QED
      BY <1>5, <1>8, <2>1, <2>2 DEF ScheduleReady
  <1>9. CASE CollectDelivery(g)
    <2> PICK u : u = [s EXCEPT !.node = IF s.status = "failed" THEN "workflow_fail" ELSE "schedule",
                               !.deliveries = {d \in @ : d[1] # s.task} \cup {<<s.task, s.status>>}]
      OBVIOUS
    <2>1. EndNode(g, u)
      BY <1>9 DEF CollectDelivery
    <2>2. u.node \in {"schedule", "workflow_fail"}
      BY <1>2 DEF GraphState
    <2>3. StepOK(u)'
      BY <2>2 DEF StepOK
    <2>4. QED
      BY <1>1, <1>5, <2>1, <2>3, EndWalks
  <1>10. CASE Complete(g)
    BY <1>1, <1>2, <1>5, <1>10, FreeNode, ReturnWalks DEF Complete
  <1>11. CASE WorkflowFail(g)
    BY <1>1, <1>2, <1>5, <1>11, FreeNode, ReturnWalks DEF WorkflowFail
  <1>12. QED
    BY <1>5, <1>6, <1>7, <1>8, <1>9, <1>10, <1>11

\* schedule starts a task.
LEMMA ClaimWalks ==
  ASSUME OneThread, IInv, OneInv, NEW g \in Threads, ScheduleClaim(g)
  PROVE  Onward /\ WalkOK'
  <1> PICK s : s = graph[g]
    OBVIOUS
  <1> PICK t : t = local[g].pick
    OBVIOUS
  <1>1. WalkOK
    BY DEF OneInv
  <1>2. s \in GraphState /\ t \in Tasks
    BY <1>1, Standing DEF ScheduleClaim, At, LocalOK
  <1>3. /\ workflow' = workflow /\ memories' = memories /\ approvals' = approvals
        /\ invoked' = invoked /\ turns' = turns /\ ledger' = ledger
    BY DEF ScheduleClaim
  <1>4. Grows /\ ToldOK'
    BY <1>3, NothingGrows, RequestsStay DEF OneInv
  <1>5. CASE CanStart(t) /\ StartTask(t) /\ EndNode(g, Dispatched(s, t))
    <2> PICK row : row = [tasks[t] EXCEPT !.status = "running", !.attempts = @ + 1]
      OBVIOUS
    <2>1. tasks' = [tasks EXCEPT ![t] = row]
      BY <1>5 DEF StartTask
    <2>2. tasks[t].status = "pending" /\ row.status = "running"
      BY <1>2, <1>5 DEF CanStart, IInv, StoreOK, TaskRow
    <2>3. Later /\ OutcomesOK'
      BY <1>2, <1>3, <1>4, <2>1, <2>2, RowChanges
    <2> DEFINE u == Dispatched(s, t)
    <2>4. u.node = "llm" /\ u.task = t /\ u.step = 0
      BY <1>2 DEF Dispatched, GraphState
    <2> HIDE DEF u
    <2>5. Reached(t, 0)'
      BY GraphAssumption DEF Reached, Steps
    <2>6. StepOK(u)'
      BY <2>4, <2>5 DEF StepOK
    <2>7. WalkOK'
      BY <1>1, <1>5, <2>3, <2>6, EndWalks DEF u
    <2>8. QED
      BY <1>4, <2>3, <2>7 DEF Onward
  <1>6. CASE EndNode(g, [s EXCEPT !.node = "workflow_fail"]) /\ UNCHANGED tasks
    <2>1. Onward /\ Later
      BY <1>3, <1>6, QuietOnward DEF shared, Onward
    <2>2. QED
      BY <1>1, <1>2, <1>6, <2>1, FreeNode, EndWalks
  <1>7. \/ CanStart(t) /\ StartTask(t) /\ EndNode(g, Dispatched(s, t))
        \/ EndNode(g, [s EXCEPT !.node = "workflow_fail"]) /\ UNCHANGED tasks
    BY DEF ScheduleClaim, CanStart, StartTask
  <1>8. QED
    BY <1>5, <1>6, <1>7

\* The decision of a step: read or sampled, saved, and acted upon.
LEMMA DecisionWalks ==
  ASSUME OneThread, IInv, OneInv, NEW g \in Threads, CallLLM(g) \/ Validate(g)
  PROVE  Onward /\ WalkOK'
  <1> PICK s : s = graph[g]
    OBVIOUS
  <1> PICK t : t = s.task
    OBVIOUS
  <1>1. WalkOK
    BY DEF OneInv
  <1>2. s \in GraphState /\ StateOK(s, approvals) /\ StepOK(s) /\ t \in Tasks /\ s.step \in Nat
    BY <1>1, Standing DEF CallLLM, Validate, At, TaskNode, GraphState
  <1>3. UNCHANGED shared
    BY DEF CallLLM, Validate, tables, storeVars, shared
  <1>4. Onward /\ Later /\ Grows
    BY <1>3, QuietOnward DEF Onward, Later
  <1>5. s.step >= MaxSteps /\ Reached(t, s.step) => Doomed(t)
    <2> SUFFICES ASSUME s.step >= MaxSteps, Reached(t, s.step) PROVE Reached(t, MaxSteps)
      BY DEF Doomed
    <2>1. \A m \in Steps : m < MaxSteps => m < s.step
      BY <1>2, GraphAssumption DEF Steps
    <2>2. QED
      BY <2>1 DEF Reached
  <1>6. CASE CallLLM(g)
    <2>1. s.node = "llm" /\ Reached(t, s.step)
      BY <1>2, <1>6 DEF CallLLM, At, StepOK
    <2>2. CASE s.step >= MaxSteps /\ EndNode(g, [s EXCEPT !.node = "fail", !.status = "failed", !.turn = None])
      <3> DEFINE u == [s EXCEPT !.node = "fail", !.status = "failed", !.turn = None]
      <3>1. u.node = "fail" /\ u.task = t
        BY <1>2 DEF GraphState
      <3> HIDE DEF u
      <3>2. Doomed(t)'
        BY <1>2, <1>4, <1>5, <2>1, <2>2, DoomedLasts
      <3>3. StepOK(u)'
        BY <3>1, <3>2 DEF StepOK
      <3>4. QED
        BY <1>1, <1>4, <2>2, <3>3, EndWalks DEF u
    <2>3. CASE s.step < MaxSteps /\ SavedTurn(s) # None /\ EndNode(g, Decided(s, SavedTurn(s)))
      <3> PICK d : d = turns[t][s.step]
        OBVIOUS
      <3>1. s.step \in Steps
        BY <1>2, <2>3, GraphAssumption DEF Steps
      <3>2. d \in Decision /\ turns'[t][s.step] = d
        BY <1>2, <1>3, <2>3, <3>1 DEF SavedTurn, IInv, StoreOK, shared
      <3> DEFINE u == Decided(s, d)
      <3>3. u.node = "validate" /\ u.task = t /\ u.turn = d /\ u.step - 1 = s.step
        BY <1>2 DEF Decided, GraphState
      <3>4. EndNode(g, u)
        BY <2>3 DEF SavedTurn
      <3> HIDE DEF u
      <3>5. Reached(t, s.step)'
        BY <1>2, <1>4, <2>1, ReachedLasts
      <3>6. StepOK(u)'
        BY <3>2, <3>3, <3>5 DEF StepOK
      <3>7. QED
        BY <1>1, <1>4, <3>4, <3>6, EndWalks
    <2>4. ASSUME SavedTurn(s) = None, NEW d \in Decision,
                 Inside(g, [Entry EXCEPT !.pc = "save", !.turn = d])
          PROVE  Onward /\ WalkOK'
      <3> DEFINE l == [Entry EXCEPT !.pc = "save", !.turn = d]
      <3>1. l.pc = "save" /\ l.seen = FALSE /\ l.turn = d
        BY DEF Entry
      <3>2. Inside(g, l)
        BY <2>4
      <3> HIDE DEF l
      <3>3. turns'[t][s.step] = None
        BY <1>3, <2>4 DEF SavedTurn, shared
      <3>4. ReadOK(l, s)'
        BY <3>1, <3>3 DEF ReadOK
      <3>5. QED
        BY <1>1, <1>4, <3>2, <3>4, InsideWalks
    <2>5. CASE Raise(g)
      BY <1>1, <1>4, <2>5, StopWalks DEF Raise
    <2>6. QED
      BY <1>6, <2>2, <2>3, <2>4, <2>5 DEF CallLLM
  <1>7. CASE Validate(g)
    <2> PICK n : n = s.step - 1
      OBVIOUS
    <2>1. /\ s.node = "validate" /\ turns[t][n] = s.turn /\ s.turn \in Decision
          /\ Reached(t, n) /\ n \in Steps /\ s.step = n + 1
      <3>1. s.node = "validate"
        BY <1>7 DEF Validate, At
      <3>2. s.step \in 1..MaxSteps
        BY <1>2, <3>1 DEF StateOK
      <3>3. n \in Steps /\ s.step = n + 1
        BY <3>2, GraphAssumption DEF Steps
      <3>4. turns[t][n] = s.turn /\ s.turn \in Decision /\ Reached(t, n)
        BY <1>2, <3>1 DEF StepOK
      <3>5. QED
        BY <3>1, <3>3, <3>4
    <2>2. turns'[t][n] = s.turn /\ Reached(t, n)'
      BY <1>2, <1>3, <1>4, <2>1, ReachedLasts DEF shared
    <2>3. CASE s.turn = "invalid" /\ EndNode(g, [s EXCEPT !.node = Corrected(s)])
      <3>1. Passed(t, n)
        BY <2>1, <2>3 DEF Passed
      <3>2. Reached(t, s.step)
        BY <2>1, <3>1, GraphAssumption DEF Reached, Steps
      <3>3. Reached(t, s.step)' /\ (s.step >= MaxSteps => Doomed(t)')
        BY <1>2, <1>4, <1>5, <3>2, ReachedLasts, DoomedLasts
      <3> DEFINE u == [s EXCEPT !.node = Corrected(s)]
      <3>4. /\ u.node = "fail" \/ u.node = "llm"
            /\ u.node = "fail" => s.step >= MaxSteps
            /\ u.task = t /\ u.step = s.step
        BY <1>2 DEF Corrected, GraphState
      <3> HIDE DEF u
      <3>5. StepOK(u)'
        BY <3>3, <3>4 DEF StepOK
      <3>6. QED
        BY <1>1, <1>4, <2>3, <3>5, EndWalks DEF u
    <2>4. ASSUME NEW node \in {"approval", "tool"}, node = "approval" => Gated(s.turn),
                 EndNode(g, [s EXCEPT !.node = node])
          PROVE  Onward /\ WalkOK'
      <3> DEFINE u == [s EXCEPT !.node = node]
      <3>1. u.node = node /\ u.task = t /\ u.step = s.step /\ u.turn = s.turn
        BY <1>2 DEF GraphState
      <3> HIDE DEF u
      <3>2. StepOK(u)'
        BY <2>1, <2>2, <2>4, <3>1 DEF StepOK, Gated
      <3>3. QED
        BY <1>1, <1>4, <2>4, <3>2, EndWalks DEF u
    <2>5. ASSUME s.turn = "final", NEW output \in Outputs,
                 EndNode(g, [s EXCEPT !.node = "memory", !.output = output])
          PROVE  Onward /\ WalkOK'
      <3> DEFINE u == [s EXCEPT !.node = "memory", !.output = output]
      <3>1. u.node = "memory" /\ u.task = t
        BY <1>2 DEF GraphState
      <3> HIDE DEF u
      <3>2. Completed(t)'
        BY <2>1, <2>2, <2>5 DEF Completed
      <3>3. StepOK(u)'
        BY <3>1, <3>2 DEF StepOK
      <3>4. QED
        BY <1>1, <1>4, <2>5, <3>3, EndWalks DEF u
    <2>6. \/ s.turn = "invalid" /\ EndNode(g, [s EXCEPT !.node = Corrected(s)])
          \/ Gated(s.turn) /\ EndNode(g, [s EXCEPT !.node = "approval"])
          \/ EndNode(g, [s EXCEPT !.node = "tool"])
          \/ s.turn = "final" /\ \E output \in Outputs :
               EndNode(g, [s EXCEPT !.node = "memory", !.output = output])
      BY <1>7 DEF Validate
    <2>7. QED
      BY <2>3, <2>4, <2>5, <2>6
  <1>8. QED
    BY <1>6, <1>7

LEMMA SaveWalks ==
  ASSUME OneThread, IInv, OneInv, NEW g \in Threads, SaveTurn(g)
  PROVE  Onward /\ WalkOK'
  <1> PICK s : s = graph[g]
    OBVIOUS
  <1> PICK t : t = s.task
    OBVIOUS
  <1> PICK n : n = s.step
    OBVIOUS
  <1> PICK d : d = local[g].turn
    OBVIOUS
  <1>1. WalkOK
    BY DEF OneInv
  <1>2. s.node = "llm" /\ local[g].pc = "save"
    BY DEF SaveTurn, At
  <1>3. s \in GraphState /\ StepOK(s) /\ t \in Tasks /\ n \in Nat
    BY <1>1, <1>2, Standing DEF TaskNode, GraphState
  <1>4. LocalOK(local[g], s, invoked) /\ ReadOK(local[g], s)
    BY <1>1, Standing
  <1>5. n \in Steps /\ turns[t][n] = None /\ d \in Decision
    BY <1>2, <1>3, <1>4, GraphAssumption DEF LocalOK, ReadOK, Steps
  <1>6. turns' = [turns EXCEPT ![t][n] = d]
    BY <1>5 DEF SaveTurn
  <1>7. turns'[t][n] = d
    BY <1>3, <1>5, <1>6 DEF IInv, StoreOK
  <1>8. \A u \in Tasks, m \in Steps : turns[u][m] # None => turns'[u][m] = turns[u][m]
    BY <1>3, <1>5, <1>6 DEF IInv, StoreOK
  <1>9. /\ workflow' = workflow /\ tasks' = tasks /\ approvals' = approvals
        /\ ledger' = ledger /\ memories' = memories /\ invoked' = invoked
    BY DEF SaveTurn, storeVars
  <1>10. Grows
    BY <1>8, <1>9 DEF Grows
  <1>11. Onward /\ Later
    BY <1>9, <1>10, OutcomesStay, RequestsStay DEF Onward, OneInv, OutcomesOK
  <1> DEFINE u == Decided(s, d)
  <1>12. u.node = "validate" /\ u.task = t /\ u.turn = d /\ u.step - 1 = n
    BY <1>3 DEF Decided, GraphState
  <1>13. EndNode(g, u)
    BY DEF SaveTurn
  <1> HIDE DEF u
  <1>14. Reached(t, n)'
    BY <1>2, <1>3, <1>10, ReachedLasts DEF StepOK
  <1>15. StepOK(u)'
    BY <1>5, <1>7, <1>12, <1>14 DEF StepOK
  <1>16. QED
    BY <1>1, <1>11, <1>13, <1>15, EndWalks

\* A request or a verdict is recorded: what the gateway and the reviewer do to the tables.
LEMMA DecideOnward ==
  ASSUME OneInv, IInv, NEW c \in Calls, NEW verdict \in Verdicts, DecideApproval(c, verdict),
         UNCHANGED <<workflow, turns, ledger, memories, invoked>>
  PROVE  Onward /\ approvals'[c] = verdict
  <1> PICK t \in Tasks : t = TaskOf[c]
    BY StoreAssumption
  <1> PICK row : row = DecidedTask(t, verdict)
    OBVIOUS
  <1>1. /\ approvals[c] = "pending"
        /\ approvals' = [approvals EXCEPT ![c] = verdict]
        /\ tasks' = [tasks EXCEPT ![t] = row]
    BY DEF DecideApproval
  <1>2. t = c.task /\ verdict \in {"approved", "rejected"}
    BY GraphAssumption
  <1>3. approvals'[c] = verdict /\ \A d \in Calls : d # c => approvals'[d] = approvals[d]
    BY <1>1 DEF IInv, CallsOK
  <1>4. Grows
    BY <1>1, <1>3 DEF Grows
  <1>5. Told(c) /\ Gated(c.tool)
    BY <1>1 DEF OneInv, ToldOK
  <1>6. verdict = "rejected" => Doomed(t)'
    <2>1. Told(c)'
      BY <1>4, <1>5, ToldLasts
    <2>2. QED
      BY <1>2, <1>3, <1>5, <2>1 DEF Doomed, Gated
  <1>7. tasks[t].status = "waiting_approval" =>
          row.status = IF verdict = "approved" THEN "pending" ELSE "failed"
    BY DEF DecidedTask, IInv, StoreOK, TaskRow
  <1>8. tasks[t].status # "waiting_approval" => row = tasks[t]
    BY DEF DecidedTask
  <1>9. tasks[t].status = "failed" => Doomed(t)'
    BY <1>4, DoomedLasts DEF OneInv, OutcomesOK
  <1>10. row.status = "failed" => Doomed(t)'
    BY <1>2, <1>6, <1>7, <1>8, <1>9
  <1>11. row.status = "succeeded" => t \in memories
    BY <1>7, <1>8 DEF OneInv, OutcomesOK
  <1>12. workflow' = workflow /\ memories' = memories
         /\ (tasks[t].status = "succeeded" => row = tasks[t])
    BY <1>8
  <1>13. Later /\ OutcomesOK'
    BY <1>1, <1>4, <1>10, <1>11, <1>12, RowChanges
  <1>14. \A d \in Calls : approvals'[d] # "absent" => approvals[d] # "absent"
    BY <1>1, <1>3
  <1>15. ToldOK'
    BY <1>4, <1>14, ToldLasts DEF OneInv, ToldOK, Gated
  <1>16. QED
    BY <1>3, <1>13, <1>15 DEF Onward

LEMMA RequestOnward ==
  ASSUME OneInv, IInv, NEW c \in Calls, RequestApproval(c), Told(c), Gated(c.tool),
         UNCHANGED <<workflow, tasks, turns, ledger, memories, invoked>>
  PROVE  /\ Onward
         /\ approvals[c] # "absent" => approvals'[c] = approvals[c]
  <1>1. approvals' = [approvals EXCEPT ![c] = IF approvals[c] = "absent" THEN "pending" ELSE approvals[c]]
    BY DEF RequestApproval
  <1>2. /\ \A d \in Calls : approvals[d] # "absent" => approvals'[d] = approvals[d]
        /\ \A d \in Calls : approvals'[d] # "absent" => d = c \/ approvals[d] # "absent"
    BY <1>1 DEF IInv, CallsOK
  <1>3. Grows
    BY <1>2 DEF Grows
  <1>4. ToldOK'
    BY <1>2, <1>3, ToldLasts DEF OneInv, ToldOK, Gated
  <1>5. Later /\ OutcomesOK'
    BY <1>3, OutcomesStay DEF OneInv, OutcomesOK
  <1>6. QED
    BY <1>2, <1>4, <1>5 DEF Onward

\* From an approved call to its tool.
LEMMA ToToolStep ==
  ASSUME Later, NEW s \in GraphState, StateOK(s, approvals), StepOK(s), s.node = "approval"
  PROVE  StepOK([s EXCEPT !.node = "tool"])'
  <1> DEFINE u == [s EXCEPT !.node = "tool"]
  <1>1. u.node = "tool" /\ u.task = s.task /\ u.step = s.step /\ u.turn = s.turn
    BY DEF GraphState
  <1> HIDE DEF u
  <1>2. StepOK(s)'
    BY StepLasts
  <1>3. StepOK(u)'
    BY <1>1, <1>2 DEF StepOK
  <1>4. QED
    BY <1>3 DEF u

\* To the failure of a task whose call was rejected.
LEMMA ToFailStep ==
  ASSUME NEW s \in GraphState, NEW c \in Calls, Told(c)', c.task = s.task, Gated(c.tool),
         approvals'[c] = "rejected"
  PROVE  StepOK(Rejected(s))'
  <1> DEFINE u == Rejected(s)
  <1>1. u.node = "fail" /\ u.task = s.task
    BY DEF Rejected, GraphState
  <1>2. Doomed(s.task)'
    BY DEF Doomed, Gated
  <1> HIDE DEF u
  <1>3. StepOK(u)'
    BY <1>1, <1>2 DEF StepOK
  <1>4. QED
    BY <1>3 DEF u

\* The approval node.
LEMMA ApprovalWalks ==
  ASSUME OneThread, IInv, OneInv, NEW g \in Threads,
         ApprovalStatusOf(g) \/ ApprovalWait(g) \/ ApprovalAnswer(g)
  PROVE  Onward /\ WalkOK'
  <1> PICK s : s = graph[g]
    OBVIOUS
  <1> PICK t : t = s.task
    OBVIOUS
  <1> PICK c : c = Call(s)
    OBVIOUS
  <1>1. WalkOK
    BY DEF OneInv
  <1>2. s.node = "approval"
    BY DEF ApprovalStatusOf, ApprovalWait, ApprovalAnswer, At
  <1>3. /\ s \in GraphState /\ StateOK(s, approvals) /\ StepOK(s)
        /\ ReadOK(local[g], s) /\ local[g] \in Local /\ LocalOK(local[g], s, invoked)
    BY <1>1, Standing
  <1>4. c \in Calls /\ Told(c) /\ c.task = t /\ c.tool = s.turn /\ t \in Tasks
    BY <1>2, <1>3, CallTold
  <1>5. Gated(c.tool)
    BY <1>2, <1>3, <1>4 DEF StepOK
  <1>6. CASE ApprovalStatusOf(g)
    <2>1. RequestApproval(c) /\ UNCHANGED <<workflow, tasks, turns, ledger, memories, invoked>>
      BY <1>6 DEF ApprovalStatusOf
    <2>2. Onward /\ Later /\ (approvals[c] # "absent" => approvals'[c] = approvals[c])
      BY <1>4, <1>5, <2>1, RequestOnward DEF Onward
    <2>3. CASE EndNode(g, [s EXCEPT !.node = "tool"])
      BY <1>1, <1>2, <1>3, <2>2, <2>3, ToToolStep, EndWalks
    <2>4. CASE approvals[c] = "rejected" /\ EndNode(g, Rejected(s))
      <3>1. Told(c)'
        BY <1>4, <2>2, ToldLasts DEF Later
      <3>2. StepOK(Rejected(s))'
        BY <1>3, <1>4, <1>5, <2>2, <2>4, <3>1, ToFailStep
      <3>3. QED
        BY <1>1, <2>2, <2>4, <3>2, EndWalks
    <2>5. CASE ~Authorized(c) /\ Inside(g, [local[g] EXCEPT !.pc = "wait"])
      <3> PICK l : l = [local[g] EXCEPT !.pc = "wait"]
        OBVIOUS
      <3>1. l.pc = "wait" /\ l.seen = local[g].seen
        BY <1>3 DEF Local
      <3>2. tasks[t].status # "succeeded"
        <4> SUFFICES ASSUME tasks[t].status = "succeeded" PROVE FALSE
          OBVIOUS
        <4>1. Completed(t)
          BY <1>4 DEF OneInv, OutcomesOK
        <4>2. approvals[c] = "approved"
          BY <1>4, <1>5, <4>1, CompletedAuthorizes
        <4>3. QED
          BY <2>5, <4>2 DEF Authorized
      <3>3. l.seen => Succeeded' = Tasks
        BY <1>3, <2>2, <3>1, SucceededLasts DEF ReadOK, Later
      <3>4. tasks' = tasks
        BY <2>1
      <3>5. ReadOK(l, s)'
        BY <1>2, <3>1, <3>2, <3>3, <3>4 DEF ReadOK
      <3>6. QED
        BY <1>1, <2>2, <2>5, <3>5, InsideWalks
    <2>6. QED
      BY <1>6, <2>2, <2>3, <2>4, <2>5 DEF ApprovalStatusOf
  <1>7. CASE ApprovalWait(g)
    <2> PICK row : row = [tasks[t] EXCEPT !.status = "waiting_approval"]
      OBVIOUS
    <2>1. tasks' = [tasks EXCEPT ![t] = row]
      BY <1>7 DEF ApprovalWait, WaitForApproval
    <2>2. tasks[t] \in TaskRow /\ row.status = "waiting_approval"
      BY <1>4 DEF IInv, StoreOK, TaskRow
    <2>3. tasks[t].status # "succeeded"
      BY <1>3, <1>7 DEF ApprovalWait, At, ReadOK
    <2>4. /\ workflow' = workflow /\ memories' = memories /\ approvals' = approvals
          /\ invoked' = invoked /\ turns' = turns /\ ledger' = ledger
      BY <1>7 DEF ApprovalWait
    <2>5. Grows
      BY <2>4, NothingGrows
    <2>6. Later /\ OutcomesOK'
      BY <1>4, <2>1, <2>2, <2>3, <2>4, <2>5, RowChanges
    <2>7. ToldOK'
      BY <2>4, <2>5, RequestsStay DEF OneInv
    <2>8. CASE Return(g, graph[g], "interrupted")
      BY <1>1, <2>6, <2>7, <2>8, StopWalks DEF Onward
    <2>9. CASE Inside(g, [local[g] EXCEPT !.pc = "answer"])
      <3> PICK l : l = [local[g] EXCEPT !.pc = "answer"]
        OBVIOUS
      <3>1. l.pc = "answer" /\ l.seen = local[g].seen
        BY <1>3 DEF Local
      <3>2. tasks'[t].status # "succeeded"
        BY <1>4, <2>1, <2>2 DEF IInv, StoreOK
      <3>3. l.seen => Succeeded' = Tasks
        BY <1>3, <2>6, <3>1, SucceededLasts DEF ReadOK, Later
      <3>4. ReadOK(l, s)'
        BY <1>2, <3>1, <3>2, <3>3 DEF ReadOK
      <3>5. QED
        BY <1>1, <2>6, <2>7, <2>9, <3>4, InsideWalks DEF Onward
    <2>10. QED
      BY <1>7, <2>8, <2>9 DEF ApprovalWait
  <1>8. CASE ApprovalAnswer(g)
    <2> PICK v : v = local[g].answer
      OBVIOUS
    <2>1. v \in Verdicts
      BY <1>3, <1>8 DEF ApprovalAnswer, At, LocalOK, Local
    <2>2. UNCHANGED <<workflow, turns, ledger, memories, invoked>>
      BY <1>8 DEF ApprovalAnswer
    <2>3. CASE /\ DecideApproval(c, v)
               /\ EndNode(g, IF v = "approved" THEN [s EXCEPT !.node = "tool"] ELSE Rejected(s))
      <3>1. Onward /\ Later /\ approvals'[c] = v
        BY <1>4, <2>1, <2>2, <2>3, DecideOnward DEF Onward
      <3>2. CASE v = "approved"
        BY <1>1, <1>2, <1>3, <2>3, <3>1, <3>2, ToToolStep, EndWalks
      <3>3. CASE v # "approved"
        <4>1. v = "rejected"
          BY <2>1, <3>3, GraphAssumption
        <4>2. Told(c)'
          BY <1>4, <3>1, ToldLasts DEF Later
        <4>3. StepOK(Rejected(s))'
          BY <1>3, <1>4, <1>5, <3>1, <4>1, <4>2, ToFailStep
        <4>4. QED
          BY <1>1, <2>3, <3>1, <3>3, <4>3, EndWalks
      <3>4. QED
        BY <3>2, <3>3
    <2>4. CASE Raise(g) /\ UNCHANGED <<approvals, tasks>>
      <3>1. Onward /\ Later
        BY <2>2, <2>4, QuietOnward DEF shared, Onward
      <3>2. QED
        BY <1>1, <2>4, <3>1, StopWalks DEF Raise
    <2>5. QED
      BY <1>8, <2>3, <2>4 DEF ApprovalAnswer
  <1>9. QED
    BY <1>6, <1>7, <1>8

\* The tool node.
LEMMA ToolWalks ==
  ASSUME OneThread, IInv, OneInv, NEW g \in Threads, ToolClaim(g) \/ ToolRecord(g)
  PROVE  Onward /\ WalkOK'
  <1> PICK s : s = graph[g]
    OBVIOUS
  <1> PICK t : t = s.task
    OBVIOUS
  <1> PICK n : n = s.step - 1
    OBVIOUS
  <1> PICK c : c = Call(s)
    OBVIOUS
  <1>1. WalkOK
    BY DEF OneInv
  <1>2. s.node = "tool"
    BY DEF ToolClaim, ToolRecord, At
  <1>3. /\ s \in GraphState /\ StateOK(s, approvals) /\ StepOK(s)
        /\ ReadOK(local[g], s)
    BY <1>1, Standing
  <1>4. /\ c \in Calls /\ Told(c) /\ c.task = t /\ c.tool = s.turn /\ t \in Tasks
        /\ c = CallAt(t, n, s.turn) /\ s.turn \in Tools /\ n \in Steps
    BY <1>2, <1>3, CallTold
  <1>5. turns[t][n] = s.turn /\ Reached(t, n)
    BY <1>2, <1>3 DEF StepOK
  <1>6. Gated(s.turn) => approvals[c] = "approved"
    BY <1>2, <1>3 DEF StateOK
  <1>7. /\ workflow' = workflow /\ tasks' = tasks /\ approvals' = approvals
        /\ turns' = turns /\ memories' = memories
    BY DEF ToolClaim, ToolRecord, storeVars
  <1>8. ASSUME Onward, ledger'[c] = "succeeded", EndNode(g, [s EXCEPT !.node = "llm"])
        PROVE  WalkOK'
    <2>1. Later /\ Grows
      BY <1>8 DEF Onward, Later
    <2>2. Passed(t, n)'
      BY <1>4, <1>5, <1>6, <1>7, <1>8 DEF Passed, Gated, CallAt
    <2>3. Reached(t, n)'
      BY <1>4, <1>5, <2>1, ReachedLasts
    <2>4. s.step \in Nat /\ s.step = n + 1 /\ n \in Nat
      BY <1>3, <1>4, GraphAssumption DEF GraphState, Steps
    <2>5. \A m \in Steps : m < s.step => m < n \/ m = n
      BY <2>4, GraphAssumption DEF Steps
    <2>6. Reached(t, s.step)'
      BY <2>2, <2>3, <2>5 DEF Reached
    <2> DEFINE u == [s EXCEPT !.node = "llm"]
    <2>7. u.node = "llm" /\ u.task = t /\ u.step = s.step
      BY <1>3 DEF GraphState
    <2> HIDE DEF u
    <2>8. StepOK(u)'
      BY <2>6, <2>7 DEF StepOK
    <2>9. QED
      BY <1>1, <1>8, <2>1, <2>8, EndWalks DEF u
  <1>9. ASSUME UNCHANGED <<ledger, invoked>>
        PROVE  Onward /\ Later
    BY <1>7, <1>9, QuietOnward DEF shared, Onward
  <1>10. CASE ToolClaim(g)
    <2>1. CASE /\ ledger[c] = "succeeded"
               /\ EndNode(g, [s EXCEPT !.node = "llm"])
               /\ UNCHANGED <<ledger, invoked>>
      BY <1>8, <1>9, <2>1
    <2>2. CASE Raise(g) /\ UNCHANGED <<ledger, invoked>>
      BY <1>1, <1>9, <2>2, StopWalks DEF Raise
    <2>3. CASE /\ Claimable(c)
               /\ ledger' = [ledger EXCEPT ![c] = "running"]
               /\ invoked' = [invoked EXCEPT ![c] = IF @ < 2 THEN @ + 1 ELSE @]
               /\ Inside(g, [Entry EXCEPT !.pc = "in_tool"])
      <3>1. /\ ledger'[c] = "running"
            /\ \A d \in Calls : d # c => ledger'[d] = ledger[d] /\ invoked'[d] = invoked[d]
        BY <1>4, <2>3 DEF IInv, CallsOK
      <3>2. ledger[c] # "succeeded"
        BY <2>3 DEF Claimable
      <3>3. Grows
        BY <1>7, <3>1, <3>2 DEF Grows
      <3>4. Later /\ OutcomesOK'
        BY <1>7, <3>3, OutcomesStay DEF OneInv, OutcomesOK
      <3>5. ToldOK'
        BY <1>4, <1>7, <3>1, <3>3, ToldLasts DEF OneInv, ToldOK, Gated
      <3> DEFINE l == [Entry EXCEPT !.pc = "in_tool"]
      <3>6. l.pc = "in_tool" /\ l.seen = FALSE
        BY DEF Entry
      <3>7. Inside(g, l)
        BY <2>3
      <3> HIDE DEF l
      <3>8. ReadOK(l, s)'
        BY <3>1, <3>6 DEF ReadOK, Call
      <3>9. QED
        BY <1>1, <3>4, <3>5, <3>7, <3>8, InsideWalks DEF Onward
    <2>4. QED
      BY <1>10, <2>1, <2>2, <2>3 DEF ToolClaim
  <1>11. CASE ToolRecord(g)
    <2>1. ledger[c] = "running"
      BY <1>3, <1>11 DEF ToolRecord, At, ReadOK
    <2>2. ASSUME NEW status, ledger' = [ledger EXCEPT ![c] = status]
          PROVE  Onward /\ Later
      <3>1. \A d \in Calls : d # c => ledger'[d] = ledger[d]
        BY <2>2 DEF IInv, CallsOK
      <3>2. Grows
        BY <1>7, <2>1, <3>1 DEF Grows
      <3>3. invoked' = invoked
        BY <1>11 DEF ToolRecord
      <3>4. Later /\ OutcomesOK'
        BY <1>7, <3>2, OutcomesStay DEF OneInv, OutcomesOK
      <3>5. ToldOK'
        BY <1>7, <3>2, <3>3, RequestsStay DEF OneInv
      <3>6. QED
        BY <3>4, <3>5 DEF Onward
    <2>3. CASE ledger' = [ledger EXCEPT ![c] = "succeeded"] /\ EndNode(g, [s EXCEPT !.node = "llm"])
      <3>1. ledger'[c] = "succeeded"
        BY <1>4, <2>3 DEF IInv, CallsOK
      <3>2. QED
        BY <1>8, <2>2, <2>3, <3>1
    <2>4. ASSUME NEW status, ledger' = [ledger EXCEPT ![c] = status], Raise(g)
          PROVE  Onward /\ WalkOK'
      BY <1>1, <2>2, <2>4, StopWalks DEF Raise
    <2>5. QED
      BY <1>11, <2>3, <2>4 DEF ToolRecord
  <1>12. QED
    BY <1>10, <1>11

\* The ends of a task.
LEMMA OutcomeWalks ==
  ASSUME OneThread, IInv, OneInv, NEW g \in Threads,
         CommitMemory(g) \/ Finalize(g) \/ FailRead(g) \/ FailWrite(g)
  PROVE  Onward /\ WalkOK'
  <1> PICK s : s = graph[g]
    OBVIOUS
  <1> PICK t : t = s.task
    OBVIOUS
  <1>1. WalkOK
    BY DEF OneInv
  <1>2. s.node \in {"memory", "finalize", "fail"}
    BY DEF CommitMemory, Finalize, FailRead, FailWrite, At
  <1>3. s \in GraphState /\ StepOK(s) /\ t \in Tasks
    BY <1>1, <1>2, Standing DEF TaskNode
  <1>4. /\ workflow' = workflow /\ approvals' = approvals /\ turns' = turns
        /\ ledger' = ledger /\ invoked' = invoked
    BY DEF CommitMemory, Finalize, FailRead, FailWrite, tables, storeVars
  <1>5. Grows /\ ToldOK'
    BY <1>4, NothingGrows, RequestsStay DEF OneInv
  <1>6. tasks[t] \in TaskRow
    BY <1>3 DEF IInv, StoreOK
  <1>7. ASSUME NEW u, u.node = "collect_delivery", EndNode(g, u), Later, OutcomesOK'
        PROVE  Onward /\ WalkOK'
    <2>1. StepOK(u)'
      BY <1>7 DEF StepOK
    <2>2. QED
      BY <1>1, <1>5, <1>7, <2>1, EndWalks DEF Onward
  <1>8. CASE CommitMemory(g)
    <2>1. memories' = memories \cup {t} /\ tasks' = tasks
      BY <1>8 DEF CommitMemory, storeVars
    <2>2. Completed(t)
      BY <1>3, <1>8 DEF CommitMemory, At, StepOK
    <2>3. Later
      BY <1>5, <2>1 DEF Later, Keeps
    <2>4. \A v \in memories' : Completed(v)'
      BY <1>3, <1>5, <2>1, <2>2, CompletedLasts DEF OneInv, OutcomesOK, IInv, StoreOK
    <2>5. \A v \in Tasks : tasks[v].status = "failed" => Doomed(v)'
      BY <1>5, DoomedLasts DEF OneInv, OutcomesOK
    <2>6. Succeeded' = Succeeded
      BY <2>1 DEF Succeeded
    <2>7. OutcomesOK'
      BY <1>4, <2>1, <2>4, <2>5, <2>6 DEF OneInv, OutcomesOK
    <2> DEFINE u == [s EXCEPT !.node = "finalize"]
    <2>8. u.node = "finalize" /\ u.task = t
      BY <1>3 DEF GraphState
    <2>9. EndNode(g, u)
      BY <1>8 DEF CommitMemory
    <2> HIDE DEF u
    <2>10. StepOK(u)'
      BY <2>1, <2>4, <2>8 DEF StepOK
    <2>11. QED
      BY <1>1, <1>5, <2>3, <2>7, <2>9, <2>10, EndWalks DEF Onward
  <1>9. CASE Finalize(g)
    <2>1. t \in memories /\ memories' = memories
      BY <1>3, <1>9 DEF Finalize, At, StepOK
    <2>2. CASE /\ ~FinishConflicts(t, s.output)
               /\ FinishTask(t, s.output)
               /\ EndNode(g, [s EXCEPT !.node = "collect_delivery", !.status = "succeeded"])
      <3> PICK row : row = [tasks[t] EXCEPT !.status = "succeeded", !.output = s.output]
        OBVIOUS
      <3>1. tasks' = [tasks EXCEPT ![t] = row]
        BY <2>2 DEF FinishTask
      <3>2. row.status = "succeeded"
        BY <1>6 DEF TaskRow
      <3>3. tasks[t].status = "succeeded" => row = tasks[t]
        BY <1>6, <2>2 DEF FinishConflicts, TaskRow
      <3>4. Later /\ OutcomesOK'
        BY <1>3, <1>4, <1>5, <2>1, <3>1, <3>2, <3>3, RowChanges
      <3> PICK u : u = [s EXCEPT !.node = "collect_delivery", !.status = "succeeded"]
        OBVIOUS
      <3>5. u.node = "collect_delivery"
        BY <1>3 DEF GraphState
      <3>6. QED
        BY <1>7, <2>2, <3>4, <3>5
    <2>3. CASE Raise(g) /\ UNCHANGED tasks
      <3>1. Later /\ OutcomesOK'
        BY <1>4, <1>5, <2>1, <2>3, OutcomesStay DEF OneInv, OutcomesOK
      <3>2. QED
        BY <1>1, <1>5, <2>3, <3>1, StopWalks DEF Raise, Onward
    <2>4. QED
      BY <1>9, <2>2, <2>3 DEF Finalize, FinishTask, FinishConflicts
  <1>10. CASE FailRead(g)
    <2>1. UNCHANGED shared
      BY <1>10 DEF FailRead, tables, storeVars, shared
    <2>2. Onward /\ Later /\ OutcomesOK'
      BY <2>1, QuietOnward DEF Onward
    <2>3. CASE EndNode(g, FailedState(s))
      <3> PICK u : u = FailedState(s)
        OBVIOUS
      <3>1. u.node = "collect_delivery"
        BY <1>3 DEF FailedState, GraphState
      <3>2. QED
        BY <1>7, <2>2, <2>3, <3>1
    <2>4. CASE Inside(g, [Entry EXCEPT !.pc = "write"])
      <3> DEFINE l == [Entry EXCEPT !.pc = "write"]
      <3>1. l.pc = "write" /\ l.seen = FALSE
        BY DEF Entry
      <3> HIDE DEF l
      <3>2. ReadOK(l, s)'
        BY <3>1 DEF ReadOK
      <3>3. QED
        BY <1>1, <2>2, <2>4, <3>2, InsideWalks DEF l
    <2>5. QED
      BY <1>10, <2>3, <2>4 DEF FailRead
  <1>11. CASE FailWrite(g)
    <2> PICK row : row = [tasks[t] EXCEPT !.status = "failed"]
      OBVIOUS
    <2>1. tasks' = [tasks EXCEPT ![t] = row] /\ memories' = memories
      BY <1>11 DEF FailWrite, FailTask, FailedStatus
    <2>2. row.status = "failed"
      BY <1>6 DEF TaskRow
    <2>3. Doomed(t)
      BY <1>3, <1>11 DEF FailWrite, At, StepOK
    <2>4. tasks[t].status # "succeeded"
      BY <1>3, <2>3, OneEnd DEF OneInv, OutcomesOK
    <2>5. Doomed(t)'
      BY <1>3, <1>5, <2>3, DoomedLasts
    <2>6. Later /\ OutcomesOK'
      BY <1>3, <1>4, <1>5, <2>1, <2>2, <2>4, <2>5, RowChanges
    <2> PICK u : u = FailedState(s)
      OBVIOUS
    <2>7. u.node = "collect_delivery"
      BY <1>3 DEF FailedState, GraphState
    <2>8. EndNode(g, u)
      BY <1>11 DEF FailWrite
    <2>9. QED
      BY <1>7, <2>6, <2>7, <2>8
  <1>12. QED
    BY <1>8, <1>9, <1>10, <1>11

\* The reviewer, and nothing.
LEMMA DecideWalks ==
  ASSUME IInv, OneInv, NEW c \in Calls, Decide(c)
  PROVE  Onward /\ WalkOK'
  <1> PICK verdict \in Verdicts : DecideApproval(c, verdict)
    BY DEF Decide
  <1>1. UNCHANGED <<workflow, turns, ledger, memories, invoked>>
    BY DEF Decide
  <1>2. Onward /\ Later
    BY <1>1, DecideOnward DEF Onward
  <1>3. graph' = graph /\ saved' = saved /\ local' = local
    BY DEF Decide, graphVars
  <1>4. \A t \in Tasks : tasks[t].status # "succeeded" => tasks'[t].status # "succeeded"
    <2> PICK t \in Tasks : t = TaskOf[c]
      BY StoreAssumption
    <2> PICK row : row = DecidedTask(t, verdict)
      OBVIOUS
    <2>1. tasks' = [tasks EXCEPT ![t] = row]
      BY DEF DecideApproval
    <2>2. row.status = "succeeded" => tasks[t].status = "succeeded"
      BY DEF DecidedTask, IInv, StoreOK, TaskRow
    <2>3. QED
      BY <2>1, <2>2 DEF IInv, StoreOK
  <1>5. WalkOK
    BY DEF OneInv
  <1>6. ASSUME NEW h \in Threads
        PROVE  StepOK(graph[h])' /\ StepOK(saved[h])' /\ ReadOK(local[h], graph[h])'
    <2> PICK s : s = graph[h]
      OBVIOUS
    <2> PICK k : k = saved[h]
      OBVIOUS
    <2> PICK l : l = local[h]
      OBVIOUS
    <2>1. /\ StateOK(s, approvals) /\ StateOK(k, approvals) /\ StepOK(s) /\ StepOK(k)
          /\ ReadOK(l, s)
          /\ s.node \in TaskNode => s.task \in Tasks
      BY <1>5, Standing
    <2>2. StepOK(s)' /\ StepOK(k)'
      BY <1>2, <2>1, StepLasts
    <2>3. l.seen => Succeeded' = Tasks
      BY <1>2, <2>1, SucceededLasts DEF ReadOK, Later
    <2>4. ReadOK(l, s)'
      BY <1>1, <1>4, <2>1, <2>3 DEF ReadOK, TaskNode, Call
    <2>5. QED
      BY <1>3, <2>2, <2>4
  <1>7. QED
    BY <1>2, <1>6 DEF WalkOK

LEMMA StutterWalks ==
  ASSUME IInv, OneInv, UNCHANGED vars
  PROVE  Onward /\ WalkOK'
  <1>1. UNCHANGED shared /\ graph' = graph /\ saved' = saved /\ local' = local
    BY DEF vars, tables, storeVars, graphVars, shared
  <1>2. Onward /\ Later /\ WalkOK
    BY <1>1, QuietOnward DEF Onward, OneInv
  <1>3. ASSUME NEW h \in Threads
        PROVE  StepOK(graph[h])' /\ StepOK(saved[h])' /\ ReadOK(local[h], graph[h])'
    <2> PICK s : s = graph[h]
      OBVIOUS
    <2> PICK k : k = saved[h]
      OBVIOUS
    <2> PICK l : l = local[h]
      OBVIOUS
    <2>1. StepOK(s)' /\ StepOK(k)'
      BY <1>2, Standing, StepLasts
    <2>2. ReadOK(l, s)'
      BY <1>1, <1>2, Standing, ReadStays
    <2>3. QED
      BY <1>1, <2>1, <2>2
  <1>4. QED
    BY <1>2, <1>3 DEF WalkOK

LEMMA OneInit == Init => OneInv
  <1> SUFFICES ASSUME Init PROVE OneInv
    OBVIOUS
  <1>1. ToldOK
    BY DEF Init, StoreInit, ToldOK
  <1>2. OutcomesOK
    BY DEF Init, StoreInit, OutcomesOK
  <1> DEFINE s == [node |-> "validate_plan", task |-> None, step |-> 0, turn |-> None,
                   output |-> None, status |-> "running", deliveries |-> {}]
  <1>3. s.node = "validate_plan"
    OBVIOUS
  <1>4. /\ graph = [g \in Threads |-> s]
        /\ saved = [g \in Threads |-> s]
        /\ local = [g \in Threads |-> Off]
    BY DEF Init
  <1> HIDE DEF s
  <1>5. StepOK(s) /\ ReadOK(Off, s)
    BY <1>3 DEF StepOK, ReadOK, Off, Entry
  <1>6. WalkOK
    BY <1>4, <1>5 DEF WalkOK
  <1>7. QED
    BY <1>1, <1>2, <1>6 DEF OneInv

LEMMA OneStep == OneThread /\ IInv /\ OneInv /\ [Next]_vars => OneInv' /\ Keeps
  <1> SUFFICES ASSUME OneThread, IInv, OneInv, [Next]_vars PROVE OneInv' /\ Keeps
    OBVIOUS
  <1>1. ASSUME NEW g \in Threads, Proceed(g) PROVE Onward /\ WalkOK'
    BY <1>1, ParentWalks, ClaimWalks, DecisionWalks, SaveWalks, ApprovalWalks, ToolWalks,
       OutcomeWalks DEF Proceed
  <1>2. Onward /\ WalkOK'
    BY <1>1, AroundWalks, DecideWalks, StutterWalks DEF Next
  <1>3. QED
    BY <1>2 DEF Onward, Later, OneInv

LEMMA OneInductive == OneThread => (Spec => [](IInv /\ OneInv))
  <1> SUFFICES ASSUME OneThread PROVE Spec => [](IInv /\ OneInv)
    OBVIOUS
  <1>1. Init => IInv /\ OneInv
    BY InitInvariant, OneInit
  <1>2. IInv /\ OneInv /\ [Next]_vars => IInv' /\ OneInv'
    BY NextInvariant, OneStep
  <1>3. QED
    BY <1>1, <1>2, PTL DEF Spec

-----------------------------------------------------------------------------
(* Theorems *)

\* One step of a task stands for one call: a node that runs again acts on the saved
\* decision of its step.
THEOREM StepIsOneCall == OneThread => (Spec => []OneCallPerStep)
  <1> SUFFICES ASSUME OneThread PROVE Spec => []OneCallPerStep
    OBVIOUS
  <1>1. OneInv => OneCallPerStep
    <2> SUFFICES ASSUME OneInv, NEW c \in Calls, NEW d \in Calls,
                        c.task = d.task, c.step = d.step, invoked[c] > 0, invoked[d] > 0
                 PROVE  c = d
      BY DEF OneCallPerStep
    <2>1. c.tool = d.tool
      BY DEF OneInv, ToldOK, Told
    <2>2. QED
      BY <2>1, CallFields
  <1>2. QED
    BY <1>1, OneInductive, PTL

\* A workflow reported succeeded has only succeeded tasks: what schedule saw when it
\* listed them is final.
THEOREM SuccessIsHonest == OneThread => (Spec => []SuccessIsComplete)
  <1> SUFFICES ASSUME OneThread PROVE Spec => []SuccessIsComplete
    OBVIOUS
  <1>1. OneInv => SuccessIsComplete
    BY DEF OneInv, OutcomesOK, SuccessIsComplete
  <1>2. QED
    BY <1>1, OneInductive, PTL

\* A task that succeeded has its memory, and one that failed has none: the saved
\* decisions of a task lead to one end.
THEOREM MemoriesMatch == OneThread => (Spec => []MemoryMatchesOutcome)
  <1> SUFFICES ASSUME OneThread PROVE Spec => []MemoryMatchesOutcome
    OBVIOUS
  <1>1. OneInv => MemoryMatchesOutcome
    <2> SUFFICES ASSUME OneInv, NEW t \in Tasks
                 PROVE  /\ tasks[t].status = "succeeded" => t \in memories
                        /\ tasks[t].status = "failed" => t \notin memories
      BY DEF MemoryMatchesOutcome
    <2>1. QED
      BY OneEnd DEF OneInv, OutcomesOK
  <1>2. QED
    BY <1>1, OneInductive, PTL

\* No node that runs again from an old checkpoint changes a task that succeeded.
THEOREM SuccessStays == OneThread => (Spec => SuccessIsFinal)
  <1> SUFFICES ASSUME OneThread PROVE Spec => SuccessIsFinal
    OBVIOUS
  <1>1. IInv /\ OneInv /\ [Next]_vars => [\A t \in Succeeded : tasks'[t] = tasks[t]]_vars
    BY OneStep DEF Keeps
  <1>2. QED
    BY <1>1, OneInductive, PTL DEF Spec, SuccessIsFinal

-----------------------------------------------------------------------------
(* Deliveries *)

\* The outcomes state s answers for: those delivered and the one it is about to deliver.
Owns(s) ==
  s.deliveries \cup (IF s.node = "collect_delivery" THEN {<<s.task, s.status>>} ELSE {})

\* What state s works on has not been delivered in s.
NotYet(s) == s.node \in TaskNode => \A d \in s.deliveries : d[1] # s.task

\* A checkpoint answers for no more than the thread does, and the store agrees.
DeliveryInv ==
  \A g \in Threads :
    /\ NotYet(graph[g]) /\ NotYet(saved[g])
    /\ Owns(saved[g]) \subseteq Owns(graph[g])
    /\ \A d \in Owns(graph[g]) : tasks[d[1]].status = d[2]

LEMMA OwnsType ==
  ASSUME NEW s, NEW authorizations, StateOK(s, authorizations), NEW d \in Owns(s)
  PROVE  d[1] \in Tasks /\ d[2] \in {"succeeded", "failed"}
  BY DEF StateOK, GraphState, TaskNode, Owns

LEMMA Delivered ==
  ASSUME IInv, DeliveryInv, NEW g \in Threads, NEW d \in Owns(graph[g])
  PROVE  d[1] \in Tasks /\ d[2] \in {"succeeded", "failed"} /\ tasks[d[1]].status = d[2]
  <1>1. StateOK(graph[g], approvals)
    BY AtNode DEF IInv
  <1>2. QED
    BY <1>1, OwnsType DEF DeliveryInv

LEMMA DeliveryMoves ==
  ASSUME OneThread, IInv, NEW g \in Threads, NEW s, NEW k,
         graph' = [graph EXCEPT ![g] = s],
         saved' = [saved EXCEPT ![g] = k],
         NotYet(s), NotYet(k), Owns(k) \subseteq Owns(s),
         \A d \in Owns(s) : tasks'[d[1]].status = d[2]
  PROVE  DeliveryInv'
  <1>1. graph'[g] = s /\ saved'[g] = k
    BY DEF IInv, ThreadsOK
  <1>2. \A h \in Threads : h = g
    BY DEF OneThread
  <1>3. QED
    BY <1>1, <1>2 DEF DeliveryInv

\* The node ends in a state that answers for no less.
LEMMA EndDelivers ==
  ASSUME OneThread, IInv, DeliveryInv, NEW g \in Threads, NEW u, EndNode(g, u),
         NotYet(u), Owns(graph[g]) \subseteq Owns(u),
         \A d \in Owns(u) : tasks'[d[1]].status = d[2]
  PROVE  DeliveryInv'
  <1> PICK k : k = saved[g]
    OBVIOUS
  <1>1. saved' = [saved EXCEPT ![g] = k] /\ graph' = [graph EXCEPT ![g] = u]
    BY DEF EndNode, IInv, ThreadsOK
  <1>2. NotYet(k) /\ Owns(k) \subseteq Owns(u)
    BY DEF DeliveryInv
  <1>3. QED
    BY <1>1, <1>2, DeliveryMoves

\* The invocation returns in a state that answers for the same.
LEMMA ReturnDelivers ==
  ASSUME OneThread, IInv, DeliveryInv, NEW g \in Threads, NEW u, NEW pc, Return(g, u, pc),
         NotYet(u), \A d \in Owns(u) : tasks'[d[1]].status = d[2]
  PROVE  DeliveryInv'
  BY DeliveryMoves DEF Return

\* The rows of the tasks a thread answers for keep their status.
Unmoved(g) == \A d \in Owns(graph[g]) : tasks'[d[1]].status = d[2]

LEMMA StayDelivers ==
  ASSUME DeliveryInv, UNCHANGED <<graph, saved>>, \A g \in Threads : Unmoved(g)
  PROVE  DeliveryInv'
  BY DEF DeliveryInv, Unmoved

LEMMA InsideDelivers ==
  ASSUME OneThread, IInv, DeliveryInv, NEW g \in Threads, NEW l, Inside(g, l), Unmoved(g)
  PROVE  DeliveryInv'
  <1>1. \A h \in Threads : Unmoved(h)
    BY DEF OneThread
  <1>2. UNCHANGED <<graph, saved>>
    BY DEF Inside
  <1>3. QED
    BY <1>1, <1>2, StayDelivers

LEMMA StopDelivers ==
  ASSUME OneThread, IInv, DeliveryInv, NEW g \in Threads, NEW pc, Return(g, graph[g], pc), Unmoved(g)
  PROVE  DeliveryInv'
  <1>1. NotYet(graph[g])
    BY DEF DeliveryInv
  <1>2. QED
    BY <1>1, ReturnDelivers DEF Unmoved

LEMMA QuietDelivers ==
  ASSUME DeliveryInv, NEW g \in Threads, tasks' = tasks
  PROVE  Unmoved(g)
  BY DEF DeliveryInv, Unmoved

\* The row of the task a thread works on, or one without an outcome, may change.
LEMMA RowDelivers ==
  ASSUME IInv, DeliveryInv, NEW g \in Threads, NEW t, NEW row, tasks' = [tasks EXCEPT ![t] = row],
         \/ tasks[t].status \notin {"succeeded", "failed"}
         \/ graph[g].node \in TaskNode \ {"collect_delivery"} /\ t = graph[g].task
  PROVE  Unmoved(g)
  <1> SUFFICES ASSUME NEW d \in Owns(graph[g]) PROVE tasks'[d[1]].status = d[2]
    BY DEF Unmoved
  <1>1. d[1] \in Tasks /\ d[2] \in {"succeeded", "failed"} /\ tasks[d[1]].status = d[2]
    BY Delivered
  <1>2. d[1] # t
    <2>1. CASE tasks[t].status \notin {"succeeded", "failed"}
      BY <1>1, <2>1
    <2>2. CASE graph[g].node \in TaskNode \ {"collect_delivery"} /\ t = graph[g].task
      BY <2>2 DEF Owns, DeliveryInv, NotYet
    <2>3. QED
      BY <2>1, <2>2
  <1>3. QED
    BY <1>1, <1>2 DEF IInv, StoreOK

\* On its way through the subgraph a state answers for the same outcomes.
LEMMA OnTheWay ==
  ASSUME NEW s, NEW u, NotYet(s), s.node \in TaskNode \ {"collect_delivery"},
         u.node # "collect_delivery", u.task = s.task, u.deliveries = s.deliveries
  PROVE  NotYet(u) /\ Owns(u) = Owns(s)
  BY DEF NotYet, Owns

LEMMA WayDelivers ==
  ASSUME OneThread, IInv, DeliveryInv, NEW g \in Threads, NEW s, s = graph[g], NEW u, EndNode(g, u),
         s.node \in TaskNode \ {"collect_delivery"}, Unmoved(g),
         u.node # "collect_delivery", u.task = s.task, u.deliveries = s.deliveries
  PROVE  DeliveryInv'
  <1>1. NotYet(u) /\ Owns(u) = Owns(s)
    BY OnTheWay DEF DeliveryInv
  <1>2. QED
    BY <1>1, EndDelivers DEF Unmoved

\* The task ends with the outcome its row has.
LEMMA OutcomeDelivers ==
  ASSUME OneThread, IInv, DeliveryInv, NEW g \in Threads, NEW s, s = graph[g], NEW u, EndNode(g, u),
         s.node \in TaskNode \ {"collect_delivery"}, Unmoved(g),
         u.node = "collect_delivery", u.task = s.task, u.deliveries = s.deliveries,
         tasks'[s.task].status = u.status
  PROVE  DeliveryInv'
  <1>1. Owns(u) = Owns(s) \cup {<<s.task, u.status>>} /\ NotYet(u)
    BY DEF Owns, NotYet, DeliveryInv, TaskNode
  <1>2. \A d \in Owns(u) : tasks'[d[1]].status = d[2]
    BY <1>1 DEF Unmoved
  <1>3. QED
    BY <1>1, <1>2, EndDelivers

\* Nodes of the parent graph: what is delivered stays so.
LEMMA ParentNode ==
  ASSUME NEW s \in GraphState, NEW node \in {"schedule", "complete", "workflow_fail", "end"},
         s.node # "collect_delivery"
  PROVE  NotYet([s EXCEPT !.node = node]) /\ Owns([s EXCEPT !.node = node]) = Owns(s)
  <1> DEFINE u == [s EXCEPT !.node = node]
  <1>1. u.node = node /\ u.deliveries = s.deliveries
    BY DEF GraphState
  <1> HIDE DEF u
  <1>2. NotYet(u) /\ Owns(u) = Owns(s)
    BY <1>1 DEF NotYet, Owns, TaskNode
  <1>3. QED
    BY <1>2 DEF u

LEMMA ParentDelivers ==
  ASSUME OneThread, IInv, DeliveryInv, NEW g \in Threads,
         \/ ValidatePlan(g) \/ ScheduleList(g) \/ ScheduleReady(g)
         \/ Complete(g) \/ WorkflowFail(g)
  PROVE  DeliveryInv'
  <1> PICK s : s = graph[g]
    OBVIOUS
  <1>1. s \in GraphState /\ s.node # "collect_delivery"
    BY AtNode DEF ValidatePlan, ScheduleList, ScheduleReady, Complete, WorkflowFail, At, IInv
  <1>2. tasks' = tasks
    BY DEF ValidatePlan, ScheduleList, ScheduleReady, Complete, WorkflowFail, tables, storeVars
  <1>3. Unmoved(g)
    BY <1>2, QuietDelivers
  <1>4. ASSUME NEW node \in {"schedule", "complete", "workflow_fail", "end"},
               \/ EndNode(g, [s EXCEPT !.node = node])
               \/ Return(g, [s EXCEPT !.node = node], "off")
        PROVE  DeliveryInv'
    <2> PICK u : u = [s EXCEPT !.node = node]
      OBVIOUS
    <2>1. NotYet(u) /\ Owns(u) = Owns(s)
      BY <1>1, ParentNode
    <2>2. EndNode(g, u) \/ Return(g, u, "off")
      BY <1>4
    <2>3. \A d \in Owns(u) : tasks'[d[1]].status = d[2]
      BY <1>3, <2>1 DEF Unmoved
    <2>4. QED
      BY <2>1, <2>2, <2>3, EndDelivers, ReturnDelivers
  <1>5. CASE \E l : Inside(g, l)
    BY <1>3, <1>5, InsideDelivers
  <1>6. \/ \E node \in {"schedule", "complete", "workflow_fail", "end"} :
             \/ EndNode(g, [s EXCEPT !.node = node])
             \/ Return(g, [s EXCEPT !.node = node], "off")
        \/ \E l : Inside(g, l)
    <2>1. CASE ValidatePlan(g) \/ Complete(g) \/ WorkflowFail(g)
      BY <2>1 DEF ValidatePlan, Complete, WorkflowFail
    <2>2. CASE ScheduleList(g)
      BY <2>2 DEF ScheduleList
    <2>3. CASE ScheduleReady(g)
      BY <2>3 DEF ScheduleReady, NothingReady
    <2>4. QED
      BY <2>1, <2>2, <2>3
  <1>7. QED
    BY <1>4, <1>5, <1>6

LEMMA ClaimDelivers ==
  ASSUME OneThread, IInv, DeliveryInv, NEW g \in Threads, ScheduleClaim(g)
  PROVE  DeliveryInv'
  <1> PICK s : s = graph[g]
    OBVIOUS
  <1> PICK t : t = local[g].pick
    OBVIOUS
  <1>1. s \in GraphState /\ s.node = "schedule"
    BY AtNode DEF ScheduleClaim, At, IInv
  <1>2. CASE CanStart(t) /\ StartTask(t) /\ EndNode(g, Dispatched(s, t))
    <2> PICK row : row = [tasks[t] EXCEPT !.status = "running", !.attempts = @ + 1]
      OBVIOUS
    <2>1. tasks' = [tasks EXCEPT ![t] = row] /\ tasks[t].status = "pending"
      BY <1>2 DEF StartTask, CanStart
    <2>2. Unmoved(g)
      BY <2>1, RowDelivers
    <2> DEFINE u == Dispatched(s, t)
    <2>3. u.node = "llm" /\ u.task = t /\ u.deliveries = s.deliveries
      BY <1>1 DEF Dispatched, GraphState
    <2> HIDE DEF u
    <2>4. Owns(u) = Owns(s)
      BY <1>1, <2>3 DEF Owns
    <2>5. \A d \in s.deliveries : d[1] # t
      BY <2>1, Delivered DEF Owns
    <2>6. NotYet(u)
      BY <2>3, <2>5 DEF NotYet
    <2>7. EndNode(g, u)
      BY <1>2 DEF u
    <2>8. QED
      BY <2>2, <2>4, <2>6, <2>7, EndDelivers DEF Unmoved
  <1>3. CASE EndNode(g, [s EXCEPT !.node = "workflow_fail"]) /\ UNCHANGED tasks
    <2> PICK u : u = [s EXCEPT !.node = "workflow_fail"]
      OBVIOUS
    <2>1. NotYet(u) /\ Owns(u) = Owns(s)
      BY <1>1, ParentNode
    <2>2. Unmoved(g)
      BY <1>3, QuietDelivers
    <2>3. QED
      BY <1>3, <2>1, <2>2, EndDelivers DEF Unmoved
  <1>4. QED
    BY <1>2, <1>3 DEF ScheduleClaim, CanStart, StartTask

\* collect_delivery moves the outcome it answers for to the deliveries.
LEMMA CollectDelivers ==
  ASSUME OneThread, IInv, DeliveryInv, NEW g \in Threads, CollectDelivery(g)
  PROVE  DeliveryInv'
  <1> PICK s : s = graph[g]
    OBVIOUS
  <1> PICK u : u = [s EXCEPT !.node = IF s.status = "failed" THEN "workflow_fail" ELSE "schedule",
                             !.deliveries = {d \in @ : d[1] # s.task} \cup {<<s.task, s.status>>}]
    OBVIOUS
  <1>1. s \in GraphState /\ s.node = "collect_delivery"
    BY AtNode DEF CollectDelivery, At, IInv
  <1>2. EndNode(g, u) /\ tasks' = tasks
    BY DEF CollectDelivery, tables, storeVars
  <1>3. /\ u.node \in {"schedule", "workflow_fail"}
        /\ u.deliveries = {d \in s.deliveries : d[1] # s.task} \cup {<<s.task, s.status>>}
    BY <1>1 DEF GraphState
  <1>4. \A d \in s.deliveries : d[1] # s.task
    BY <1>1 DEF DeliveryInv, NotYet, TaskNode
  <1>5. Owns(u) = Owns(s) /\ NotYet(u)
    BY <1>1, <1>3, <1>4 DEF Owns, NotYet, TaskNode
  <1>6. QED
    BY <1>2, <1>5, QuietDelivers, EndDelivers DEF Unmoved

LEMMA AroundDelivers ==
  ASSUME OneThread, IInv, DeliveryInv, NEW g \in Threads,
         Invoke(g) \/ Resume(g) \/ Checkpoint(g) \/ Crash(g)
  PROVE  DeliveryInv'
  <1> PICK s : s = graph[g]
    OBVIOUS
  <1> PICK k : k = saved[g]
    OBVIOUS
  <1>1. tasks' = tasks
    BY DEF Invoke, Resume, Checkpoint, Crash, tables, storeVars
  <1>2. Unmoved(g)
    BY <1>1, QuietDelivers
  <1>3. CASE Invoke(g) \/ Resume(g)
    <2>1. \E l : Inside(g, l)
      BY <1>3 DEF Invoke, Resume
    <2>2. QED
      BY <1>2, <2>1, InsideDelivers
  <1>4. CASE Checkpoint(g)
    <2>1. graph' = [graph EXCEPT ![g] = s] /\ saved' = [saved EXCEPT ![g] = s]
      BY <1>4 DEF Checkpoint, IInv, ThreadsOK
    <2>2. NotYet(s)
      BY DEF DeliveryInv
    <2>3. QED
      BY <1>2, <2>1, <2>2, DeliveryMoves DEF Unmoved
  <1>5. CASE Crash(g)
    <2>1. graph' = [graph EXCEPT ![g] = k] /\ saved' = [saved EXCEPT ![g] = k]
      BY <1>5 DEF Crash, IInv, ThreadsOK
    <2>2. NotYet(k) /\ Owns(k) \subseteq Owns(s)
      BY DEF DeliveryInv
    <2>3. \A d \in Owns(k) : tasks'[d[1]].status = d[2]
      BY <1>2, <2>2 DEF Unmoved
    <2>4. QED
      BY <2>1, <2>2, <2>3, DeliveryMoves
  <1>6. QED
    BY <1>3, <1>4, <1>5

\* The ways on from state s that keep its task and its deliveries.
GoesOn(g, s) ==
  \/ \E node \in {"llm", "fail", "approval", "tool", "finalize"} : EndNode(g, [s EXCEPT !.node = node])
  \/ EndNode(g, [s EXCEPT !.node = "fail", !.status = "failed", !.turn = None])
  \/ \E d : EndNode(g, Decided(s, d))
  \/ \E output : EndNode(g, [s EXCEPT !.node = "memory", !.output = output])
  \/ EndNode(g, Rejected(s))
  \/ \E l : Inside(g, l)
  \/ \E pc : Return(g, graph[g], pc)

LEMMA GoingOnDelivers ==
  ASSUME OneThread, IInv, DeliveryInv, NEW g \in Threads, NEW s, s = graph[g],
         s.node \in TaskNode \ {"collect_delivery"}, Unmoved(g), GoesOn(g, s)
  PROVE  DeliveryInv'
  <1>1. s \in GraphState
    BY AtNode DEF IInv
  <1>2. ASSUME NEW node \in {"llm", "fail", "approval", "tool", "finalize"},
               EndNode(g, [s EXCEPT !.node = node])
        PROVE  DeliveryInv'
    <2> PICK u : u = [s EXCEPT !.node = node]
      OBVIOUS
    <2>1. u.node # "collect_delivery" /\ u.task = s.task /\ u.deliveries = s.deliveries
      BY <1>1 DEF GraphState
    <2>2. QED
      BY <1>2, <2>1, WayDelivers
  <1>3. CASE EndNode(g, [s EXCEPT !.node = "fail", !.status = "failed", !.turn = None])
    <2> PICK u : u = [s EXCEPT !.node = "fail", !.status = "failed", !.turn = None]
      OBVIOUS
    <2>1. u.node # "collect_delivery" /\ u.task = s.task /\ u.deliveries = s.deliveries
      BY <1>1 DEF GraphState
    <2>2. QED
      BY <1>3, <2>1, WayDelivers
  <1>4. ASSUME NEW d, EndNode(g, Decided(s, d))
        PROVE  DeliveryInv'
    <2> PICK u : u = Decided(s, d)
      OBVIOUS
    <2>1. u.node # "collect_delivery" /\ u.task = s.task /\ u.deliveries = s.deliveries
      BY <1>1 DEF GraphState, Decided
    <2>2. QED
      BY <1>4, <2>1, WayDelivers
  <1>5. ASSUME NEW output, EndNode(g, [s EXCEPT !.node = "memory", !.output = output])
        PROVE  DeliveryInv'
    <2> PICK u : u = [s EXCEPT !.node = "memory", !.output = output]
      OBVIOUS
    <2>1. u.node # "collect_delivery" /\ u.task = s.task /\ u.deliveries = s.deliveries
      BY <1>1 DEF GraphState
    <2>2. QED
      BY <1>5, <2>1, WayDelivers
  <1>6. CASE EndNode(g, Rejected(s))
    <2> PICK u : u = Rejected(s)
      OBVIOUS
    <2>1. u.node # "collect_delivery" /\ u.task = s.task /\ u.deliveries = s.deliveries
      BY <1>1 DEF GraphState, Rejected
    <2>2. QED
      BY <1>6, <2>1, WayDelivers
  <1>7. QED
    BY <1>2, <1>3, <1>4, <1>5, <1>6, InsideDelivers, StopDelivers DEF GoesOn

\* The subgraph, where it touches no row.
LEMMA AgentDelivers ==
  ASSUME OneThread, IInv, DeliveryInv, NEW g \in Threads,
         \/ CallLLM(g) \/ SaveTurn(g) \/ Validate(g) \/ ApprovalStatusOf(g)
         \/ ToolClaim(g) \/ ToolRecord(g) \/ CommitMemory(g)
  PROVE  DeliveryInv'
  <1> PICK s : s = graph[g]
    OBVIOUS
  <1>1. s.node \in TaskNode \ {"collect_delivery"}
    BY DEF CallLLM, SaveTurn, Validate, ApprovalStatusOf, ToolClaim, ToolRecord, CommitMemory, At,
       TaskNode
  <1>2. tasks' = tasks
    BY DEF CallLLM, SaveTurn, Validate, ApprovalStatusOf, ToolClaim, ToolRecord, CommitMemory,
       tables, storeVars
  <1>3. Unmoved(g)
    BY <1>2, QuietDelivers
  <1>4. CASE CallLLM(g)
    <2>1. \/ EndNode(g, [s EXCEPT !.node = "fail", !.status = "failed", !.turn = None])
          \/ \E d : EndNode(g, Decided(s, d))
          \/ \E l : Inside(g, l)
          \/ Return(g, graph[g], "off")
      BY <1>4 DEF CallLLM, Raise
    <2>2. GoesOn(g, s)
      BY <2>1 DEF GoesOn
    <2>3. QED
      BY <1>1, <1>3, <2>2, GoingOnDelivers
  <1>5. CASE SaveTurn(g) \/ CommitMemory(g)
    <2>1. GoesOn(g, s)
      BY <1>5 DEF SaveTurn, CommitMemory, GoesOn
    <2>2. QED
      BY <1>1, <1>3, <2>1, GoingOnDelivers
  <1>6. CASE Validate(g)
    <2>1. GoesOn(g, s)
      BY <1>6 DEF Validate, Corrected, GoesOn
    <2>2. QED
      BY <1>1, <1>3, <2>1, GoingOnDelivers
  <1>7. CASE ApprovalStatusOf(g)
    <2>1. GoesOn(g, s)
      BY <1>7 DEF ApprovalStatusOf, GoesOn
    <2>2. QED
      BY <1>1, <1>3, <2>1, GoingOnDelivers
  <1>8. CASE ToolClaim(g) \/ ToolRecord(g)
    <2>1. GoesOn(g, s)
      BY <1>8 DEF ToolClaim, ToolRecord, Raise, GoesOn
    <2>2. QED
      BY <1>1, <1>3, <2>1, GoingOnDelivers
  <1>9. QED
    BY <1>4, <1>5, <1>6, <1>7, <1>8

\* The subgraph on the row of its task.
LEMMA RowStepDelivers ==
  ASSUME OneThread, IInv, DeliveryInv, NEW g \in Threads,
         ApprovalWait(g) \/ ApprovalAnswer(g) \/ Finalize(g) \/ FailRead(g) \/ FailWrite(g)
  PROVE  DeliveryInv'
  <1> PICK s : s = graph[g]
    OBVIOUS
  <1> PICK t : t = s.task
    OBVIOUS
  <1>1. /\ s.node \in TaskNode \ {"collect_delivery"} /\ s \in GraphState /\ t \in Tasks
        /\ StateOK(s, approvals)
    BY AtNode DEF ApprovalWait, ApprovalAnswer, Finalize, FailRead, FailWrite, At, TaskNode, IInv
  <1>2. tasks[t] \in TaskRow
    BY <1>1 DEF IInv, StoreOK
  <1>3. ASSUME NEW row, tasks' = [tasks EXCEPT ![t] = row]
        PROVE  Unmoved(g) /\ tasks'[t] = row
    BY <1>1, <1>3, RowDelivers DEF IInv, StoreOK
  <1>4. tasks' = tasks => Unmoved(g)
    BY QuietDelivers
  <1>5. ASSUME NEW u, EndNode(g, u), u.node = "collect_delivery", u.task = s.task,
               u.deliveries = s.deliveries, tasks'[t].status = u.status, Unmoved(g)
        PROVE  DeliveryInv'
    BY <1>1, <1>5, OutcomeDelivers
  <1>6. CASE ApprovalWait(g)
    <2>1. tasks' = [tasks EXCEPT ![t] = [tasks[t] EXCEPT !.status = "waiting_approval"]]
      BY <1>6 DEF ApprovalWait, WaitForApproval
    <2>2. GoesOn(g, s)
      BY <1>6 DEF ApprovalWait, GoesOn
    <2>3. QED
      BY <1>1, <1>3, <2>1, <2>2, GoingOnDelivers
  <1>7. CASE ApprovalAnswer(g)
    <2>1. TaskOf[Call(s)] = t
      <3>1. s.node = "approval"
        BY <1>7 DEF ApprovalAnswer, At
      <3>2. Call(s) \in Calls /\ Call(s).task = t
        BY <1>1, <3>1, CallType DEF Call
      <3>3. QED
        BY <3>2, GraphAssumption
    <2>2. Unmoved(g)
      <3>1. \/ tasks' = [tasks EXCEPT ![t] = DecidedTask(t, local[g].answer)]
            \/ tasks' = tasks
        BY <1>7, <2>1 DEF ApprovalAnswer, DecideApproval
      <3>2. QED
        BY <1>3, <1>4, <3>1
    <2>3. GoesOn(g, s)
      BY <1>7 DEF ApprovalAnswer, Raise, GoesOn
    <2>4. QED
      BY <1>1, <2>2, <2>3, GoingOnDelivers
  <1>8. CASE Finalize(g)
    <2>1. CASE /\ FinishTask(t, s.output)
               /\ EndNode(g, [s EXCEPT !.node = "collect_delivery", !.status = "succeeded"])
      <3> PICK row : row = [tasks[t] EXCEPT !.status = "succeeded", !.output = s.output]
        OBVIOUS
      <3> PICK u : u = [s EXCEPT !.node = "collect_delivery", !.status = "succeeded"]
        OBVIOUS
      <3>1. tasks' = [tasks EXCEPT ![t] = row]
        BY <2>1 DEF FinishTask
      <3>2. row.status = "succeeded"
        BY <1>2 DEF TaskRow
      <3>3. /\ u.node = "collect_delivery" /\ u.status = "succeeded"
            /\ u.task = s.task /\ u.deliveries = s.deliveries
        BY <1>1 DEF GraphState
      <3>4. Unmoved(g) /\ tasks'[t].status = u.status
        BY <1>3, <3>1, <3>2, <3>3
      <3>5. QED
        BY <1>5, <2>1, <3>3, <3>4
    <2>2. CASE Raise(g) /\ UNCHANGED tasks
      BY <1>4, <2>2, StopDelivers DEF Raise
    <2>3. QED
      BY <1>8, <2>1, <2>2 DEF Finalize, FinishTask
  <1> PICK f : f = FailedState(s)
    OBVIOUS
  <1>9. f.node = "collect_delivery" /\ f.status = "failed" /\ f.task = s.task /\ f.deliveries = s.deliveries
    BY <1>1 DEF FailedState, GraphState
  <1>10. CASE FailRead(g)
    <2>1. tasks' = tasks
      BY <1>10 DEF FailRead, tables, storeVars
    <2>2. CASE tasks[t].status = "failed" /\ EndNode(g, f)
      BY <1>4, <1>5, <1>9, <2>1, <2>2
    <2>3. CASE \E l : Inside(g, l)
      BY <1>4, <2>1, <2>3, InsideDelivers
    <2>4. QED
      BY <1>10, <2>2, <2>3 DEF FailRead
  <1>11. CASE FailWrite(g)
    <2> PICK row : row = [tasks[t] EXCEPT !.status = "failed"]
      OBVIOUS
    <2>1. tasks' = [tasks EXCEPT ![t] = row]
      BY <1>11 DEF FailWrite, FailTask, FailedStatus
    <2>2. row.status = "failed"
      BY <1>2 DEF TaskRow
    <2>3. Unmoved(g) /\ tasks'[t].status = "failed"
      BY <1>3, <2>1, <2>2
    <2>4. EndNode(g, f)
      BY <1>11 DEF FailWrite
    <2>5. QED
      BY <1>5, <1>9, <2>3, <2>4
  <1>12. QED
    BY <1>6, <1>7, <1>8, <1>10, <1>11

LEMMA DecideDelivers ==
  ASSUME IInv, DeliveryInv, NEW c \in Calls, Decide(c)
  PROVE  DeliveryInv'
  <1> PICK verdict \in Verdicts : DecideApproval(c, verdict)
    BY DEF Decide
  <1> PICK t : t = TaskOf[c]
    OBVIOUS
  <1> PICK row : row = DecidedTask(t, verdict)
    OBVIOUS
  <1>1. tasks' = [tasks EXCEPT ![t] = row]
    BY DEF DecideApproval
  <1>2. t \in Tasks
    BY StoreAssumption
  <1>3. CASE tasks[t].status = "waiting_approval"
    <2>1. \A g \in Threads : Unmoved(g)
      BY <1>1, <1>3, RowDelivers
    <2>2. QED
      BY <2>1, StayDelivers DEF Decide, graphVars
  <1>4. CASE tasks[t].status # "waiting_approval"
    <2>1. row = tasks[t]
      BY <1>4 DEF DecidedTask
    <2>2. tasks' = tasks
      BY <1>1, <2>1 DEF IInv, StoreOK
    <2>3. \A g \in Threads : Unmoved(g)
      BY <2>2, QuietDelivers
    <2>4. QED
      BY <2>3, StayDelivers DEF Decide, graphVars
  <1>5. QED
    BY <1>3, <1>4

LEMMA DeliveryInit == Init => DeliveryInv
  <1> SUFFICES ASSUME Init PROVE DeliveryInv
    OBVIOUS
  <1> DEFINE s == [node |-> "validate_plan", task |-> None, step |-> 0, turn |-> None,
                   output |-> None, status |-> "running", deliveries |-> {}]
  <1>1. graph = [g \in Threads |-> s] /\ saved = [g \in Threads |-> s]
    BY DEF Init
  <1>2. NotYet(s) /\ Owns(s) = {}
    BY DEF NotYet, Owns
  <1> HIDE DEF s
  <1>3. QED
    BY <1>1, <1>2 DEF DeliveryInv

LEMMA DeliveryStep == OneThread /\ IInv /\ DeliveryInv /\ [Next]_vars => DeliveryInv'
  <1> SUFFICES ASSUME OneThread, IInv, DeliveryInv, [Next]_vars PROVE DeliveryInv'
    OBVIOUS
  <1>1. ASSUME NEW g \in Threads, Proceed(g) PROVE DeliveryInv'
    BY <1>1, ParentDelivers, ClaimDelivers, CollectDelivers, AgentDelivers, RowStepDelivers
       DEF Proceed
  <1>2. CASE UNCHANGED vars
    <2>1. tasks' = tasks /\ UNCHANGED <<graph, saved>>
      BY <1>2 DEF vars, tables, storeVars, graphVars
    <2>2. QED
      BY <2>1, QuietDelivers, StayDelivers
  <1>3. QED
    BY <1>1, <1>2, AroundDelivers, DecideDelivers DEF Next

\* What the graph state or a checkpoint of it says was delivered is what the store
\* holds, also after a crash has gone back over a delivery.
THEOREM DeliveriesAgree == OneThread => (Spec => []DeliveriesMatchStore)
  <1> SUFFICES ASSUME OneThread PROVE Spec => []DeliveriesMatchStore
    OBVIOUS
  <1>1. Init => IInv /\ DeliveryInv
    BY InitInvariant, DeliveryInit
  <1>2. IInv /\ DeliveryInv /\ [Next]_vars => IInv' /\ DeliveryInv'
    BY NextInvariant, DeliveryStep
  <1>3. DeliveryInv => DeliveriesMatchStore
    BY DEF DeliveryInv, DeliveriesMatchStore, Owns
  <1>4. QED
    BY <1>1, <1>2, <1>3, PTL DEF Spec
=============================================================================
