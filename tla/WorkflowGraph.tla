--------------------------- MODULE WorkflowGraph ---------------------------
(***************************************************************************)
(* The LangGraph runtime (langgraph_runtime.py): the parent graph that     *)
(* schedules the tasks of a workflow and the role-agent subgraph it runs   *)
(* for each of them, on the tables of TaskStore, the agent_steps ledger,   *)
(* the tool-call ledger and the memories.  A graph thread is a process     *)
(* that walks the nodes and a checkpoint that survives it.                 *)
(*                                                                         *)
(* One action is one transaction of a node with the local steps after it.  *)
(* A node that ends hands over to the next one; the checkpoint of that     *)
(* boundary is written in the background (LangGraph's default durability), *)
(* so a crash resumes at the current node or at an earlier one and runs it *)
(* again from its beginning.                                               *)
(*                                                                         *)
(* Abstractions.  The nodes that only compute (context, policy, verify,    *)
(* extract_memory) are part of the node before them.  A model decision is  *)
(* a tool, "final" (a deliverable) or "invalid" (what validate_decision    *)
(* refuses).  The gateway is seen from the graph: its ledger row, without  *)
(* lease; ToolGateway models it in full.  The plan has passed              *)
(* validate_plan; Rank is the place of a task in its task_order.           *)
(***************************************************************************)
EXTENDS TaskStore, FiniteSets

CONSTANTS
  Threads,          \* graph threads on the same workflow
  Rank,             \* place of each task in task_order
  Tools,            \* tools the roles may call
  RiskOf,           \* risk of each tool
  RequireApproval,  \* risks that need an approval
  MaxSteps,         \* max_steps of a role agent
  Verdicts,         \* decisions the reviewer takes
  MaxCrashes        \* BOUND: processes that die

Decision == Tools \cup {"final", "invalid"}

Steps == 0..(MaxSteps - 1)

ASSUME GraphAssumption ==
  /\ Rank \in [Tasks -> Nat]
  /\ \A t, u \in Tasks : (Rank[t] = Rank[u] => t = u) /\ (u \in Deps[t] => Rank[u] < Rank[t])
  /\ RiskOf \in [Tools -> RiskLevel]
  /\ RequireApproval \subseteq RiskLevel
  /\ MaxSteps \in Nat
  /\ Calls = [task: Tasks, step: Steps, tool: Tools]
  /\ \A c \in Calls : TaskOf[c] = c.task
  /\ Verdicts \subseteq {"approved", "rejected"}
  /\ MaxCrashes \in Nat
  /\ None \notin Decision \cup Verdicts
  /\ {"final", "invalid"} \cap Tools = {}

VARIABLES
  turns,     \* table agent_steps: the saved decision of each step of a task
  ledger,    \* status column of table tool_calls; "absent" is also waiting_approval
  memories,  \* table memories: tasks whose outcome is committed
  graph,     \* state of each thread at its last node boundary
  saved,     \* its durable checkpoint
  local,     \* where its process stands inside the node
  crashes,   \* number of crashes so far
  invoked    \* history: times the handler of a call was started, counted to two

graphVars == <<graph, saved, local>>
tables == <<storeVars, turns, ledger, memories>>
vars == <<tables, graphVars, crashes, invoked>>

Node == {"validate_plan", "schedule", "llm", "validate", "approval", "tool", "memory",
         "finalize", "fail", "collect_delivery", "complete", "workflow_fail", "end"}

GraphState ==
  [node: Node, task: Tasks \cup {None}, step: Nat, turn: Decision \cup {None},
   output: Outputs \cup {None}, status: {"running", "succeeded", "failed"},
   deliveries: SUBSET (Tasks \X {"succeeded", "failed"})]

Local ==
  [pc: {"off", "interrupted", "enter", "ready", "claim", "save", "wait", "answer",
        "in_tool", "write"},
   seen: BOOLEAN,                     \* schedule: every task it listed had succeeded
   pick: Tasks \cup {None},           \* schedule: the task to start
   turn: Decision \cup {None},        \* llm: the decision just sampled
   answer: Verdicts \cup {None}]      \* approval: what the human resumed with

NonIdempotent(tool) == RiskOf[tool] = "non_idempotent_write"

Gated(tool) == RiskOf[tool] \in RequireApproval

Entry == [pc |-> "enter", seen |-> FALSE, pick |-> None, turn |-> None, answer |-> None]

Off == [Entry EXCEPT !.pc = "off"]

Init ==
  /\ StoreInit
  /\ turns = [t \in Tasks |-> [n \in Steps |-> None]]
  /\ ledger = [c \in Calls |-> "absent"]
  /\ memories = {}
  /\ graph = [g \in Threads |->
       [node |-> "validate_plan", task |-> None, step |-> 0, turn |-> None, output |-> None,
        status |-> "running", deliveries |-> {}]]
  /\ saved = graph
  /\ local = [g \in Threads |-> Off]
  /\ crashes = 0
  /\ invoked = [c \in Calls |-> 0]

-----------------------------------------------------------------------------
(* Threads and checkpoints *)

At(g, node, pc) == graph[g].node = node /\ local[g].pc = pc

\* The process goes on inside its node.
Inside(g, l) == local' = [local EXCEPT ![g] = l] /\ UNCHANGED <<graph, saved>>

\* The node ends with state s.
EndNode(g, s) ==
  /\ graph' = [graph EXCEPT ![g] = s]
  /\ local' = [local EXCEPT ![g] = Entry]
  /\ UNCHANGED saved

\* Mutant: the invocation returns without waiting for its checkpoints.
ReturnUnflushed(g, s, pc) ==
  /\ graph' = [graph EXCEPT ![g] = s]
  /\ local' = [local EXCEPT ![g] = [Entry EXCEPT !.pc = pc]]
  /\ UNCHANGED saved

\* The invocation returns in state s; pending checkpoints are flushed first.
Return(g, s, pc) ==
  /\ graph' = [graph EXCEPT ![g] = s]
  /\ saved' = [saved EXCEPT ![g] = s]
  /\ local' = [local EXCEPT ![g] = [Entry EXCEPT !.pc = pc]]

\* An exception leaves the node and the graph.
Raise(g) == Return(g, graph[g], "off")

\* invoke(): a new run, or one more after a crash or an exception.
Invoke(g) ==
  /\ local[g].pc = "off"
  /\ graph[g].node # "end"
  /\ Inside(g, Entry)
  /\ UNCHANGED <<tables, crashes, invoked>>

\* invoke(Command(resume=...)) on an interrupted thread.
Resume(g) ==
  /\ local[g].pc = "interrupted"
  /\ \E answer \in Verdicts : Inside(g, [Entry EXCEPT !.answer = answer])
  /\ UNCHANGED <<tables, crashes, invoked>>

\* The background write of the checkpoint catches up.
Checkpoint(g) ==
  /\ saved[g] # graph[g]
  /\ saved' = [saved EXCEPT ![g] = graph[g]]
  /\ UNCHANGED <<tables, graph, local, crashes, invoked>>

\* The process dies.  A resume value it was given dies with it: the human is
\* asked again.
Crash(g) ==
  /\ local[g].pc \notin {"off", "interrupted"}
  /\ crashes < MaxCrashes
  /\ crashes' = crashes + 1
  /\ graph' = [graph EXCEPT ![g] = saved[g]]
  /\ local' = [local EXCEPT ![g] = Off]
  /\ UNCHANGED <<tables, saved, invoked>>

-----------------------------------------------------------------------------
(* The parent graph *)

ValidatePlan(g) ==
  /\ At(g, "validate_plan", "enter")
  /\ SetWorkflowStatus("running")
  /\ EndNode(g, [graph[g] EXCEPT !.node = "schedule"])
  /\ UNCHANGED <<tasks, approvals, artifacts, turns, ledger, memories, crashes, invoked>>

\* schedule lists the tasks: a failed one ends the workflow.
ScheduleList(g) ==
  /\ At(g, "schedule", "enter")
  /\ IF \E t \in Tasks : tasks[t].status = "failed"
     THEN EndNode(g, [graph[g] EXCEPT !.node = "workflow_fail"])
     ELSE Inside(g, [Entry EXCEPT !.pc = "ready", !.seen = Succeeded = Tasks])
  /\ UNCHANGED <<tables, crashes, invoked>>

\* Mutant: the workflow is complete as soon as nothing is ready.
NothingReadyComplete(seen) == "complete"

\* Where schedule goes when no task is ready.
NothingReady(seen) == IF seen THEN "complete" ELSE "workflow_fail"

\* schedule reads the ready tasks and picks the first of task_order.
ScheduleReady(g) ==
  /\ At(g, "schedule", "ready")
  /\ \/ /\ ReadyTasks = {}
        /\ EndNode(g, [graph[g] EXCEPT !.node = NothingReady(local[g].seen)])
     \/ \E t \in ReadyTasks :
          /\ \A u \in ReadyTasks : Rank[t] <= Rank[u]
          /\ Inside(g, [Entry EXCEPT !.pc = "claim", !.pick = t])
  /\ UNCHANGED <<tables, crashes, invoked>>

\* The state schedule hands to the subgraph.
Dispatched(s, t) ==
  [s EXCEPT !.node = "llm", !.task = t, !.step = 0, !.turn = None, !.output = None,
            !.status = "running"]

\* schedule starts its pick; when another scheduler was faster, its answer
\* "running" has no route and falls through to workflow_fail.
ScheduleClaim(g) ==
  LET t == local[g].pick
  IN  /\ At(g, "schedule", "claim")
      /\ \/ CanStart(t) /\ StartTask(t) /\ EndNode(g, Dispatched(graph[g], t))
         \/ ~CanStart(t) /\ EndNode(g, [graph[g] EXCEPT !.node = "workflow_fail"])
                         /\ UNCHANGED tasks
      /\ UNCHANGED <<workflow, approvals, artifacts, turns, ledger, memories, crashes, invoked>>

CollectDelivery(g) ==
  LET s == graph[g]
  IN  /\ At(g, "collect_delivery", "enter")
      /\ EndNode(g, [s EXCEPT !.node = IF s.status = "failed" THEN "workflow_fail" ELSE "schedule",
                              !.deliveries = {d \in @ : d[1] # s.task} \cup {<<s.task, s.status>>}])
      /\ UNCHANGED <<tables, crashes, invoked>>

Complete(g) ==
  /\ At(g, "complete", "enter")
  /\ SetWorkflowStatus("succeeded")
  /\ Return(g, [graph[g] EXCEPT !.node = "end"], "off")
  /\ UNCHANGED <<tasks, approvals, artifacts, turns, ledger, memories, crashes, invoked>>

WorkflowFail(g) ==
  /\ At(g, "workflow_fail", "enter")
  /\ SetWorkflowStatus("failed")
  /\ Return(g, [graph[g] EXCEPT !.node = "end"], "off")
  /\ UNCHANGED <<tasks, approvals, artifacts, turns, ledger, memories, crashes, invoked>>

-----------------------------------------------------------------------------
(* The role-agent subgraph *)

\* Mutant: a decision the validator refuses does not use up a step.
DecidedUncounted(s, d) ==
  [s EXCEPT !.node = "validate", !.turn = d, !.step = IF d = "invalid" THEN @ ELSE @ + 1]

\* The state after a model decision.
Decided(s, d) == [s EXCEPT !.node = "validate", !.turn = d, !.step = @ + 1]

\* Mutant: the saved decision of a step is never looked up.
SavedTurnIgnored(s) == None

\* get_agent_step
SavedTurn(s) == turns[s.task][s.step]

\* call_llm, after the context nodes: out of steps, or the saved decision of the
\* step, or a fresh one from the model.
CallLLM(g) ==
  LET s == graph[g]
  IN  /\ At(g, "llm", "enter")
      /\ \/ /\ s.step >= MaxSteps
            /\ EndNode(g, [s EXCEPT !.node = "fail", !.status = "failed", !.turn = None])
         \/ /\ s.step < MaxSteps
            /\ SavedTurn(s) # None
            /\ EndNode(g, Decided(s, SavedTurn(s)))
         \/ /\ s.step < MaxSteps
            /\ SavedTurn(s) = None
            /\ \/ \E d \in Decision : Inside(g, [Entry EXCEPT !.pc = "save", !.turn = d])
               \/ Raise(g)                                \* the model call fails
      /\ UNCHANGED <<tables, crashes, invoked>>

\* save_agent_step is INSERT OR IGNORE; the node goes on with its own decision.
SaveTurn(g) ==
  LET s == graph[g]
  IN  /\ At(g, "llm", "save")
      /\ turns' = [turns EXCEPT ![s.task][s.step] = IF @ = None THEN local[g].turn ELSE @]
      /\ EndNode(g, Decided(s, local[g].turn))
      /\ UNCHANGED <<storeVars, ledger, memories, crashes, invoked>>

\* Where an invalid decision leads.
Corrected(s) == IF s.step >= MaxSteps THEN "fail" ELSE "llm"

\* validate_decision, policy_check, verify_deliverable, extract_memory and their
\* routes.  An output is made here.  Its text is that of the saved decision, but not its
\* compression_applied: the context nodes, when they run again, compare the budget with
\* the store as it is then, so the same decision may be delivered as another output.
Validate(g) ==
  LET s == graph[g]
  IN  /\ At(g, "validate", "enter")
      /\ \/ s.turn = "invalid" /\ EndNode(g, [s EXCEPT !.node = Corrected(s)])
         \/ /\ s.turn \in Tools
            /\ EndNode(g, [s EXCEPT !.node = IF Gated(s.turn) THEN "approval" ELSE "tool"])
         \/ /\ s.turn = "final"
            /\ \E output \in Outputs :
                 EndNode(g, [s EXCEPT !.node = "memory", !.output = output])
      /\ UNCHANGED <<tables, crashes, invoked>>

\* The call id of the decision a thread acts on.
Call(s) == [task |-> s.task, step |-> s.step - 1, tool |-> s.turn]

Rejected(s) == [s EXCEPT !.node = "fail", !.status = "failed"]

\* Mutant: an approval somebody still has to decide is taken for granted.
AuthorizedHasty(c) == approvals[c] \in {"pending", "approved"}

\* authorization_status answers "approved".
Authorized(c) == approvals[c] = "approved"

\* approval_node: authorization_status
ApprovalStatusOf(g) ==
  LET s == graph[g]
      c == Call(s)
  IN  /\ At(g, "approval", "enter")
      /\ RequestApproval(c)
      /\ \/ Authorized(c) /\ EndNode(g, [s EXCEPT !.node = "tool"])
         \/ approvals[c] = "rejected" /\ EndNode(g, Rejected(s))
         \/ /\ ~Authorized(c)
            /\ approvals[c] # "rejected"
            /\ Inside(g, [local[g] EXCEPT !.pc = "wait"])
      /\ UNCHANGED <<workflow, tasks, artifacts, turns, ledger, memories, crashes, invoked>>

\* approval_node: the task waits, then the thread stops for a human or takes the
\* answer it was resumed with.
ApprovalWait(g) ==
  /\ At(g, "approval", "wait")
  /\ WaitForApproval(graph[g].task)
  /\ IF local[g].answer = None
     THEN Return(g, graph[g], "interrupted")
     ELSE Inside(g, [local[g] EXCEPT !.pc = "answer"])
  /\ UNCHANGED <<workflow, approvals, artifacts, turns, ledger, memories, crashes, invoked>>

\* approval_node: decide_approval; somebody else's decision makes it raise.
ApprovalAnswer(g) ==
  LET s == graph[g]
      c == Call(s)
  IN  /\ At(g, "approval", "answer")
      /\ \/ /\ DecideApproval(c, local[g].answer)
            /\ EndNode(g, IF local[g].answer = "approved" THEN [s EXCEPT !.node = "tool"]
                          ELSE Rejected(s))
         \/ /\ approvals[c] # "pending"
            /\ Raise(g)
            /\ UNCHANGED <<approvals, tasks>>
      /\ UNCHANGED <<workflow, artifacts, turns, ledger, memories, crashes, invoked>>

\* Mutant: an orphaned or uncertain call is claimed again whatever its risk.
ClaimableBlindly(c) == ledger[c] # "succeeded"

\* _claim may start the call: it is new, failed, or an orphan that is safe to repeat.
Claimable(c) ==
  \/ ledger[c] \in {"absent", "failed"}
  \/ ledger[c] = "running" /\ ~NonIdempotent(c.tool)

\* execute_tool: ToolGateway.execute up to its claim.  The approval was granted in
\* the node before.
ToolClaim(g) ==
  LET s == graph[g]
      c == Call(s)
  IN  /\ At(g, "tool", "enter")
      /\ \/ /\ ledger[c] = "succeeded"                   \* replayed
            /\ EndNode(g, [s EXCEPT !.node = "llm"])
            /\ UNCHANGED <<ledger, invoked>>
         \/ /\ Claimable(c)
            /\ ledger' = [ledger EXCEPT ![c] = "running"]
            /\ invoked' = [invoked EXCEPT ![c] = IF @ < 2 THEN @ + 1 ELSE @]
            /\ Inside(g, [Entry EXCEPT !.pc = "in_tool"])
         \/ /\ ledger[c] \in {"running", "uncertain"}    \* in progress, or unsafe to repeat
            /\ Raise(g)
            /\ UNCHANGED <<ledger, invoked>>
      /\ UNCHANGED <<storeVars, turns, memories, crashes>>

\* execute_tool: the handler returns or raises, and the gateway records it.
ToolRecord(g) ==
  LET s == graph[g]
      c == Call(s)
  IN  /\ At(g, "tool", "in_tool")
      /\ \/ /\ ledger' = [ledger EXCEPT ![c] = "succeeded"]
            /\ EndNode(g, [s EXCEPT !.node = "llm"])
         \/ /\ ledger' = [ledger EXCEPT ![c] = IF NonIdempotent(c.tool) THEN "uncertain" ELSE "failed"]
            /\ Raise(g)
      /\ UNCHANGED <<storeVars, turns, memories, crashes, invoked>>

\* commit_memory: the key and the source are the task's, so a second commit is ignored.
CommitMemory(g) ==
  /\ At(g, "memory", "enter")
  /\ memories' = memories \cup {graph[g].task}
  /\ EndNode(g, [graph[g] EXCEPT !.node = "finalize"])
  /\ UNCHANGED <<storeVars, turns, ledger, crashes, invoked>>

Finalize(g) ==
  LET s == graph[g]
  IN  /\ At(g, "finalize", "enter")
      /\ \/ /\ ~FinishConflicts(s.task, s.output)
            /\ FinishTask(s.task, s.output)
            /\ EndNode(g, [s EXCEPT !.node = "collect_delivery", !.status = "succeeded"])
         \/ /\ FinishConflicts(s.task, s.output)
            /\ Raise(g)
            /\ UNCHANGED tasks
      /\ UNCHANGED <<workflow, approvals, artifacts, turns, ledger, memories, crashes, invoked>>

FailedState(s) == [s EXCEPT !.node = "collect_delivery", !.status = "failed"]

\* fail reads the task ...
FailRead(g) ==
  LET s == graph[g]
  IN  /\ At(g, "fail", "enter")
      /\ IF tasks[s.task].status = "failed" THEN EndNode(g, FailedState(s))
         ELSE Inside(g, [Entry EXCEPT !.pc = "write"])
      /\ UNCHANGED <<tables, crashes, invoked>>

\* ... and fails it in a transaction of its own.
FailWrite(g) ==
  /\ At(g, "fail", "write")
  /\ FailTask(graph[g].task, FALSE)
  /\ EndNode(g, FailedState(graph[g]))
  /\ UNCHANGED <<workflow, approvals, artifacts, turns, ledger, memories, crashes, invoked>>

-----------------------------------------------------------------------------

\* The reviewer decides through the store (the approve command).
Decide(c) ==
  /\ \E verdict \in Verdicts : DecideApproval(c, verdict)
  /\ UNCHANGED <<workflow, artifacts, turns, ledger, memories, graphVars, crashes, invoked>>

\* What an invocation does by itself.
Proceed(g) ==
  \/ ValidatePlan(g)
  \/ ScheduleList(g)
  \/ ScheduleReady(g)
  \/ ScheduleClaim(g)
  \/ CollectDelivery(g)
  \/ Complete(g)
  \/ WorkflowFail(g)
  \/ CallLLM(g)
  \/ SaveTurn(g)
  \/ Validate(g)
  \/ ApprovalStatusOf(g)
  \/ ApprovalWait(g)
  \/ ApprovalAnswer(g)
  \/ ToolClaim(g)
  \/ ToolRecord(g)
  \/ CommitMemory(g)
  \/ Finalize(g)
  \/ FailRead(g)
  \/ FailWrite(g)

Next ==
  \/ \E g \in Threads : Invoke(g) \/ Resume(g) \/ Checkpoint(g) \/ Crash(g) \/ Proceed(g)
  \/ \E c \in Calls : Decide(c)

Spec == Init /\ [][Next]_vars

\* An invocation that was started goes on: models and tools answer.
FairSpec == Spec /\ \A g \in Threads : WF_vars(Proceed(g))

-----------------------------------------------------------------------------
(* Properties *)

\* Every variable has its type, and a thread nobody runs stands at its checkpoint.
TypeOK ==
  /\ workflow \in WorkflowStatus
  /\ tasks \in [Tasks -> TaskRow]
  /\ approvals \in [Calls -> ApprovalStatus \cup {"absent"}]
  /\ artifacts \subseteq ArtifactRow
  /\ turns \in [Tasks -> [Steps -> Decision \cup {None}]]
  /\ ledger \in [Calls -> {"absent", "running", "succeeded", "failed", "uncertain"}]
  /\ memories \subseteq Tasks
  /\ graph \in [Threads -> GraphState]
  /\ saved \in [Threads -> GraphState]
  /\ local \in [Threads -> Local]
  /\ crashes \in 0..MaxCrashes
  /\ invoked \in [Calls -> 0..2]
  /\ \A g \in Threads : local[g].pc \in {"off", "interrupted"} => graph[g] = saved[g]

\* A non-idempotent call is started once at most, whatever crashes, resumptions and
\* second threads make its node run again.
RiskyCallOnce == \A c \in Calls : NonIdempotent(c.tool) => invoked[c] <= 1

\* One step of a task stands for one call: a step that runs again after a crash does
\* not start another one in its place.
OneCallPerStep ==
  \A c, d \in Calls :
    c.task = d.task /\ c.step = d.step /\ invoked[c] > 0 /\ invoked[d] > 0 => c = d

\* A gated tool is started only once its call was approved.
ApprovedBeforeTool == \A c \in Calls : Gated(c.tool) /\ invoked[c] > 0 => approvals[c] = "approved"

\* A task that succeeded keeps its output, although its nodes may run again from an
\* old checkpoint: they come to the same end or raise.
SuccessIsFinal ==
  [][\A t \in Succeeded : tasks'[t] = tasks[t]]_vars

\* The workflow is reported succeeded only if every task is.
SuccessIsComplete == workflow = "succeeded" => Succeeded = Tasks

\* The memory of a task is committed before the task is reported succeeded, and a
\* task that failed has left none.
MemoryMatchesOutcome ==
  \A t \in Tasks : CASE tasks[t].status = "succeeded" -> t \in memories
                     [] tasks[t].status = "failed"    -> t \notin memories
                     [] OTHER                         -> TRUE

\* What the graph state says was delivered is the outcome the store holds, in the
\* running thread and in the checkpoint it would resume from.
DeliveriesMatchStore ==
  \A g \in Threads : \A d \in graph[g].deliveries \cup saved[g].deliveries :
    tasks[d[1]].status = d[2]

\* Every invocation comes back: to its end, to a human or with an exception.
InvocationReturns ==
  \A g \in Threads :
    local[g].pc \notin {"off", "interrupted"} ~> local[g].pc \in {"off", "interrupted"}

-----------------------------------------------------------------------------
(* What the code's own error message says and the code does not do *)

\* src/agent_harness/langgraph_runtime.py:480: the workflow fails because its graph
\* is blocked.  A workflow with a valid plan fails only if one of its tasks failed.
FailureHasCause == workflow = "failed" => \E t \in Tasks : tasks[t].status = "failed"
=============================================================================
