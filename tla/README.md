# A TLA+ model of the agent harness

This directory holds a verification development of `agent_harness`, the resumable
multi-agent harness of this repository: TLA+ modules translated from
`src/agent_harness/*.py`, TLC configurations that check them on small instances, and TLAPS
proofs of the main safety properties for every value of the constants.  Paths and line
numbers below are those of the repository; the docs referred to are `README.md`,
`docs/architecture.md` and `docs/langgraph-design.md` of the repository.

## 1. Inventory

| Component (file) | State it keeps | Operations | Talks to | Hard part | What makes it correct |
|---|---|---|---|---|---|
| Domain (`domain.py`) | none | enumerations, dataclasses | everybody | - | - |
| SQLiteStore (`store.py`) | workflows, tasks, tool_calls, approvals, artifacts, events, summaries, agent_steps, memories | one transaction per method | everybody calls it | deferred and immediate transactions, what rolls back with an exception, several processes on one file | every transaction moves a row only where the status machine allows |
| ToolGateway (`tools.py`) | rows of tool_calls and approvals; leases | `execute`, `authorization_status` | store, tool handlers or MCP, reviewer through the store | many workers on one call id; crash between effect and record; lease shorter than the handler; authorization and claim in two transactions | a non-idempotent call acts once; nothing gated acts unapproved; a call id has one identity; answers are results of calls that acted |
| Tool registry (`tools.py`) | dictionary of specs | `register`, `get`, `schemas` | gateway, agents | none | - |
| Orchestrator (`orchestrator.py`) | only locals | `run`, `_settle` | store, agents, context | several processes on one workflow; stale ready lists; approvals that arrive between two transactions; death of a process | one executor per task, dependencies first, final outcomes, honest workflow status, termination |
| ToolCallingAgent (`agents.py`) | messages in memory, agent_steps in the store | `run` | model, gateway, store | resumption in the middle of a step; a loop that a pause or a retry runs from its start | the ledger holds only calls of saved decisions; a result stands on calls that went through |
| Model adapters (`agents.py`) | none | one remote call | OpenAI, Anthropic | pure I/O | - |
| ContextAssembler (`context.py`) | none | `build_layers`, `pack` | store (reads) | budget arithmetic in two units; two ways to a context | only required layers exceed the budget; every layer accounted for; nothing trimmed without need |
| LangGraph role agent (`langgraph_runtime.py`) | graph state, checkpoints, interrupts | 13 nodes and their routes | store, gateway, model, human | nodes run again after a crash or an interrupt; two sources of truth (checkpoint and store) | same as the agent's and the gateway's, plus agreement of the two |
| LangGraph workflow (`langgraph_runtime.py`) | task_order, deliveries, workflow status | `validate_plan`, `schedule`, `collect_delivery`, `complete`, `workflow_fail` | role agent, store | a node commits to the store before its checkpoint exists | plans are checked exactly; a workflow fails only for a cause |
| CLI and demo (`cli.py`, `demo.py`) | none | wiring, printing | all | none | - |

The components meet in the SQLite file.  A process (an `Orchestrator.run`, a graph
thread, the `approve` command) is a sequence of short transactions on it; between two of
them any other process, the reviewer, the clock or a crash may act.  That is the grain of
every model here: **one action is one transaction or one query, together with the local
steps up to the next one.**

## 2. Modules

| Module | Models | Uses |
|---|---|---|
| `Domain` | the enumerations of `domain.py` and the three literals of an approval | - |
| `ToolGateway` | `tools.py`: `execute`, `authorization_status`, their five transactions, leases, the reviewer, crashes | extends Domain; instantiates CallContract |
| `CallContract` | what is promised of a non-idempotent call, without workers, leases or failures (abstract) | - |
| `TaskStore` | the transactions of `store.py` on workflows, tasks, approvals and artifacts, as operators | extends Domain |
| `Orchestrator` | `orchestrator.py`: any number of processes, the reviewer, dying processes | extends TaskStore |
| `Harness` | `ToolCallingAgent.run` of `agents.py` inside the processes of Orchestrator and on the ledger of ToolGateway | extends TaskStore; instantiates Orchestrator and ToolGateway |
| `WorkflowGraph` | `langgraph_runtime.py`: parent graph and role subgraph, interrupts, checkpoints, crashes | extends TaskStore |
| `PlanValidation` | `validate_plan` of `langgraph_runtime.py`: reference checks and Kahn's algorithm | - |
| `ContextPack` | `context.py` and the context nodes of `langgraph_runtime.py` | - |
| `MCToolGateway`, `MCOrchestrator`, `MCHarness`, `MCWorkflowGraph`, `MCContextPack` | small instances for TLC | extend the module they name |
| `ToolGatewayProofs`, `OrchestratorProofs`, `HarnessProofs`, `WorkflowGraphProofs`, `PlanValidationProofs`, `ContextPackProofs` | theorems and proofs | extend the module they name, and TLAPS |
| `GatewayRefinementProofs` | the proof that ToolGateway implements CallContract | extends ToolGatewayProofs |
| `SingleThreadProofs` | what WorkflowGraph promises when one thread runs a workflow | extends WorkflowGraphProofs |

Operators whose comment begins with `Mutant:` are plausible bugs of the definition that
follows them.  No specification uses them; each shows that some property fails when the
code is wrong in that way.

### ToolGateway

`calls[c]` is the row of call id `c` in tool_calls: status, session, arguments (a member
of `Args` stands for its fingerprint), attempt, lease and result.  `lease_until` is
reduced to what `_claim` can see of it: `none` (NULL), `live`, `expired`; `LeaseExpires`
is the clock.  The result is the number of the attempt that produced it.  `worker[w]`
says where a caller stands in `execute`:

| Action | Code |
|---|---|
| `Execute`, `AuthorizationStatus` | `_authorize_or_request` (161-202), one transaction |
| `ClaimWon`, `ClaimLost` | `_claim` (204-251), one transaction; a refusal raises inside the block, so everything it wrote is rolled back (`store.py` 45-47) |
| `HandlerEffect` | the handler or MCP call acts on the world (148-154) |
| `RecordSuccess`, `RecordFailure` | `_record_success`, `_record_failure` (253-282): neither looks at the row |
| `Abandon` | the process dies, or its record transaction fails |
| `Decide` | `decide_approval` as the gateway sees it |
| `LeaseExpires` | `lease_seconds` pass; nothing renews a lease and `timeout_seconds` is never enforced |

`effects[c][a]` is a history variable: how often call `c` acted with arguments `a`.

### CallContract

The abstract ledger: a call that must not be repeated is new, proposed to the reviewer,
agreed to or refused, started, and then done or doubtful.  Its terms never change once
proposed or started, it acts at most once, on its terms and after its start, and it is
done only after it acted.  `ToolGateway!Contract` maps the concrete state to it: the
phase is the row's status once the row was claimed and the approval's before
(`Phase`), the terms are the row's arguments, the acts the history of effects.  A crash, a
lease, a retry, a replay and a refusal are stutters.  `FulfilsContract` (`Contract!Spec`) is
checked by `gateway_safety` and proved in `GatewayRefinementProofs`.

### TaskStore and Orchestrator

One workflow is modelled, because every query is restricted to one.  A task is a number,
in the order of `list_tasks`.  `worker[w]` is the local state of `run()`: the rest of the
ready list, `made_progress`, the task in execution and what its agent has done.  Actions
follow the code: `Run` (resume_approved_tasks), `MarkRunning`, `QueryReady`, `TryStart`
(start_task), `EndOfScan`, then per task `AgentCalls`, `AgentReturns`, `AgentRaises`,
`StoreArtifact`, `Finish`, `Wait`, `Fail`, and at the end `Settle` (the query) and
`Publish` (the write).  `Decide` is the reviewer, `Abort` a process that dies or that
loses a write to a locked database (`fail_task` upgrades a read transaction, which SQLite
refuses when somebody committed in between, and the exception leaves `run()`).

`artifacts` is a set of rows: the task, the id, and as history the attempt that added the row
and its place in the result.  A result hands over a list of `Artifacts[t]`, and `StoreArtifact`
adds one of it, in a transaction of its own as in `orchestrator.py` 40-41; a process may raise
or die between any two.  An id is either the agent's own, and then refused wherever the table
has it (the primary key of `store.py` 114-124 knows no task), or `None`, one that the store
draws and that collides with nothing.

The agent is seen from outside: it makes the gated calls of its script in order, may
raise at any point, and returns an output.  Its saved steps give the same calls the same
ids on every attempt, which is why the script is a constant; `Harness` replaces the
script by the agent's own loop.

### Harness

The composition.  It owns no copy of the other components: `Orch` is `Orchestrator`
with an empty script, `Gateway` is `ToolGateway` with one session and one argument object
per call id, on the same approvals.  Between `TryStart` and `Finish`, `Wait` or `Fail` of a
process stands the loop of `ToolCallingAgent.run`:

| Action | Code (`agents.py`, unless named) |
|---|---|
| `Ask` | the lookup of the saved step and, without one, the model's answer (124-137); out of steps (164) |
| `SaveStep` | `save_agent_step`, INSERT OR IGNORE; the loop goes on with its own decision (137-143) |
| `AgentReturns` | a turn without calls (144-145) |
| `Authorize`, `Claim` | the two transactions of `execute` (`tools.py` 137-146) with the verdicts of `ToolGateway`, and what each exception does to the process (`orchestrator.py` 43-50) |
| `HandlerEffect`, `RecordSuccess`, `RecordFailure` | the handler and its record (`tools.py` 148-159) |
| `AttemptFails` | an exception that leaves no trace in the tables, wherever in `try` it comes from: the model, the context, `get_agent_step` or `save_agent_step`, an unknown tool, refused arguments, a transaction of the gateway or `finish_task` that the database refuses, a record that raises; `orchestrator.py` 49-50 retries it |
| `LeaseExpires`, `Abort`, `Decide`, `Run`, `Schedules` | as in the instantiated modules |

A call id is the record of what `_stable_call_id` hashes.  A model may answer anything of
`Turns`; nothing depends on the prompt.  The results of this agent carry no artifacts.

### WorkflowGraph

A graph thread has three records: `graph[g]`, the graph state at its last node boundary;
`saved[g]`, the checkpoint on disk; `local[g]`, where its process stands inside the node.
Ending a node changes `graph`; `Checkpoint` copies it to `saved` at any later time,
because LangGraph writes checkpoints in the background by default, and flushes them when
an invocation returns.  `Crash` goes back to `saved`, so a node is run again, or several
of them.  LangGraph itself is not part of the repository; these four behaviours
(`Return`, `Raise`, `Checkpoint`, `Crash`) are marked external.  Making `Checkpoint`
lag is a superset of synchronous checkpoints: the counterexample of `graph_crash` needs
no lag.

A decision of the model is a tool, `final` or `invalid`.  The nodes that only compute
(`retrieve_context`, `compact_context`, `assemble_context`, `policy`, `verify`,
`extract_memory`) belong to the node before them: a crash in one of them is a crash at
that boundary.  `call_llm` is two steps, asking the model and `save_agent_step`;
`approval_node` three; `schedule` three (list, ready, start); `execute_tool` two, claim
and record, on the status column of the ledger.  The repair route of `verify` is not
modelled: validate has already refused an empty text, so it is never taken.
`Invoke` continues a thread; starting an old thread again with a fresh input is not
modelled, the command line never does it.

### PlanValidation

The plan is the initial state: up to all ids of `Ids`, any dependency lists (unknown ids,
repetitions, self references), any set of tasks whose role has an agent.  The queue is a
set, as the code keeps it sorted and takes its first element.  `WorkflowGraph` starts
from an accepted plan; its assumption on `Rank` is what `OrderIsLeastTopological` states.

### ContextPack

A layer is its number of characters.  One action is one round of the loop of `pack`
(`SkipEmpty`, `TakeWhole`, `TakeCut`, `Omit`); `Compact` and `Assemble` are the two routes
of the graph, and the orchestrator starts in the loop.  The summarizer is the built-in
one, or a caller's that answers any length of `Summarized`.

## 3. What is checked

Every passing run finishes within three minutes on two cores.

| Run | Instance | What it shows |
|---|---|---|
| `gateway_safety` | 2 workers, 2 sessions, 2 argument objects, one non-idempotent and one idempotent call, 2 claims per call; 311 033 states | `AtMostOnce`, `ApprovedBeforeEffect`, `OneIdentity`, `WriteAhead`, `AnsweredMeansEffect`, `SettledForGood` survive races, crashes, expired leases, failures and retries; the risky call follows `CallContract` |
| `gateway_refusal` (violated) | 2 workers, one non-idempotent call | F1 below |
| `gateway_replay` (violated) | 2 workers, one idempotent call | F2 below |
| `orchestrator_safety` | 2 processes, a fork of 3 tasks, 2 approvals for the first, results of up to 2 artifacts with drawn ids and with own ones that two tasks share, 1 abort; 305 111 states | exclusive execution, dependencies, final outcomes, honest success, approvals, bounded attempts, artifacts, stranded tasks |
| `orchestrator_crash` (violated) | 1 process, 1 task, 1 crash | F3 |
| `orchestrator_reject` (violated) | 1 process, 1 task, a rejection | F4 |
| `orchestrator_settle` (violated) | 1 process, 1 task, an approval | F5 |
| `harness` | 2 processes, a chain of 2 tasks, 3 attempts, 2 steps, a gated tool and an idempotent one in one turn, approvals and rejections, 1 abort; 230 722 states | saved decisions and ledger agree, a success stands on calls that went through, late records never undo a success, every `run()` returns, repeated calls bring every task to rest |
| `graph_safety` | 1 thread, a chain of 2 tasks, a non-idempotent gated tool and a reading one, 2 steps, 2 outputs, approvals and rejections from both sides, 2 crashes; 258 554 states | what runs again after a crash neither repeats a call nor replaces it, never changes a finished task; memories, deliveries and task rows agree; invocations return |
| `graph_crash` (violated) | 1 thread, 1 task, 1 crash | F6 |
| `plan_validation` | every plan of at most 3 tasks with at most 2 dependencies each; 42 493 states | accepted exactly if sound; the order is the least topological one, and complete |
| `context_pack` | 6 budgets and 192 sets of lengths around every comparison of `pack`; 9 842 states | only required layers exceed the budget; every layer is selected or named as omitted; both routes agree on what fits |

### Bounds and why they are enough

- Two workers: every gateway race is between one worker and the row another one left;
  all its safety properties are proved for any number.  Two claims per call
  (`MaxAttempt`) are needed to repeat an effect and to meet an older worker's late
  record; two sessions and two argument objects for every identity conflict.
- Three tasks in a fork make two processes hold overlapping ready lists while a
  dependency is retried; two calls of one task separate "one approved" from "all
  approved"; `max_attempts` is the code's default 2; one abort strands one task, a
  second adds another independent one.
- Lists of no, one and two artifacts put a failure before, between and after them; the first
  task may hand over an own id as its second artifact, so that a retry collides with its own
  row behind a drawn one, and the other two share an id, so that one collides with the other's.
- Three attempts of a task in `harness`: one pauses for the approval, one fails, one
  succeeds; two would make every failure after a pause final.  Two calls in a turn put a
  pause between two calls of one step; four claims of a row are more than three attempts
  use, so that `MaxClaims` cuts nothing.
- Two steps of an agent are enough for a tool and a deliverable, for two different tools
  in one step after a lost decision, and to run out of steps.  `invoked` counts to two,
  as the properties only tell zero, one and more.  Two crashes of the graph: one to sample
  a call again, one more after its interrupt has flushed a checkpoint.
- The budgets and lengths of `context_pack` make 39 and 40 tokens remain, a layer fit
  exactly or by one token not, required layers exceed the budget, and a text have 500 and
  501 characters.
- Three tasks contain a cycle with a task before and after it, and every tie of two.

### Fairness

`Harness!FairSpec`: a called `run()` goes on, its models and tools answer or raise, and the
operator calls `run()` again and again, the documented way to resume (`WF` of `Run` or
`Proceed`, per process); the reviewer answers (`WF` of some `Decide`).  No fairness on a
success of a model, a tool or a record, which compete with their failures: only the bound
on attempts ends them.  None on leases: a row under a live lease may answer busy until its
task has used up its attempts.  `Orchestrator!FairSpec` assumes the same of the same steps,
with the agent seen from outside.
`WorkflowGraph!FairSpec`: an invocation goes on; nobody has to invoke or to answer.
`Checkpoint` has no fairness.

`EventuallyAtRest` says what repeated calls achieve, with its exceptions spelt out: a task
gets an outcome, or a dead process left it running (F3), or its rejection was decided
before it waited (F4), or a dependency never succeeds.

## 4. Findings

Each is a run that TLC finds violated by what the code does.

- **F1** `RefusalMarksUncertain` (`tools.py` 219-226).  The UPDATE that marks an orphaned
  non-idempotent call uncertain is rolled back by the exception raised after it, so the
  ledger goes on saying `running`.  `docs/architecture.md` 44 promises uncertain.  The
  call is not repeated: `AtMostOnce` holds.
- **F2** `SuccessIsReplayed` (`tools.py` 253-277).  Outcomes are recorded by call id
  alone.  A worker past its lease overwrites a newer success with a failure, and the next
  `execute` runs an idempotent tool again instead of replaying (`docs/architecture.md`
  42).  The same transaction clears the lease of the other worker.  Non-idempotent calls
  are spared (`SettledForGood`): they are never claimed twice.
- **F3** `EventuallySettled` under a crash (`orchestrator.py` 24-52).  A task left
  `running` by a dead process is never picked up, although `run()` is documented to
  resume (`orchestrator.py` 12, `README.md` 42).
- **F4** `RejectionFails` (`store.py` 421-433).  A rejection that comes between the
  insertion of the approval and `wait_task_for_approval` finds no waiting task; the task
  then waits for ever.  An approval in the same window is recovered by
  `resume_approved_tasks`, which `EventuallyAtRest` of `harness` covers.
- **F5** `Orchestrator!FailureHasCause` (`orchestrator.py` 54-67).  `_settle` reads the
  tasks after the ready query.  An approval in between leaves a pending, ready task, and
  the workflow is written `failed`.
- **F6** `WorkflowGraph!FailureHasCause` (`langgraph_runtime.py` 447-481).  `schedule`
  commits `start_task` before its checkpoint.  Run again after a crash it finds nothing
  ready and fails a healthy workflow.

Observations without a run.  With two threads on one workflow, `approval_node` (247)
writes `waiting_approval` over whatever the other thread made of the task, success
included; and a reviewer who rejects between lines 233 and 247 of an answered approval
sees the task go from failed back to waiting until the next invocation.  Both come from
`wait_task_for_approval` not looking at the status it overwrites.  The output of a graph's
task contains `compression_applied`, which is computed again after a crash: if it differs,
`finish_task` of an already succeeded task raises on the same saved decision; the two
values of `Outputs` in `graph_safety` include it.  In the LangGraph runtime the raw size
counts a token for an empty layer, so a prompt that `pack` would keep whole may be called
compressed although nothing was cut.

## 5. What is proved

The proofs assume only the named assumptions on the constants (`GatewayAssumption`,
`StoreAssumption`, `OrchestratorAssumption`, `HarnessAssumption`, `GraphAssumption`,
`PlanAssumption`, `ContextAssumption`): any numbers of workers, calls, sessions, arguments,
tasks, tools, processes, steps, crashes and outputs, any policy, any dependency relation,
any plan over a finite set of ids, any budget and lengths.  One module adds a hypothesis to
its theorems, in their statements: `SingleThreadProofs`.

**Gateway** (`ToolGatewayProofs`).  `TypeCorrect`, `NeverTwice` (AtMostOnce),
`ApprovalFirst` (ApprovedBeforeEffect), `CallIdentity` (OneIdentity), `AnswersAreReal`
(AnsweredMeansEffect), `RowIsFinal` (SettledForGood), `LedgerAhead` (WriteAhead).  None of
them is inductive alone.
The invariant `IInv` adds what the code relies on without saying so: a non-idempotent
call has one executor at most, whose attempt is the row's; a row whose call acted is not
fresh, and a fresh or failed row of a non-idempotent call has no effect behind it; a
worker past authorization holds an approved request, because an approval never changes
once decided and its arguments never do; a succeeded row has an effect behind it.
`NextInvariant` proves it action by action.  `WriteAhead` counts, so it needs more
(`PaidFor`): the effects of a call and the workers between their claim and their effect
never exceed, together, the attempts of its row.

**Refinement** (`GatewayRefinementProofs`).  `Refinement`: `Spec => FulfilsContract`.  The
mapping needs one more invariant, `InPace`: a gated call has its approval and its row
together, with the same arguments, and is claimed only once agreed to.  With it every
action of ToolGateway is a step of CallContract on one risky call, or leaves what the
mapping shows of it unchanged; one lemma per action says which.

**Orchestrator** (`OrchestratorProofs`).  `TypeCorrect`, `ExclusiveExecution`
(SingleExecutor), `OutcomesAreFinal`, `DependenciesHold`, `SuccessIsReal`
(SuccessIsComplete), `ApprovalsHold` (ApprovedBeforeSuccess).  The chain: a running row is
left only by its executor, so two executors are impossible; hence nobody overwrites an
outcome; hence a dependency that had succeeded when a ready list was read still has when
the task is started, and a success that `_settle` read is still one when it is published;
and an agent past step `n` of its script has its first `n` calls approved, for good.
Three invariants on top of exclusive execution:

- `Paused` and `Budget`, for `AttemptsAreBounded` (AttemptsBounded) and `WakingIsApproved`
  (WakesOnlyApproved).  A task has one open call at most, and while it has one nobody works
  on it but an executor about to put it to wait; a task at rest that nothing holds back has
  an attempt left (`AttemptLeft`).  The bound alone is not inductive: `start_task` increments
  without looking, and relies on whoever put the task to rest.
- `StrandedInv`, for `StrandedOnlyByAbort` (StrandedByAbort): each abort leaves one row
  behind at most, as a process executes one task at a time.
- `ArtifactInv`, for `ArtifactsAreAccounted` (ArtifactsAccounted): an executor has added
  exactly the first `stored` artifacts of the list in its hands (`Owed`, `ArtifactDue`), none
  before its agent returned and all before it finishes the task.  An attempt that is over has
  left a prefix, which nobody adds to, as a later executor has a later attempt
  (`AddingKeeps`, `AccountsKept`).

**Harness** (`HarnessProofs`).  `TypeCorrect`, `LedgerIsTold` (LedgerMatchesTurns),
`OutputsAreBackedUp` (SuccessIsBackedUp), `SuccessReplays` (SuccessIsReplayed), from
`ExclusiveExecution`, proved again here because the steps are those of the agent's loop.
It is what the loop rests on: what a process has read of the turns and ledger rows of
its task stays true while it works, although every transaction of `run()` reads and writes
the tables alone.  So the turn in hand is the saved one, a call enters the ledger only
under the saved turn of its step (`Told`), an agent past a step has every call of it in a
succeeded row (`OnTrack`), and so has the output it returns (`BackedUp`).  `SuccessReplays`
is the same fact seen from the ledger: the gateway alone lets a late record of another worker
undo a success (F2), as outcomes are recorded by call id alone; with one executor per task
a row stays running until the process that claimed it has recorded, and no
other record is on its way.
What the gateway promises of any callers is proved again of the agents of the harness, since
a theorem of an instance cannot be cited and exclusive execution makes it simpler:
`OnceInTheWhole`, `ApprovedInTheWhole`, `ClaimedInTheWhole` (a non-idempotent call acts
once at most, a gated one only if approved, each effect after a claim of its own).  Their
invariant `Kept` says that a non-idempotent call is claimed once, and that the process about
to act is the only one and has its claim still to use.

**WorkflowGraph** (`WorkflowGraphProofs`).  `TypeCorrect`, `StartedOnce` (RiskyCallOnce),
`ApprovedFirst` (ApprovedBeforeTool), for any number of threads on one workflow, although
the task table is only right for one.  The invariant has two parts beside the types of the tables.  `CallsOK`: the
ledger row of a non-idempotent call tells whether it was started, and a gated call that was
started is approved.  `ThreadsOK`: the state in memory and the one in the checkpoint both
satisfy `StateOK`, whose point is that a state that stands before `execute_tool` carries an
approved call; it therefore holds of whatever a crash goes back to.  `Lasting`, which
every step keeps, says that approvals and starts are never taken back, so that an old
checkpoint stays true in a newer store.

**One thread** (`SingleThreadProofs`).  `StepIsOneCall` (OneCallPerStep), `SuccessIsHonest`
(SuccessIsComplete), `MemoriesMatch` (MemoryMatchesOutcome), `SuccessStays`
(SuccessIsFinal), `DeliveriesAgree` (DeliveriesMatchStore), each under the hypothesis
`OneThread`: no two threads run the workflow.  The command line satisfies it as
long as one process at a time resumes a workflow, as its thread id is the workflow's
(`cli.py` 62, 87).  The hypothesis is needed: with two threads on one
task TLC finds each of the five violated without any crash, as two processes sample
different decisions for a step, and `approval_node` overwrites what the other made of the
task.  Crashes, and checkpoints as late as they like, are all there.  The argument: the saved decisions of a
task fix the way of its agent, whatever checkpoint it resumes from.

- `OneInv`.  A step is `Passed` when its decision was invalid or its call went through; a
  task is `Completed` when passed steps lead to a deliverable, `Doomed` when they lead out
  of steps or to a rejected call, and never both (`OneEnd`).  A succeeded task is completed,
  a failed one doomed, and the state in memory and the one in the checkpoint both stand on
  passed steps (`StepOK`).
- `Grows`.  Saved decisions, succeeded ledger rows and verdicts are never taken back, so a
  checkpoint that was true stays true, and a node that runs again can only repeat what it
  wrote.
- `DeliveryInv`.  The deliveries a checkpoint holds agree with the task rows, and it
  answers for no more of them than the thread does: no node that runs again from it writes
  the row of a task it has delivered (`Owns`).

**PlanValidation** (`PlanValidationProofs`).  `TypeCorrect`, `AcceptsSoundPlans`
(AcceptsExactlySoundPlans), `LeastOrder` (OrderIsLeastTopological).  The count of a task is
the number of places of its `depends_on` that name a task not ordered yet (`Waiting`), so a
dependency listed twice is counted and discounted twice; the queue is the set of unordered
tasks of count zero; and no set of tasks that wait for each other meets what is ordered
(`CyclesStayOut`).  The order has as many entries as tasks it names, so the comparison of
lengths that ends `validate_plan` is a comparison of sets.

**ContextPack** (`ContextPackProofs`).  `TypeCorrect`, `BudgetKept` (OverrunIsRequired),
`NothingIsLost` (LayersAccountedFor), `WholeIfItFits` (WholeWithinBudget), for any budget,
lengths and summarizer: until the budget is exceeded by required layers every cut is within
`Room`, whose estimate (`CutFits`) is at most what remains, and afterwards nothing remains.
The estimate is the sum over the layers taken so far (`Estimated`); partial sums only grow, so
when the whole fits, each layer does at its turn.  There are six layers and `Total` writes
their sum out, so that no proof has to induct over data.

**Only model-checked.**  Liveness: `RunReturns`, `EventuallyAtRest` and
`InvocationReturns`, since fairness is stated with ENABLED, which the prover does not treat.
Every other property of a passing run, the refinement included, is stated by a theorem.  The
runs that find a violation are counterexamples and have nothing to prove.

## 6. Not modelled

- Tool registry, JSON-Schema validation of arguments: refused before any state is
  touched.  The gateway's caller is assumed to hash the tool's name into the call id, as
  both callers do, so a call id has one risk.
- SQLite's own locking: a transaction is atomic.  One that the database refuses inside the
  `try` of `run()` is an exception like any other and is retried (`Orchestrator!AgentRaises`,
  `Harness!AttemptFails`); one outside it leaves `run()` (`Abort`).
- The event log (append-only, read for context and `show` only), summaries
  (`save_summary` has no caller), text columns and timestamps.
- `build_layers`: it reads the store and formats; `ContextPack` starts from any layers.
- Model adapters, MCP, parsing and printing of the CLI, demo: I/O and wiring.
  `ScriptedModel` and `DemoAgent` are instances of the nondeterministic agents of the models.
- The task status `blocked` is in the enumeration; no code assigns it.

## 7. Plan

Done: every module of section 2 and its runs; a theorem for every safety property and
action property of the passing runs, and for the refinement; the gateway's promises for
the whole harness.

Next, all of it proofs: the orchestrator's promises inside the composition
(`OutcomeIsFinal`, `DependenciesFirst`, `SuccessIsComplete` of `Orch`), with the agent's loop
in place of the scripted agent they are proved of now.
