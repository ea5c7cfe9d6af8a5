------------------------------ MODULE Harness ------------------------------
(***************************************************************************)
(* The harness put together: the processes of Orchestrator run             *)
(* ToolCallingAgent.run (agents.py) for each task they start, and the tool *)
(* calls of its loop go through the ledger of ToolGateway.  Orchestrator   *)
(* and ToolGateway are instantiated: their actions and verdicts are used   *)
(* as they are, and Orchestrator's scripted agent is replaced by the loop. *)
(*                                                                         *)
(* Abstractions.  A model turn is the tools it calls, or the text it ends  *)
(* with.  A call id is what _stable_call_id hashes; the hash covers the    *)
(* arguments too and a workflow has one session, so an id has one of each. *)
(* The prompt is not modelled: the model may answer anything.              *)
(***************************************************************************)
EXTENDS TaskStore, FiniteSets

CONSTANTS
  Workers, Verdicts, MaxAborts,  \* of Orchestrator
  Tools,            \* tools of the registry
  RiskOf,           \* risk of each tool
  RequireApproval,  \* risks that need an approval
  MaxClaims,        \* BOUND: claims of one ledger row
  MaxSteps,         \* max_steps of an agent
  Texts,            \* final answers of a model
  Turns             \* turns the model of each task may take at each step

Turn == [calls: Seq(Tools), text: Texts \cup {None}]

Steps == 0..(MaxSteps - 1)

AnyTurn == UNION {Turns[t][n] : t \in Tasks, n \in Steps}

\* _stable_call_id
CallId(t, step, turn, index) == [task |-> t, step |-> step, index |-> index, tool |-> turn.calls[index]]

ASSUME HarnessAssumption ==
  /\ RiskOf \in [Tools -> RiskLevel]
  /\ MaxSteps \in Nat
  /\ None \notin Texts \cup Turn
  /\ Verdicts \subseteq {"approved", "rejected"}
  /\ MaxAborts \in Nat
  /\ \A t \in Tasks, step \in Steps : \A turn \in Turns[t][step] :
       /\ turn \in Turn
       /\ turn.calls = <<>> <=> turn.text # None
       /\ \A i \in 1..Len(turn.calls) : CallId(t, step, turn, i) \in Calls
  /\ \A c \in Calls : TaskOf[c] = c.task
  /\ Outputs = [text: Texts, steps: 1..MaxSteps]
  /\ Artifacts = [t \in Tasks |-> {<<>>}]

VARIABLES
  worker, aborts,  \* of Orchestrator
  calls,           \* table tool_calls
  effects,         \* history: times each call acted on the outside world
  turns,           \* table agent_steps
  loop             \* where each process stands in ToolCallingAgent.run

orchestratorVars == <<storeVars, worker, aborts>>
loopVars == <<calls, effects, turns, loop>>
vars == <<orchestratorVars, loopVars>>

Orch == INSTANCE Orchestrator WITH Script <- [t \in Tasks |-> <<>>]

Gateway == INSTANCE ToolGateway WITH
  Sessions <- {"session"}, Args <- {"arguments"}, MaxAttempt <- MaxClaims,
  RiskOf <- [c \in Calls |-> RiskOf[c.tool]],
  approvals <- [c \in Calls |-> [status |-> approvals[c],
                                 args |-> IF approvals[c] = "absent" THEN None ELSE "arguments"]]

Loop == [pc: {"ask", "save", "call", "claim", "handler", "effected"},
         step: 0..MaxSteps, index: Nat, turn: AnyTurn \cup {None},
         attempt: Nat]

Fresh == [pc |-> "ask", step |-> 0, index |-> 1, turn |-> None, attempt |-> 0]

Init ==
  /\ Orch!Init
  /\ calls = [c \in Calls |-> Gateway!NoRow]
  /\ effects = [c \in Calls |-> 0]
  /\ turns = [t \in Tasks |-> [n \in Steps |-> None]]
  /\ loop = [w \in Workers |-> Fresh]

-----------------------------------------------------------------------------
(* Leaving the loop, and going on with it *)

In(w, pc) == worker[w].pc = "agent" /\ loop[w].pc = pc

Becomes(w, l) == loop' = [loop EXCEPT ![w] = l] /\ UNCHANGED worker

\* run() of the agent ends with an exception; the caller looks at its class.
Raises(w, retryable) == Orch!Raise(w, retryable) /\ loop' = [loop EXCEPT ![w] = Fresh]

\* The loop after the result of a call was appended to the messages.
Advanced(l) ==
  IF l.index < Len(l.turn.calls) THEN [l EXCEPT !.pc = "call", !.index = @ + 1, !.attempt = 0]
  ELSE [Fresh EXCEPT !.step = l.step + 1]

-----------------------------------------------------------------------------
(* One step of the loop: the decision *)

\* Mutant: the decision is acted on before it is saved.
DecisionUnsaved(l, turn) == [l EXCEPT !.pc = "call", !.turn = turn]

\* The model answered.
Decision(l, turn) == [l EXCEPT !.pc = "save", !.turn = turn]

\* The saved decision of the step, or a fresh one, or no step left.
Ask(w) ==
  LET t == worker[w].task
      l == loop[w]
  IN  /\ In(w, "ask")
      /\ \/ l.step = MaxSteps /\ Raises(w, TRUE)
         \/ /\ l.step < MaxSteps
            /\ turns[t][l.step] # None
            /\ Becomes(w, [l EXCEPT !.pc = "call", !.turn = turns[t][l.step]])
         \/ /\ l.step < MaxSteps
            /\ turns[t][l.step] = None
            /\ \E turn \in Turns[t][l.step] : Becomes(w, Decision(l, turn))
      /\ UNCHANGED <<storeVars, aborts, calls, effects, turns>>

\* save_agent_step is INSERT OR IGNORE; the loop goes on with its own decision.
SaveStep(w) ==
  LET t == worker[w].task
      l == loop[w]
  IN  /\ In(w, "save")
      /\ turns' = [turns EXCEPT ![t][l.step] = IF @ = None THEN l.turn ELSE @]
      /\ Becomes(w, [l EXCEPT !.pc = "call"])
      /\ UNCHANGED <<storeVars, aborts, calls, effects>>

\* A turn without calls is the agent's result.
AgentReturns(w) ==
  LET l == loop[w]
  IN  /\ In(w, "call")
      /\ l.turn.calls = <<>>
      /\ worker' = [worker EXCEPT ![w].pc = "finish",
                                  ![w].output = [text |-> l.turn.text, steps |-> l.step + 1]]
      /\ loop' = [loop EXCEPT ![w] = Fresh]
      /\ UNCHANGED <<storeVars, aborts, calls, effects, turns>>

-----------------------------------------------------------------------------
(* One tool call: ToolGateway.execute, and what its answer does to the agent *)

CallOf(w) == CallId(worker[w].task, loop[w].step, loop[w].turn, loop[w].index)

RequestOf(w) == [call |-> CallOf(w), session |-> "session", args |-> "arguments"]

\* Authorization: granted, refused, or left to the reviewer.
Authorize(w) ==
  LET c == CallOf(w)
      verdict == Gateway!AuthVerdict(RequestOf(w))
  IN  /\ In(w, "call")
      /\ loop[w].turn.calls # <<>>
      /\ IF verdict = "approval_required" THEN RequestApproval(c) ELSE UNCHANGED approvals
      /\ Gateway!RequestApproval(RequestOf(w))
      /\ \/ verdict = "granted" /\ Becomes(w, [loop[w] EXCEPT !.pc = "claim"])
         \/ /\ verdict = "approval_required"
            /\ Orch!Goto(w, "wait")
            /\ loop' = [loop EXCEPT ![w] = Fresh]
         \/ verdict = "rejected" /\ Raises(w, FALSE)
      /\ UNCHANGED <<workflow, tasks, artifacts, aborts, effects, turns>>

\* The claim of the row is won, answered by a replay, or refused.
Claim(w) ==
  LET r == RequestOf(w)
      verdict == Gateway!ClaimVerdict(r)
  IN  /\ In(w, "claim")
      /\ \/ /\ verdict = "execute"
            /\ calls[r.call].attempt < MaxClaims
            /\ calls' = [calls EXCEPT ![r.call] = Gateway!Claimed(r)]
            /\ Becomes(w, [loop[w] EXCEPT !.pc = "handler", !.attempt = calls'[r.call].attempt])
         \/ verdict = "replay" /\ Becomes(w, Advanced(loop[w])) /\ UNCHANGED calls
         \/ verdict = "busy" /\ Raises(w, TRUE) /\ UNCHANGED calls
         \/ verdict = "unsafe" /\ Raises(w, FALSE) /\ UNCHANGED calls
      /\ UNCHANGED <<storeVars, aborts, effects, turns>>

HandlerEffect(w) ==
  /\ In(w, "handler")
  /\ effects' = [effects EXCEPT ![CallOf(w)] = @ + 1]
  /\ Becomes(w, [loop[w] EXCEPT !.pc = "effected"])
  /\ UNCHANGED <<storeVars, aborts, calls, turns>>

RecordSuccess(w) ==
  /\ In(w, "effected")
  /\ calls' = [calls EXCEPT ![CallOf(w)] = Gateway!Recorded(@, "succeeded", loop[w].attempt)]
  /\ Becomes(w, Advanced(loop[w]))
  /\ UNCHANGED <<storeVars, aborts, effects, turns>>

\* Mutant: the agent takes the error for an answer and goes on.
AfterFailureGoesOn(w) == Becomes(w, Advanced(loop[w]))

\* The exception of a handler reaches run(); a PermissionError of its own is taken
\* for a refusal.
AfterFailure(w) == \E retryable \in BOOLEAN : Raises(w, retryable)

\* The handler raised, before or after it acted.
RecordFailure(w) ==
  LET c == CallOf(w)
  IN  /\ loop[w].pc \in {"handler", "effected"}
      /\ calls' = [calls EXCEPT ![c] = Gateway!Recorded(@, Gateway!FailureStatus(c), @.result)]
      /\ AfterFailure(w)
      /\ UNCHANGED <<storeVars, aborts, effects, turns>>

\* An exception that leaves no trace in the tables: the model, the prompt or a saved
\* step cannot be had, a tool is unknown or its arguments are refused, a write of the
\* attempt is refused by the database (the record of a call among them: its row stays
\* running under its lease), the output cannot be stored.  The attempt is retried.
AttemptFails(w) ==
  /\ worker[w].pc \in {"agent", "finish"}
  /\ Raises(w, TRUE)
  /\ UNCHANGED <<storeVars, aborts, calls, effects, turns>>

LeaseExpires(c) ==
  /\ UNCHANGED <<storeVars, worker, aborts, effects, turns, loop>>
  /\ Gateway!LeaseExpires(c)

-----------------------------------------------------------------------------
(* The orchestrator around the loop *)

\* What a process does between two runs of an agent.
Schedules(w) ==
  /\ \/ Orch!MarkRunning(w)
     \/ Orch!QueryReady(w)
     \/ Orch!TryStart(w)
     \/ Orch!EndOfScan(w)
     \/ Orch!Finish(w)
     \/ Orch!Wait(w)
     \/ Orch!Fail(w)
     \/ Orch!Settle(w)
     \/ Orch!Publish(w)
  /\ UNCHANGED loopVars

Run(w) == Orch!Run(w) /\ UNCHANGED loopVars

Decide(c) == Orch!Decide(c) /\ UNCHANGED loopVars

Abort(w) ==
  /\ Orch!Abort(w)
  /\ loop' = [loop EXCEPT ![w] = Fresh]
  /\ UNCHANGED <<calls, effects, turns>>

Proceed(w) ==
  \/ Schedules(w)
  \/ Ask(w)
  \/ SaveStep(w)
  \/ AgentReturns(w)
  \/ Authorize(w)
  \/ Claim(w)
  \/ HandlerEffect(w)
  \/ RecordSuccess(w)
  \/ RecordFailure(w)
  \/ AttemptFails(w)

Next ==
  \/ \E w \in Workers : Run(w) \/ Proceed(w) \/ Abort(w)
  \/ \E c \in Calls : Decide(c) \/ LeaseExpires(c)

Spec == Init /\ [][Next]_vars

\* A run() that was called goes on (models and tools answer or raise), the operator
\* calls run() again and again, the reviewer answers.  Nothing is fair to leases.
FairSpec ==
  /\ Spec
  /\ \A w \in Workers : WF_vars(Run(w) \/ Proceed(w))
  /\ WF_vars(\E c \in Calls : Decide(c))

-----------------------------------------------------------------------------
(* Properties *)

\* Every variable has its type, and a process is inside the loop only while it runs
\* an agent.
TypeOK ==
  /\ Orch!TypeOK
  /\ Gateway!LedgerType
  /\ effects \in [Calls -> Nat]
  /\ turns \in [Tasks -> [Steps -> AnyTurn \cup {None}]]
  /\ loop \in [Workers -> Loop]
  /\ \A w \in Workers : worker[w].pc # "agent" => loop[w] = Fresh

\* The ledger and the saved decisions tell the same story: every row is a call that
\* the saved turn of its step makes.  No retry, resumption or second process has ever
\* acted on a decision other than the one recovery will read.
LedgerMatchesTurns ==
  \A c \in Calls : calls[c].status # "absent" =>
    LET turn == turns[c.task][c.step]
    IN  turn # None /\ c.index \in DOMAIN turn.calls /\ turn.calls[c.index] = c.tool

\* The output of a task that succeeded is the saved answer of its last step, and every
\* call of the steps before it went through: across pauses and retries an agent skips
\* nothing and answers nothing it would not answer again.
SuccessIsBackedUp ==
  \A t \in Succeeded :
    LET last == tasks[t].output.steps - 1
    IN  /\ turns[t][last] = [calls |-> <<>>, text |-> tasks[t].output.text]
        /\ \A n \in 0..(last - 1) : \A i \in DOMAIN turns[t][n].calls :
             calls[CallId(t, n, turns[t][n], i)].status = "succeeded"

\* After success is persisted a call stays replayable (docs/architecture.md:42): here,
\* where one process at most executes a task, no late record undoes it, although the
\* gateway alone does not prevent that.
SuccessIsReplayed ==
  [][\A c \in Calls : calls[c].status = "succeeded" =>
       calls'[c] = calls[c] /\ effects'[c] = effects[c]]_vars

\* Every run() returns: the loop of an agent ends, and so do its retries.
RunReturns == \A w \in Workers : worker[w].pc # "idle" ~> worker[w].pc = "idle"

\* Nothing can be done for task t now: it has an outcome, a dead process left it
\* running, its rejection was decided before it waited, or a dependency is missing.
AtRest(t) ==
  \/ tasks[t].status \in {"succeeded", "failed"}
  \/ tasks[t].status = "running" /\ \A w \in Workers : ~Orch!Executes(w, t)
  \/ tasks[t].status = "waiting_approval" /\ \E c \in CallsOf(t) : approvals[c] = "rejected"
  \/ tasks[t].status = "pending" /\ ~(Deps[t] \subseteq Succeeded)

\* run(), called again and again, brings every task to rest: a dead process and a
\* rejection before the wait are the only ways for a task to have no outcome.
EventuallyAtRest == <>[](\A t \in Tasks : AtRest(t))
=============================================================================
