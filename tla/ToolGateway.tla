---------------------------- MODULE ToolGateway ----------------------------
(***************************************************************************)
(* ToolGateway (tools.py): the ledger row of every tool call, the approval *)
(* that gates a risky one, and the workers that run execute() and          *)
(* authorization_status() against them.  One action is one SQLite          *)
(* transaction, together with the local steps around it; between two       *)
(* actions of a worker any other worker, the reviewer, the clock or a      *)
(* crash may act.                                                          *)
(*                                                                         *)
(* Abstractions.  An argument object is a member of Args and stands for    *)
(* its fingerprint; lease_until is what a claim can see of it ("none" for  *)
(* NULL, "live", "expired"); result_json is the number of the attempt that *)
(* produced it (0 for NULL).  A call id always names one tool, because the *)
(* callers hash the tool's name into it, so the risk belongs to the id.    *)
(* Requests refused by the registry or by the JSON schema touch no state   *)
(* and are left out, and so is the append-only event log.                  *)
(***************************************************************************)
EXTENDS Naturals, Domain

CONSTANTS
  Workers,          \* processes or threads that share the database
  Calls,            \* call ids
  Sessions,         \* session ids of the callers
  Args,             \* argument objects, up to their fingerprint
  RiskOf,           \* the risk of the tool a call id names
  RequireApproval,  \* risks that need an approval
  MaxAttempt,       \* BOUND: claims of one row
  None              \* no session, no arguments

\* What a caller asks of execute().
Request == [call: Calls, session: Sessions, args: Args]

ASSUME GatewayAssumption ==
  /\ RiskOf \in [Calls -> RiskLevel]
  /\ RequireApproval \subseteq RiskLevel
  /\ MaxAttempt \in Nat
  /\ None \notin Sessions \cup Args \cup Request

VARIABLES
  calls,      \* table tool_calls
  approvals,  \* table approvals, keyed by call id (UNIQUE)
  worker,     \* where each worker stands in execute()
  effects     \* history: times each call acted on the outside world, per argument

vars == <<calls, approvals, worker, effects>>

Gated(c) == RiskOf[c] \in RequireApproval

NonIdempotent(c) == RiskOf[c] = "non_idempotent_write"

Row == [status: ToolCallStatus \cup {"absent"}, session: Sessions \cup {None},
        args: Args \cup {None}, attempt: Nat, lease: {"none", "live", "expired"},
        result: Nat]

Approval == [status: ApprovalStatus \cup {"absent"}, args: Args \cup {None}]

Outcome == {"none", "ok", "approval_required", "conflict", "rejected", "busy",
            "unsafe", "error", "lost"}

Worker == [pc: {"idle", "claim", "handler", "effected"}, req: Request \cup {None},
           attempt: Nat, out: Outcome]

NoRow == [status |-> "absent", session |-> None, args |-> None, attempt |-> 0,
          lease |-> "none", result |-> 0]

Init ==
  /\ calls = [c \in Calls |-> NoRow]
  /\ approvals = [c \in Calls |-> [status |-> "absent", args |-> None]]
  /\ worker = [w \in Workers |-> [pc |-> "idle", req |-> None, attempt |-> 0, out |-> "none"]]
  /\ effects = [c \in Calls |-> [a \in Args |-> 0]]

-----------------------------------------------------------------------------
(* Authorization *)

\* Mutant: an approval that nobody decided yet counts as granted.
AuthVerdictPendingGranted(r) ==
  LET approval == approvals[r.call]
  IN  IF ~Gated(r.call) THEN "granted"
      ELSE IF approval.status = "rejected" THEN "rejected"
      ELSE IF approval.status # "absent" /\ approval.args = r.args THEN "granted"
      ELSE "approval_required"

\* What _authorize_or_request decides for request r.
AuthVerdict(r) ==
  LET row == calls[r.call]
      approval == approvals[r.call]
  IN  IF ~Gated(r.call) THEN "granted"
      ELSE IF row.status # "absent" /\ row.args # r.args THEN "conflict"
      ELSE IF approval.status # "absent" /\ approval.args # r.args THEN "conflict"
      ELSE IF approval.status = "approved" THEN "granted"
      ELSE IF approval.status = "rejected" THEN "rejected"
      ELSE "approval_required"

\* The rows _authorize_or_request inserts when the approval is still missing.
RequestApproval(r) ==
  IF AuthVerdict(r) = "approval_required" /\ approvals[r.call].status = "absent"
  THEN /\ approvals' = [approvals EXCEPT ![r.call] = [status |-> "pending", args |-> r.args]]
       /\ calls' = [calls EXCEPT ![r.call] =
                      IF @.status = "absent"
                      THEN [NoRow EXCEPT !.status = "waiting_approval",
                                         !.session = r.session, !.args = r.args]
                      ELSE @]
  ELSE UNCHANGED <<approvals, calls>>

Return(w, outcome) ==
  worker' = [worker EXCEPT ![w].pc = "idle", ![w].attempt = 0, ![w].out = outcome]

\* execute() up to its claim: authorization comes before anything else.
Execute(w, r) ==
  /\ worker[w].pc = "idle"
  /\ RequestApproval(r)
  /\ worker' = [worker EXCEPT ![w] =
                  IF AuthVerdict(r) = "granted"
                  THEN [pc |-> "claim", req |-> r, attempt |-> 0, out |-> "none"]
                  ELSE [pc |-> "idle", req |-> r, attempt |-> 0, out |-> AuthVerdict(r)]]
  /\ UNCHANGED effects

\* authorization_status(): the same transaction; nothing is executed, and what it
\* answers is for the caller.
AuthorizationStatus(w, r) ==
  /\ worker[w].pc = "idle"
  /\ RequestApproval(r)
  /\ UNCHANGED <<worker, effects>>

-----------------------------------------------------------------------------
(* Claim *)

\* Mutant: the orphan of a crash is recognised, an uncertain row is not.
ClaimVerdictForgetsUncertain(r) ==
  LET row == calls[r.call]
  IN  IF row.status = "absent" THEN "execute"
      ELSE IF row.session # r.session \/ row.args # r.args THEN "conflict"
      ELSE IF row.status = "succeeded" THEN "replay"
      ELSE IF row.status = "running" /\ row.lease = "live" THEN "busy"
      ELSE IF row.status = "running" /\ NonIdempotent(r.call) THEN "unsafe"
      ELSE "execute"

\* Mutant: the call id alone identifies a call.
ClaimVerdictByIdOnly(r) ==
  LET row == calls[r.call]
  IN  IF row.status = "succeeded" THEN "replay"
      ELSE IF row.status = "running" /\ row.lease = "live" THEN "busy"
      ELSE IF row.status \in {"running", "uncertain"} /\ NonIdempotent(r.call) THEN "unsafe"
      ELSE "execute"

\* Mutant: any finished call is replayed, a failed one too.
ClaimVerdictReplaysFailure(r) ==
  LET row == calls[r.call]
  IN  IF row.status = "absent" THEN "execute"
      ELSE IF row.session # r.session \/ row.args # r.args THEN "conflict"
      ELSE IF row.status \in {"succeeded", "failed"} THEN "replay"
      ELSE IF row.status = "running" /\ row.lease = "live" THEN "busy"
      ELSE IF row.status \in {"running", "uncertain"} /\ NonIdempotent(r.call) THEN "unsafe"
      ELSE "execute"

\* What _claim decides for request r on its row.  time.time() is read before
\* the transaction begins; a lease that runs out in between is one that runs
\* out just after it.
ClaimVerdict(r) ==
  LET row == calls[r.call]
  IN  IF row.status = "absent" THEN "execute"
      ELSE IF row.session # r.session \/ row.args # r.args THEN "conflict"
      ELSE IF row.status = "succeeded" THEN "replay"
      ELSE IF row.status = "running" /\ row.lease = "live" THEN "busy"
      ELSE IF row.status \in {"running", "uncertain"} /\ NonIdempotent(r.call) THEN "unsafe"
      ELSE "execute"

\* Mutant: a claim of an old row starts counting again.
NextAttemptRestarts(row) == 1

\* The attempt a claim of this row starts; an inserted row starts at 1.
NextAttempt(row) == row.attempt + 1

\* The row a won claim leaves, inserted or updated, under a fresh lease.
Claimed(r) ==
  LET row == calls[r.call]
  IN  [status |-> "running", session |-> r.session, args |-> r.args,
       attempt |-> NextAttempt(row), lease |-> "live", result |-> row.result]

ClaimWon(w) ==
  LET r == worker[w].req
  IN  /\ worker[w].pc = "claim"
      /\ ClaimVerdict(r) = "execute"
      /\ calls[r.call].attempt < MaxAttempt
      /\ calls' = [calls EXCEPT ![r.call] = Claimed(r)]
      /\ worker' = [worker EXCEPT ![w].pc = "handler", ![w].attempt = Claimed(r).attempt]
      /\ UNCHANGED <<approvals, effects>>

\* The claim is refused or the result replayed.  The exception of a refusal
\* leaves the transaction block, which rolls back: the UPDATE that should mark
\* an orphaned non-idempotent call uncertain is undone with it.
ClaimLost(w) ==
  LET verdict == ClaimVerdict(worker[w].req)
  IN  /\ worker[w].pc = "claim"
      /\ verdict # "execute"
      /\ Return(w, IF verdict = "replay" THEN "ok" ELSE verdict)
      /\ UNCHANGED <<calls, approvals, effects>>

-----------------------------------------------------------------------------
(* The handler or the MCP call, and the record of its outcome *)

\* The tool acts on the outside world.
HandlerEffect(w) ==
  LET r == worker[w].req
  IN  /\ worker[w].pc = "handler"
      /\ effects' = [effects EXCEPT ![r.call][r.args] = @ + 1]
      /\ worker' = [worker EXCEPT ![w].pc = "effected"]
      /\ UNCHANGED <<calls, approvals>>

\* Mutant: the record leaves the lease of the claim in place.
RecordedKeepsLease(row, status, result) == [row EXCEPT !.status = status, !.result = result]

\* The row a record transaction leaves: neither the status nor the owner of
\* the lease is looked at before it is overwritten.
Recorded(row, status, result) ==
  [row EXCEPT !.status = status, !.result = result, !.lease = "none"]

\* The handler returned: _record_success.
RecordSuccess(w) ==
  LET c == worker[w].req.call
  IN  /\ worker[w].pc = "effected"
      /\ calls' = [calls EXCEPT ![c] = Recorded(@, "succeeded", worker[w].attempt)]
      /\ Return(w, "ok")
      /\ UNCHANGED <<approvals, effects>>

\* Mutant: a handler that raised did not act.
FailureStatusTrusting(c) == "failed"

\* An exception does not prove that nothing happened.
FailureStatus(c) == IF NonIdempotent(c) THEN "uncertain" ELSE "failed"

\* The handler raised, before or after it acted: _record_failure.
RecordFailure(w) ==
  LET c == worker[w].req.call
  IN  /\ worker[w].pc \in {"handler", "effected"}
      /\ calls' = [calls EXCEPT ![c] = Recorded(@, FailureStatus(c), @.result)]
      /\ Return(w, "error")
      /\ UNCHANGED <<approvals, effects>>

\* The process dies, or its record transaction fails (a result that cannot be
\* serialised, a database that stays locked): nothing is written.
Abandon(w) ==
  /\ worker[w].pc # "idle"
  /\ Return(w, "lost")
  /\ UNCHANGED <<calls, approvals, effects>>

-----------------------------------------------------------------------------
(* The reviewer and the clock *)

\* decide_approval, as far as the gateway sees it.
Decide(c, verdict) ==
  /\ approvals[c].status = "pending"
  /\ approvals' = [approvals EXCEPT ![c].status = verdict]
  /\ UNCHANGED <<calls, worker, effects>>

\* lease_seconds pass; nothing renews a lease while a handler runs.
LeaseExpires(c) ==
  /\ calls[c].lease = "live"
  /\ calls' = [calls EXCEPT ![c].lease = "expired"]
  /\ UNCHANGED <<approvals, worker, effects>>

WorkerStep(w) ==
  \/ \E r \in Request : Execute(w, r) \/ AuthorizationStatus(w, r)
  \/ ClaimWon(w)
  \/ ClaimLost(w)
  \/ HandlerEffect(w)
  \/ RecordSuccess(w)
  \/ RecordFailure(w)
  \/ Abandon(w)

Next ==
  \/ \E w \in Workers : WorkerStep(w)
  \/ \E c \in Calls : \E verdict \in {"approved", "rejected"} : Decide(c, verdict)
  \/ \E c \in Calls : LeaseExpires(c)

Spec == Init /\ [][Next]_vars

-----------------------------------------------------------------------------
(* Properties *)

\* Worker w is between its claim of call c and the record of the outcome.
Executes(w, c) == worker[w].pc \in {"handler", "effected"} /\ worker[w].req.call = c

Approved(c, a) == approvals[c].status = "approved" /\ approvals[c].args = a

\* A row carries a lease exactly while it is "running".
LedgerType ==
  /\ calls \in [Calls -> Row]
  /\ \A c \in Calls : calls[c].lease # "none" <=> calls[c].status = "running"

\* A worker has a request as soon as it has called anything.
WorkerType ==
  /\ worker \in [Workers -> Worker]
  /\ \A w \in Workers : worker[w].req = None => worker[w].pc = "idle" /\ worker[w].out = "none"

\* Every variable has its type; every record transaction of a running row
\* clears its lease.
TypeOK ==
  /\ LedgerType
  /\ WorkerType
  /\ approvals \in [Calls -> Approval]
  /\ effects \in [Calls -> [Args -> Nat]]

\* A non-idempotent call acts at most once on the outside world, whatever
\* workers, crashes, expired leases and retries of execute() do.
AtMostOnce ==
  \A c \in Calls : NonIdempotent(c) =>
    \A a, b \in Args : effects[c][a] > 0 /\ effects[c][b] > 0 => a = b /\ effects[c][a] = 1

\* A gated call has acted, or is about to, only with the very arguments a
\* reviewer approved: no request, retry or second caller slips past the
\* approval or changes the arguments after it.
ApprovedBeforeEffect ==
  \A c \in Calls : Gated(c) =>
    /\ \A a \in Args : effects[c][a] > 0 => Approved(c, a)
    /\ \A w \in Workers : Executes(w, c) => Approved(c, worker[w].req.args)

\* A call id stands for one session and one argument object: whatever acted
\* under it, and whoever executes it now, has the identity of its row.
OneIdentity ==
  \A c \in Calls :
    /\ \A a \in Args : effects[c][a] > 0 => a = calls[c].args
    /\ \A w \in Workers : Executes(w, c) =>
         worker[w].req.session = calls[c].session /\ worker[w].req.args = calls[c].args

\* The ledger is ahead of the world: each time a call acted, a claim of its
\* row had been committed for it before.
WriteAhead ==
  \A c \in Calls : \A a \in Args : effects[c][a] <= calls[c].attempt

\* A caller that execute() answered, by running the call or by replaying it,
\* holds the result of a call that did act with its arguments.
AnsweredMeansEffect ==
  \A w \in Workers : worker[w].pc = "idle" /\ worker[w].out = "ok" =>
    effects[worker[w].req.call][worker[w].req.args] > 0

\* Once a non-idempotent call has succeeded or become uncertain its row never
\* changes again: no late record of another worker, no later claim touches it.
SettledForGood ==
  [][\A c \in Calls :
       NonIdempotent(c) /\ calls[c].status \in {"succeeded", "uncertain"} =>
         calls'[c] = calls[c]]_vars

-----------------------------------------------------------------------------
(* The contract the gateway implements *)

Risky == {c \in Calls : NonIdempotent(c)}

\* What a row that was claimed tells of its call, and what the approval tells before.
RowPhase == [running |-> "started", succeeded |-> "done", uncertain |-> "doubtful"]
ApprovalPhase ==
  [absent |-> "new", pending |-> "proposed", approved |-> "agreed", rejected |-> "refused"]

\* How far a risky call is.
Phase(c) ==
  IF calls[c].status \in DOMAIN RowPhase
  THEN RowPhase[calls[c].status]
  ELSE ApprovalPhase[approvals[c].status]

Contract == INSTANCE CallContract WITH
  Calls <- Risky, NeedsApproval <- {c \in Risky : Gated(c)},
  phase <- [c \in Risky |-> Phase(c)],
  terms <- [c \in Risky |-> calls[c].args],
  acts <- [c \in Risky |-> effects[c]]

\* Workers that race, fail, die, retry and come back late never make a call that must
\* not be repeated do more, or anything in another order, than its contract says.
FulfilsContract == Contract!Spec

-----------------------------------------------------------------------------
(* What the documents say and the code does not do *)

\* docs/architecture.md:44: a crash during a non-idempotent write makes the
\* call uncertain.  Whoever is refused the retry of such a call leaves, or
\* finds, its row uncertain.
RefusalMarksUncertain ==
  [][\A w \in Workers :
       worker'[w].out = "unsafe" /\ worker[w].pc = "claim" =>
         calls'[worker[w].req.call].status = "uncertain"]_vars

\* docs/architecture.md:42: after success is persisted, repeated calls replay
\* the saved result, so a succeeded row stays as it is.
SuccessIsReplayed ==
  [][\A c \in Calls : calls[c].status = "succeeded" => calls'[c] = calls[c]]_vars
=============================================================================
