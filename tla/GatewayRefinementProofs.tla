----------------------- MODULE GatewayRefinementProofs -----------------------
(***************************************************************************)
(* ToolGateway implements CallContract, for every set of workers, calls,   *)
(* sessions and argument objects, every risk table and approval policy.    *)
(***************************************************************************)
EXTENDS ToolGatewayProofs

\* The approval and the row of a risky call keep pace: a gated call has both or
\* neither, for the same arguments, and is claimed only once agreed to; a call
\* that is not gated never has an approval or waits for one.
InPace(c) ==
  /\ Gated(c) =>
       /\ approvals[c].status = "absent" <=> calls[c].status = "absent"
       /\ approvals[c].status # "absent" => approvals[c].args = calls[c].args
       /\ calls[c].attempt > 0 => approvals[c].status = "approved"
  /\ ~Gated(c) => approvals[c].status = "absent" /\ calls[c].status # "waiting_approval"

RInv == IInv /\ \A c \in Calls : InPace(c)

-----------------------------------------------------------------------------
(* The invariant *)

LEMMA InitInPace == Init => RInv
  BY InitInvariant DEF Init, RInv, InPace, NoRow

\* An authorization inserts the approval and the row together.
LEMMA AuthorizationInPace ==
  ASSUME RInv, NEW r \in Request, RequestApproval(r), NEW c \in Calls
  PROVE  InPace(c)'
  <1>1. InPace(c) /\ Untouched(c) /\ TypeOK /\ r.call \in Calls
    BY DEF RInv, IInv, Request
  <1>2. CASE UNCHANGED <<approvals, calls>>
    BY <1>1, <1>2 DEF InPace, Gated
  <1>3. CASE ~UNCHANGED <<approvals, calls>>
    <2>1. /\ AuthVerdict(r) = "approval_required" /\ approvals[r.call].status = "absent"
          /\ approvals' = [approvals EXCEPT ![r.call] = [status |-> "pending", args |-> r.args]]
          /\ calls' = [calls EXCEPT ![r.call] =
                          IF @.status = "absent"
                          THEN [NoRow EXCEPT !.status = "waiting_approval",
                                             !.session = r.session, !.args = r.args]
                          ELSE @]
      BY <1>3 DEF RequestApproval
    <2>2. Gated(r.call)
      BY <2>1 DEF AuthVerdict
    <2>3. CASE c # r.call
      BY <1>1, <2>1, <2>3 DEF InPace, Gated, TypeOK, LedgerType
    <2>4. CASE c = r.call
      <3>1. calls[c].status = "absent"
        BY <1>1, <2>1, <2>2, <2>4 DEF InPace
      <3>2. /\ approvals'[c].status = "pending" /\ approvals'[c].args = r.args
            /\ calls'[c].status = "waiting_approval" /\ calls'[c].args = r.args
            /\ calls'[c].attempt = 0
        BY <1>1, <2>1, <2>4, <3>1 DEF TypeOK, LedgerType, NoRow
      <3>3. QED
        BY <2>2, <2>4, <3>2 DEF InPace, Gated
    <2>5. QED
      BY <2>3, <2>4
  <1>4. QED
    BY <1>2, <1>3

\* A won claim of a gated call was agreed to with its arguments.
LEMMA ClaimInPace ==
  ASSUME RInv, NEW w \in Workers, ClaimWon(w), NEW c \in Calls
  PROVE  InPace(c)'
  <1> DEFINE r == worker[w].req
  <1>1. InPace(c) /\ TypeOK /\ ClaimAuthorized /\ r.call \in Calls
    BY DEF RInv, IInv, ClaimWon, TypeOK, WorkerType, Worker, Request
  <1>2. calls' = [calls EXCEPT ![r.call] = Claimed(r)] /\ UNCHANGED approvals
    BY DEF ClaimWon
  <1>3. CASE c # r.call
    BY <1>1, <1>2, <1>3 DEF InPace, Gated, TypeOK, LedgerType
  <1>4. CASE c = r.call
    <2>1. calls'[c].status = "running" /\ calls'[c].args = r.args
      BY <1>1, <1>2, <1>4 DEF Claimed, TypeOK, LedgerType
    <2>2. Gated(c) => approvals[c].status = "approved" /\ approvals[c].args = r.args
      BY <1>1, <1>4 DEF ClaimWon, ClaimAuthorized, Approved
    <2>3. QED
      BY <1>1, <1>2, <2>1, <2>2 DEF InPace, Gated
  <1>5. QED
    BY <1>3, <1>4

\* A record changes neither the arguments nor the count of attempts.
LEMMA RecordInPace ==
  ASSUME RInv, NEW d \in Calls, NEW status \in {"succeeded", "failed", "uncertain"}, NEW result,
         calls[d].attempt > 0, UNCHANGED approvals,
         calls' = [calls EXCEPT ![d] = Recorded(@, status, result)], NEW c \in Calls
  PROVE  InPace(c)'
  <1>1. InPace(c) /\ TypeOK /\ Untouched(c) /\ Untouched(d)
    BY DEF RInv, IInv
  <1>2. CASE c # d
    BY <1>1, <1>2 DEF InPace, Gated, TypeOK, LedgerType
  <1>3. CASE c = d
    <2>1. /\ calls'[c].status = status /\ calls'[c].args = calls[c].args
          /\ calls'[c].attempt = calls[c].attempt
      BY <1>1, <1>3 DEF Recorded, TypeOK, LedgerType, Row
    <2>2. QED
      BY <1>1, <1>3, <2>1 DEF InPace, Gated
  <1>4. QED
    BY <1>2, <1>3

LEMMA NextInPace == RInv /\ [Next]_vars => RInv'
  <1> SUFFICES ASSUME RInv, [Next]_vars, NEW c \in Calls PROVE InPace(c)'
    BY NextInvariant DEF RInv
  <1>0. InPace(c) /\ TypeOK /\ \A d \in Calls : Untouched(d)
    BY DEF RInv, IInv
  <1>1. ASSUME NEW w \in Workers, NEW r \in Request, Execute(w, r) \/ AuthorizationStatus(w, r)
        PROVE  InPace(c)'
    BY <1>1, AuthorizationInPace DEF Execute, AuthorizationStatus
  <1>2. ASSUME NEW w \in Workers, ClaimWon(w) PROVE InPace(c)'
    BY <1>2, ClaimInPace
  <1>3. ASSUME NEW w \in Workers, ClaimLost(w) \/ HandlerEffect(w) \/ Abandon(w) PROVE InPace(c)'
    BY <1>0, <1>3 DEF ClaimLost, HandlerEffect, Abandon, InPace, Gated
  <1>4. ASSUME NEW w \in Workers, worker[w].pc \in {"handler", "effected"}
        PROVE  worker[w].req.call \in Calls /\ calls[worker[w].req.call].attempt > 0
    <2>1. worker[w].req.call \in Calls
      BY <1>0, <1>4 DEF TypeOK, WorkerType, Worker, Request
    <2>2. calls[worker[w].req.call].attempt \in Nat
      BY <1>0, <2>1 DEF TypeOK, LedgerType, Row
    <2>3. Executes(w, worker[w].req.call)
      BY <1>4 DEF Executes
    <2>4. QED
      BY <1>0, <2>1, <2>2, <2>3 DEF Untouched
  <1>5. ASSUME NEW w \in Workers, RecordSuccess(w) PROVE InPace(c)'
    BY <1>4, <1>5, RecordInPace DEF RecordSuccess
  <1>6. ASSUME NEW w \in Workers, RecordFailure(w) PROVE InPace(c)'
    BY <1>4, <1>6, RecordInPace DEF RecordFailure, FailureStatus
  <1>7. ASSUME NEW d \in Calls, NEW verdict \in {"approved", "rejected"}, Decide(d, verdict)
        PROVE  InPace(c)'
    BY <1>0, <1>7 DEF Decide, InPace, Gated, TypeOK, Approval
  <1>8. ASSUME NEW d \in Calls, LeaseExpires(d) PROVE InPace(c)'
    BY <1>0, <1>8 DEF LeaseExpires, InPace, Gated, TypeOK, LedgerType, Row
  <1>9. CASE UNCHANGED vars
    BY <1>0, <1>9 DEF vars, InPace, Gated
  <1>10. QED
    BY <1>1, <1>2, <1>3, <1>5, <1>6, <1>7, <1>8, <1>9 DEF Next, WorkerStep

-----------------------------------------------------------------------------
(* The steps of the contract *)

\* What the contract sees of call c stays as it is.
Unseen(c) ==
  /\ Phase(c)' = Phase(c)
  /\ calls'[c].args = calls[c].args
  /\ effects'[c] = effects[c]

\* A step of the contract is taken by one call, which the others do not see.
LEMMA OneCallMoves ==
  ASSUME NEW c \in Risky, \A d \in Risky : d # c => Unseen(d)
  PROVE  /\ [d \in Risky |-> Phase(d)]' = [[d \in Risky |-> Phase(d)] EXCEPT ![c] = Phase(c)']
         /\ [d \in Risky |-> calls[d].args]'
              = [[d \in Risky |-> calls[d].args] EXCEPT ![c] = calls'[c].args]
         /\ [d \in Risky |-> effects[d]]' = [[d \in Risky |-> effects[d]] EXCEPT ![c] = effects'[c]]
  <1>1. Risky' = Risky
    BY DEF Risky, NonIdempotent
  <1>2. QED
    BY <1>1 DEF Unseen

\* If no call is seen to change, the contract stutters.
LEMMA NoCallMoves ==
  ASSUME \A d \in Risky : Unseen(d)
  PROVE  UNCHANGED <<[d \in Risky |-> Phase(d)], [d \in Risky |-> calls[d].args],
                     [d \in Risky |-> effects[d]]>>
  <1>1. Risky' = Risky
    BY DEF Risky, NonIdempotent
  <1>2. QED
    BY <1>1 DEF Unseen

\* Nobody sees what leaves a row's status and arguments, its approval's status and
\* its effects alone.
LEMMA StaysUnseen ==
  ASSUME NEW c \in Calls, calls'[c].status = calls[c].status, calls'[c].args = calls[c].args,
         approvals'[c].status = approvals[c].status, effects'[c] = effects[c]
  PROVE  Unseen(c)
  BY DEF Unseen, Phase

LEMMA InitContract == Init => Contract!Init
  <1> SUFFICES ASSUME Init PROVE Contract!Init
    OBVIOUS
  <1>1. \A c \in Risky : Phase(c) = "new" /\ calls[c].args = None /\ effects[c] = [a \in Args |-> 0]
    BY DEF Init, Risky, Phase, RowPhase, ApprovalPhase, NoRow
  <1>2. QED
    BY <1>1 DEF Contract!Init

\* The rows and approvals of other calls than r.call stay; those of r.call become a
\* proposal, or stay as well.
LEMMA AuthorizationProposes ==
  ASSUME RInv, NEW r \in Request, RequestApproval(r), UNCHANGED effects
  PROVE  [Contract!Next]_(Contract!vars)
  <1>0. TypeOK /\ r.call \in Calls /\ r.args \in Args /\ \A c \in Calls : InPace(c)
    BY DEF RInv, IInv, Request
  <1>1. CASE UNCHANGED <<approvals, calls>>
    <2>1. \A d \in Risky : Unseen(d)
      BY <1>1, StaysUnseen DEF Risky
    <2>2. QED
      BY <2>1, NoCallMoves DEF Contract!vars
  <1>2. CASE ~UNCHANGED <<approvals, calls>>
    <2>1. /\ AuthVerdict(r) = "approval_required" /\ approvals[r.call].status = "absent"
          /\ approvals' = [approvals EXCEPT ![r.call] = [status |-> "pending", args |-> r.args]]
          /\ calls' = [calls EXCEPT ![r.call] =
                          IF @.status = "absent"
                          THEN [NoRow EXCEPT !.status = "waiting_approval",
                                             !.session = r.session, !.args = r.args]
                          ELSE @]
      BY <1>2 DEF RequestApproval
    <2>2. Gated(r.call) /\ calls[r.call].status = "absent"
      BY <1>0, <2>1 DEF AuthVerdict, InPace
    <2>3. /\ approvals'[r.call].status = "pending" /\ calls'[r.call].args = r.args
          /\ calls'[r.call].status = "waiting_approval"
      BY <1>0, <2>1, <2>2 DEF TypeOK, LedgerType, NoRow
    <2>4. \A d \in Risky : d # r.call => Unseen(d)
      BY <1>0, <2>1, StaysUnseen DEF Risky, TypeOK, LedgerType
    <2>5. CASE r.call \notin Risky
      BY <2>4, <2>5, NoCallMoves DEF Contract!vars
    <2>6. CASE r.call \in Risky
      <3>1. Phase(r.call) = "new" /\ Phase(r.call)' = "proposed"
        BY <2>1, <2>2, <2>3 DEF Phase, RowPhase, ApprovalPhase
      <3>2. effects'[r.call] = effects[r.call]
        OBVIOUS
      <3>3. Contract!Propose(r.call, r.args)
        BY <2>2, <2>3, <2>4, <2>6, <3>1, <3>2, OneCallMoves DEF Contract!Propose, Contract!Moves
      <3>4. QED
        BY <1>0, <2>6, <3>3 DEF Contract!Next
    <2>7. QED
      BY <2>5, <2>6
  <1>3. QED
    BY <1>1, <1>2

\* Whoever executes a call holds the running row's arguments; the row is that of the
\* call the worker asked for.
LEMMA ExecutingRow ==
  ASSUME RInv, NEW w \in Workers, worker[w].pc \in {"handler", "effected"},
         NEW c \in Risky, c = worker[w].req.call
  PROVE  /\ Executes(w, c)
         /\ calls[c].status = "running" /\ calls[c].args = worker[w].req.args
         /\ Phase(c) = "started"
         /\ calls[c].args \in Args
  <1>1. Executes(w, c) /\ c \in Calls /\ NonIdempotent(c)
    BY DEF Executes, Risky
  <1>2. calls[c].status = "running" /\ calls[c].args = worker[w].req.args
    BY <1>1 DEF RInv, IInv, ClaimedOnce, OneIdentity
  <1>3. worker[w].req.args \in Args
    BY DEF RInv, IInv, TypeOK, WorkerType, Worker, Request
  <1>4. QED
    BY <1>1, <1>2, <1>3 DEF Phase, RowPhase, ApprovalPhase

\* A won claim starts the call, on the terms agreed to.
LEMMA ClaimStarts ==
  ASSUME RInv, NEW w \in Workers, ClaimWon(w), NEW r \in Request, r = worker[w].req
  PROVE  [Contract!Next]_(Contract!vars)
  <1>0. /\ TypeOK /\ ClaimAuthorized
        /\ r.call \in Calls /\ r.args \in Args
        /\ \A c \in Calls : InPace(c) /\ Untouched(c) /\ (NonIdempotent(c) => ClaimedOnce(c))
    BY DEF RInv, IInv, ClaimWon, TypeOK, WorkerType, Worker, Request
  <1>1. calls' = [calls EXCEPT ![r.call] = Claimed(r)] /\ UNCHANGED <<approvals, effects>>
    BY DEF ClaimWon
  <1>2. calls'[r.call].status = "running" /\ calls'[r.call].args = r.args
    BY <1>0, <1>1 DEF Claimed, TypeOK, LedgerType
  <1>3. \A d \in Risky : d # r.call => Unseen(d)
    BY <1>0, <1>1, StaysUnseen DEF Risky, TypeOK, LedgerType
  <1>4. CASE r.call \notin Risky
    BY <1>3, <1>4, NoCallMoves DEF Contract!vars
  <1>5. CASE r.call \in Risky
    <2>1. NonIdempotent(r.call)
      BY <1>5 DEF Risky
    <2>2. calls[r.call].status \in {"absent", "waiting_approval"}
      <3>1. ClaimVerdict(r) = "execute" /\ calls[r.call] \in Row
        BY <1>0 DEF ClaimWon, TypeOK, LedgerType
      <3>2. calls[r.call].status \notin {"succeeded", "uncertain", "running"}
        BY <2>1, <3>1 DEF ClaimVerdict
      <3>3. calls[r.call].status # "failed"
        BY <1>0, <2>1 DEF ClaimedOnce
      <3>4. QED
        BY <3>1, <3>2, <3>3 DEF Row, ToolCallStatus
    <2>3. Phase(r.call)' = "started"
      BY <1>2 DEF Phase, RowPhase, ApprovalPhase
    <2>4. CASE Gated(r.call)
      <3>1. approvals[r.call].status = "approved" /\ approvals[r.call].args = r.args
        BY <2>4 DEF ClaimWon, RInv, IInv, ClaimAuthorized, Approved
      <3>2. calls[r.call].args = r.args
        BY <1>0, <2>4, <3>1 DEF InPace
      <3>3. Phase(r.call) = "agreed"
        BY <2>2, <3>1 DEF Phase, RowPhase, ApprovalPhase
      <3>4. Contract!Start(r.call, r.args)
        BY <1>1, <1>2, <1>3, <1>5, <2>3, <2>4, <3>2, <3>3, OneCallMoves
        DEF Contract!Start, Contract!Moves
      <3>5. QED
        BY <1>0, <1>5, <3>4 DEF Contract!Next
    <2>5. CASE ~Gated(r.call)
      <3>1. Phase(r.call) = "new"
        BY <1>0, <2>2, <2>5 DEF InPace, Phase, RowPhase, ApprovalPhase
      <3>2. Contract!Start(r.call, r.args)
        BY <1>1, <1>2, <1>3, <1>5, <2>3, <2>5, <3>1, OneCallMoves
        DEF Contract!Start, Contract!Moves
      <3>3. QED
        BY <1>0, <1>5, <3>2 DEF Contract!Next
    <2>6. QED
      BY <2>4, <2>5
  <1>6. QED
    BY <1>4, <1>5

\* The effect of a call that was never started before is its first.
LEMMA EffectActs ==
  ASSUME RInv, NEW w \in Workers, HandlerEffect(w), NEW r \in Request, r = worker[w].req
  PROVE  [Contract!Next]_(Contract!vars)
  <1>0. TypeOK /\ r.call \in Calls /\ r.args \in Args /\ worker[w].pc = "handler"
    BY DEF RInv, IInv, HandlerEffect, TypeOK, WorkerType, Worker, Request
  <1>1. /\ effects' = [effects EXCEPT ![r.call][r.args] = effects[r.call][r.args] + 1]
        /\ UNCHANGED <<calls, approvals>>
    BY DEF HandlerEffect
  <1>2. \A d \in Risky : d # r.call => Unseen(d)
    BY <1>0, <1>1, StaysUnseen DEF Risky, TypeOK
  <1>3. CASE r.call \notin Risky
    BY <1>2, <1>3, NoCallMoves DEF Contract!vars
  <1>4. CASE r.call \in Risky
    <2>1. Phase(r.call) = "started" /\ calls[r.call].args = r.args /\ Executes(w, r.call)
      BY <1>0, <1>4, ExecutingRow
    <2>2. effects[r.call][r.args] = 0
      BY <1>0, <1>4, <2>1 DEF RInv, IInv, ClaimedOnce, Risky
    <2>3. effects'[r.call] = [effects[r.call] EXCEPT ![r.args] = 1]
      BY <1>0, <1>1, <2>2 DEF TypeOK
    <2>4. Phase(r.call)' = Phase(r.call) /\ calls'[r.call].args = calls[r.call].args
      BY <1>1 DEF Phase, RowPhase, ApprovalPhase
    <2>5. Contract!Act(r.call, r.args)
      <3>1. UNCHANGED <<[d \in Risky |-> Phase(d)], [d \in Risky |-> calls[d].args]>>
        <4>1. /\ [d \in Risky |-> Phase(d)]'
                   = [[d \in Risky |-> Phase(d)] EXCEPT ![r.call] = Phase(r.call)']
              /\ [d \in Risky |-> calls[d].args]'
                   = [[d \in Risky |-> calls[d].args] EXCEPT ![r.call] = calls'[r.call].args]
          BY <1>2, <1>4, OneCallMoves
        <4>2. QED
          BY <1>4, <2>4, <4>1
      <3>2. [d \in Risky |-> effects[d]]'
              = [[d \in Risky |-> effects[d]] EXCEPT ![r.call] = [effects[r.call] EXCEPT ![r.args] = 1]]
        BY <1>2, <1>4, <2>3, OneCallMoves
      <3>3. [d \in Risky |-> effects[d]]'
              = [[d \in Risky |-> effects[d]] EXCEPT ![r.call][r.args] = 1]
        BY <1>4, <3>2
      <3>4. QED
        BY <1>4, <2>1, <2>2, <3>1, <3>3 DEF Contract!Act
    <2>6. QED
      BY <1>0, <1>4, <2>5 DEF Contract!Next
  <1>5. QED
    BY <1>3, <1>4

\* What a record transaction changes of a call is its row's status alone.
LEMMA RecordSeen ==
  ASSUME RInv, NEW c \in Calls, NEW status \in ToolCallStatus, NEW result \in Nat,
         calls'[c] = Recorded(calls[c], status, result),
         \A d \in Calls : d # c => calls'[d] = calls[d],
         UNCHANGED <<approvals, effects>>
  PROVE  /\ calls'[c].status = status
         /\ \A d \in Risky : calls'[d].args = calls[d].args /\ effects'[d] = effects[d]
         /\ \A d \in Risky : d # c => Unseen(d)
  <1>1. calls[c] \in Row
    BY DEF RInv, IInv, TypeOK, LedgerType
  <1>2. calls'[c].status = status /\ calls'[c].args = calls[c].args
    BY <1>1 DEF Recorded, Row
  <1>3. \A d \in Risky : d # c => Unseen(d)
    BY StaysUnseen DEF Risky
  <1>4. QED
    BY <1>2, <1>3 DEF Risky

\* Arguments and effects that stay for every call stay as functions.
LEMMA TermsAndActsStay ==
  ASSUME \A d \in Risky : calls'[d].args = calls[d].args /\ effects'[d] = effects[d]
  PROVE  UNCHANGED <<[d \in Risky |-> calls[d].args], [d \in Risky |-> effects[d]]>>
  <1>1. Risky' = Risky
    BY DEF Risky, NonIdempotent
  <1>2. QED
    BY <1>1

\* Success is recorded of a call that acted.
LEMMA SuccessIsDone ==
  ASSUME RInv, NEW w \in Workers, RecordSuccess(w), NEW c \in Calls, c = worker[w].req.call
  PROVE  [Contract!Next]_(Contract!vars)
  <1>1. /\ worker[w].pc = "effected"
        /\ calls' = [calls EXCEPT ![c] = Recorded(@, "succeeded", worker[w].attempt)]
        /\ UNCHANGED <<approvals, effects>>
    BY DEF RecordSuccess
  <1>2. /\ calls'[c].status = "succeeded"
        /\ \A d \in Risky : calls'[d].args = calls[d].args /\ effects'[d] = effects[d]
        /\ \A d \in Risky : d # c => Unseen(d)
    <2>1. "succeeded" \in ToolCallStatus /\ worker[w].attempt \in Nat
      BY DEF ToolCallStatus, RInv, IInv, TypeOK, WorkerType, Worker
    <2>2. /\ calls'[c] = Recorded(calls[c], "succeeded", worker[w].attempt)
          /\ \A d \in Calls : d # c => calls'[d] = calls[d]
      BY <1>1 DEF RInv, IInv, TypeOK, LedgerType
    <2>3. QED
      BY <1>1, <2>1, <2>2, RecordSeen
  <1>3. CASE c \notin Risky
    BY <1>2, <1>3, NoCallMoves DEF Contract!vars
  <1>4. CASE c \in Risky
    <2> DEFINE a == calls[c].args
    <2>1. Phase(c) = "started" /\ a = worker[w].req.args /\ a \in Args
      BY <1>1, <1>4, ExecutingRow
    <2>2. effects[c][a] = 1
      <3>1. effects[c][a] > 0
        BY <1>1, <2>1 DEF RInv, IInv, SuccessMeansEffect
      <3>2. effects[c][a] <= 1 /\ effects[c][a] \in Nat
        BY <1>4, <2>1 DEF RInv, IInv, ClaimedOnce, Risky, TypeOK
      <3>3. QED
        BY <3>1, <3>2
    <2>3. Phase(c)' = "done"
      BY <1>2 DEF Phase, RowPhase, ApprovalPhase
    <2>4. Contract!Succeed(c, a)
      <3>1. UNCHANGED <<[d \in Risky |-> calls[d].args], [d \in Risky |-> effects[d]]>>
        BY <1>2, TermsAndActsStay
      <3>2. Contract!Moves(c, "started", "done")
        BY <1>2, <1>4, <2>1, <2>3, OneCallMoves DEF Contract!Moves
      <3>3. QED
        BY <1>4, <2>2, <3>1, <3>2 DEF Contract!Succeed
    <2>5. QED
      BY <1>4, <2>1, <2>4 DEF Contract!Next
  <1>5. QED
    BY <1>3, <1>4

\* A failure of a risky call leaves it in doubt, whether it acted or not.
LEMMA FailureIsDoubtful ==
  ASSUME RInv, NEW w \in Workers, RecordFailure(w), NEW c \in Calls, c = worker[w].req.call
  PROVE  [Contract!Next]_(Contract!vars)
  <1>1. /\ worker[w].pc \in {"handler", "effected"}
        /\ calls' = [calls EXCEPT ![c] = Recorded(@, FailureStatus(c), @.result)]
        /\ UNCHANGED <<approvals, effects>>
    BY DEF RecordFailure
  <1>2. /\ calls'[c] = Recorded(calls[c], FailureStatus(c), calls[c].result)
        /\ \A d \in Calls : d # c => calls'[d] = calls[d]
    BY <1>1 DEF RInv, IInv, TypeOK, LedgerType
  <1>3. /\ calls'[c].status = FailureStatus(c)
        /\ \A d \in Risky : calls'[d].args = calls[d].args /\ effects'[d] = effects[d]
        /\ \A d \in Risky : d # c => Unseen(d)
    <2>1. FailureStatus(c) \in ToolCallStatus
      BY DEF ToolCallStatus, FailureStatus
    <2>2. LedgerType
      BY DEF RInv, IInv, TypeOK
    <2>3. calls[c].result \in Nat
      BY <2>2 DEF LedgerType, Row
    <2>4. PICK s \in ToolCallStatus, n \in Nat : s = FailureStatus(c) /\ n = calls[c].result
      BY <2>1, <2>3
    <2>5. calls'[c] = Recorded(calls[c], s, n)
      BY <1>2, <2>4
    <2>6. /\ \A d \in Calls : d # c => calls'[d] = calls[d]
          /\ UNCHANGED <<approvals, effects>>
      BY <1>1, <1>2
    <2>7. /\ calls'[c].status = s
          /\ \A d \in Risky : calls'[d].args = calls[d].args /\ effects'[d] = effects[d]
          /\ \A d \in Risky : d # c => Unseen(d)
      BY <2>5, <2>6, RecordSeen
    <2>8. QED
      BY <2>4, <2>7
  <1>4. CASE c \notin Risky
    BY <1>3, <1>4, NoCallMoves DEF Contract!vars
  <1>5. CASE c \in Risky
    <2>1. Phase(c) = "started"
      BY <1>1, <1>5, ExecutingRow
    <2>2. Phase(c)' = "doubtful"
      BY <1>3, <1>5 DEF Risky, FailureStatus, Phase, RowPhase, ApprovalPhase
    <2>3. Contract!Doubt(c)
      <3>1. UNCHANGED <<[d \in Risky |-> calls[d].args], [d \in Risky |-> effects[d]]>>
        BY <1>3, TermsAndActsStay
      <3>2. Contract!Moves(c, "started", "doubtful")
        BY <1>3, <1>5, <2>1, <2>2, OneCallMoves DEF Contract!Moves
      <3>3. QED
        BY <3>1, <3>2 DEF Contract!Doubt
    <2>4. QED
      BY <1>5, <2>3 DEF Contract!Next
  <1>6. QED
    BY <1>4, <1>5

\* A call that is still to be decided was never claimed.
LEMMA DecisionAnswers ==
  ASSUME RInv, NEW c \in Calls, NEW verdict \in {"approved", "rejected"}, Decide(c, verdict)
  PROVE  [Contract!Next]_(Contract!vars)
  <1>1. TypeOK /\ InPace(c) /\ Untouched(c)
    BY DEF RInv, IInv
  <1>2. /\ approvals[c].status = "pending"
        /\ approvals' = [approvals EXCEPT ![c].status = verdict]
        /\ UNCHANGED <<calls, effects>>
    BY DEF Decide
  <1>3. approvals'[c].status = verdict
    BY <1>1, <1>2 DEF TypeOK, Approval
  <1>4. \A d \in Risky : d # c => Unseen(d)
    BY <1>1, <1>2, StaysUnseen DEF Risky, TypeOK
  <1>5. calls[c].status \notin DOMAIN RowPhase
    <2>1. calls[c].attempt \in Nat
      BY <1>1 DEF TypeOK, LedgerType, Row
    <2>2. calls[c].attempt = 0
      BY <1>1, <1>2, <2>1 DEF InPace
    <2>3. QED
      BY <1>1, <2>2 DEF Untouched, RowPhase
  <1>6. Phase(c) = "proposed" /\ Phase(c)' \in {"agreed", "refused"}
    BY <1>2, <1>3, <1>5 DEF Phase, ApprovalPhase, RowPhase
  <1>7. CASE c \notin Risky
    BY <1>4, <1>7, NoCallMoves DEF Contract!vars
  <1>8. CASE c \in Risky
    <2>1. Contract!Answer(c)
      BY <1>2, <1>4, <1>6, <1>8, OneCallMoves DEF Contract!Answer, Contract!Moves
    <2>2. QED
      BY <1>8, <2>1 DEF Contract!Next
  <1>9. QED
    BY <1>7, <1>8

-----------------------------------------------------------------------------
(* The refinement *)

LEMMA NextContract == RInv /\ [Next]_vars => [Contract!Next]_(Contract!vars)
  <1> SUFFICES ASSUME RInv, [Next]_vars PROVE [Contract!Next]_(Contract!vars)
    OBVIOUS
  <1>0. TypeOK /\ \A w \in Workers : worker[w].pc # "idle" =>
                    worker[w].req \in Request /\ worker[w].req.call \in Calls
    BY DEF RInv, IInv, TypeOK, WorkerType, Worker, Request
  <1>1. ASSUME NEW w \in Workers, NEW r \in Request, Execute(w, r) \/ AuthorizationStatus(w, r)
        PROVE  [Contract!Next]_(Contract!vars)
    BY <1>1, AuthorizationProposes DEF Execute, AuthorizationStatus
  <1>2. ASSUME NEW w \in Workers, ClaimWon(w) PROVE [Contract!Next]_(Contract!vars)
    BY <1>0, <1>2, ClaimStarts DEF ClaimWon
  <1>3. ASSUME NEW w \in Workers, HandlerEffect(w) PROVE [Contract!Next]_(Contract!vars)
    BY <1>0, <1>3, EffectActs DEF HandlerEffect
  <1>4. ASSUME NEW w \in Workers, RecordSuccess(w) PROVE [Contract!Next]_(Contract!vars)
    BY <1>0, <1>4, SuccessIsDone DEF RecordSuccess
  <1>5. ASSUME NEW w \in Workers, RecordFailure(w) PROVE [Contract!Next]_(Contract!vars)
    BY <1>0, <1>5, FailureIsDoubtful DEF RecordFailure
  <1>6. ASSUME NEW c \in Calls, NEW verdict \in {"approved", "rejected"}, Decide(c, verdict)
        PROVE  [Contract!Next]_(Contract!vars)
    BY <1>6, DecisionAnswers
  <1>7. ASSUME NEW d \in Calls, LeaseExpires(d) PROVE [Contract!Next]_(Contract!vars)
    <2>1. \A c \in Risky : Unseen(c)
      BY <1>0, <1>7, StaysUnseen DEF LeaseExpires, Risky, TypeOK, LedgerType, Row
    <2>2. QED
      BY <2>1, NoCallMoves DEF Contract!vars
  <1>8. ASSUME UNCHANGED <<calls, approvals, effects>> PROVE [Contract!Next]_(Contract!vars)
    <2>1. \A c \in Risky : Unseen(c)
      BY <1>8, StaysUnseen DEF Risky
    <2>2. QED
      BY <2>1, NoCallMoves DEF Contract!vars
  <1>9. QED
    BY <1>1, <1>2, <1>3, <1>4, <1>5, <1>6, <1>7, <1>8
    DEF Next, WorkerStep, ClaimLost, Abandon, vars

\* The gateway implements the contract of a call that must not be repeated: whatever
\* workers that race, fail, die and retry do, a risky call is proposed, agreed to,
\* started, acts at most once and is then done or in doubt for good, in this order.
THEOREM Refinement == Spec => FulfilsContract
  <1>1. Spec => []RInv
    BY InitInPace, NextInPace, PTL DEF Spec
  <1>2. QED
    BY <1>1, InitContract, NextContract, PTL DEF Spec, FulfilsContract, Contract!Spec
=============================================================================
