------------------------- MODULE ToolGatewayProofs -------------------------
(***************************************************************************)
(* Proofs about ToolGateway, for every set of workers, calls, sessions and *)
(* argument objects, every risk table and every approval policy.           *)
(***************************************************************************)
EXTENDS ToolGateway, FiniteSetTheorems, TLAPS

\* A row that was never claimed has no trace: no attempt, no effect, nobody
\* executing it.
Untouched(c) ==
  /\ calls[c].attempt = 0 <=> calls[c].status \in {"absent", "waiting_approval"}
  /\ calls[c].attempt = 0 => \A a \in Args : effects[c][a] = 0
  /\ calls[c].attempt = 0 => \A w \in Workers : ~Executes(w, c)

\* Before its claim a worker already holds the authorization of its request.
ClaimAuthorized ==
  \A w \in Workers : worker[w].pc = "claim" /\ Gated(worker[w].req.call) =>
    Approved(worker[w].req.call, worker[w].req.args)

\* A non-idempotent row is claimed once; while someone executes it, it is
\* alone, the row is running, and before the tool acts nothing has happened.
ClaimedOnce(c) ==
  /\ calls[c].attempt <= 1
  /\ calls[c].status # "failed"
  /\ \A w \in Workers : Executes(w, c) =>
       /\ calls[c].status = "running"
       /\ worker[w].pc = "handler" => \A a \in Args : effects[c][a] = 0
       /\ \A v \in Workers : Executes(v, c) => v = w
  /\ \A a \in Args : effects[c][a] <= 1

\* Success is recorded only of a call that acted.
SuccessMeansEffect ==
  /\ \A c \in Calls : calls[c].status = "succeeded" =>
       calls[c].args \in Args /\ effects[c][calls[c].args] > 0
  /\ \A w \in Workers : worker[w].pc = "effected" =>
       effects[worker[w].req.call][worker[w].req.args] > 0

IInv ==
  /\ TypeOK
  /\ \A c \in Calls : Untouched(c)
  /\ ClaimAuthorized
  /\ ApprovedBeforeEffect
  /\ OneIdentity
  /\ \A c \in Calls : NonIdempotent(c) => ClaimedOnce(c)
  /\ SuccessMeansEffect
  /\ AnsweredMeansEffect

-----------------------------------------------------------------------------

LEMMA InitType == Init => TypeOK
  BY GatewayAssumption DEF Init, TypeOK, LedgerType, WorkerType, NoRow, Row, Approval,
     Worker, Outcome

\* What a worker that has a request and stops executing leaves behind.
LEMMA ReturnType ==
  ASSUME TypeOK, NEW w \in Workers, worker[w].pc # "idle", NEW o \in Outcome, Return(w, o)
  PROVE  WorkerType'
  <1> DEFINE rec == [worker[w] EXCEPT !.pc = "idle", !.attempt = 0, !.out = o]
  <1>1. worker[w] \in Worker /\ worker[w].req # None /\ worker \in [Workers -> Worker]
    BY DEF TypeOK, WorkerType
  <1>2. rec \in Worker /\ rec.req # None
    BY <1>1 DEF Worker
  <1>3. worker' = [worker EXCEPT ![w] = rec]
    BY DEF Return
  <1> HIDE DEF rec
  <1>4. QED
    BY <1>1, <1>2, <1>3 DEF TypeOK, WorkerType

\* The rows an authorization inserts are well typed.
LEMMA RequestApprovalType ==
  ASSUME TypeOK, NEW r \in Request, RequestApproval(r)
  PROVE  LedgerType' /\ (approvals \in [Calls -> Approval])'
  <1>1. r.call \in Calls /\ r.args \in Args /\ r.session \in Sessions
    BY DEF Request
  <1>2. CASE UNCHANGED <<approvals, calls>>
    BY <1>2 DEF TypeOK, LedgerType
  <1>3. CASE calls' = [calls EXCEPT ![r.call] =
                         IF @.status = "absent"
                         THEN [NoRow EXCEPT !.status = "waiting_approval",
                                            !.session = r.session, !.args = r.args]
                         ELSE @]
             /\ approvals' = [approvals EXCEPT ![r.call] =
                                [status |-> "pending", args |-> r.args]]
    <2>1. [NoRow EXCEPT !.status = "waiting_approval",
                        !.session = r.session, !.args = r.args] \in Row
      BY <1>1 DEF NoRow, Row, ToolCallStatus
    <2>2. [status |-> "pending", args |-> r.args] \in Approval
      BY <1>1 DEF Approval, ApprovalStatus
    <2>3. LedgerType'
      BY <2>1, <1>1, <1>3 DEF TypeOK, LedgerType, NoRow
    <2>4. QED
      BY <2>2, <2>3, <1>1, <1>3 DEF TypeOK
  <1>4. QED
    BY <1>2, <1>3 DEF RequestApproval

\* The row a record transaction leaves is well typed and holds no lease.
LEMMA RecordedType ==
  ASSUME LedgerType, NEW c \in Calls, NEW status \in ToolCallStatus \ {"running"},
         NEW result \in Nat, calls' = [calls EXCEPT ![c] = Recorded(@, status, result)]
  PROVE  LedgerType'
  <1>1. calls[c] \in Row
    BY DEF LedgerType
  <1>2. /\ Recorded(calls[c], status, result) \in Row
        /\ Recorded(calls[c], status, result).lease = "none"
        /\ Recorded(calls[c], status, result).status = status
    BY <1>1 DEF Recorded, Row
  <1>3. QED
    BY <1>2 DEF LedgerType

LEMMA NextType == TypeOK /\ [Next]_vars => TypeOK'
  <1> SUFFICES ASSUME TypeOK, [Next]_vars PROVE TypeOK'
    OBVIOUS
  <1>1. ASSUME NEW w \in Workers, NEW r \in Request, Execute(w, r) PROVE TypeOK'
    <2>1. r # None
      BY GatewayAssumption
    <2>2. AuthVerdict(r) \in Outcome \cup {"granted"}
      BY DEF AuthVerdict, Outcome
    <2>3. WorkerType'
      BY <1>1, <2>1, <2>2 DEF Execute, TypeOK, WorkerType, Worker, Outcome
    <2>4. QED
      BY <1>1, <2>3, RequestApprovalType DEF Execute, TypeOK
  <1>2. ASSUME NEW w \in Workers, NEW r \in Request, AuthorizationStatus(w, r) PROVE TypeOK'
    BY <1>2, RequestApprovalType DEF AuthorizationStatus, TypeOK, WorkerType
  <1>3. ASSUME NEW w \in Workers, ClaimWon(w) PROVE TypeOK'
    <2>1. worker[w].req \in Request /\ worker[w].req.call \in Calls
      BY <1>3 DEF ClaimWon, TypeOK, WorkerType, Worker, Request
    <2>2. LedgerType'
      BY <1>3, <2>1 DEF ClaimWon, Claimed, NextAttempt, TypeOK, LedgerType, Row, ToolCallStatus, Request
    <2>3. calls[worker[w].req.call].attempt + 1 \in Nat
      BY <2>1 DEF TypeOK, LedgerType, Row
    <2>4. WorkerType'
      <3> DEFINE n == calls[worker[w].req.call].attempt + 1
                 rec == [worker[w] EXCEPT !.pc = "handler", !.attempt = n]
      <3>1. worker \in [Workers -> Worker] /\ worker[w] \in Worker
        BY DEF TypeOK, WorkerType
      <3>2. worker' = [worker EXCEPT ![w] = rec]
        BY <1>3 DEF ClaimWon, Claimed, NextAttempt
      <3>3. rec \in Worker /\ rec.req = worker[w].req
        BY <2>3, <3>1 DEF Worker
      <3>4. worker[w].req # None
        BY <2>1, GatewayAssumption
      <3> HIDE DEF rec
      <3>5. QED
        BY <3>1, <3>2, <3>3, <3>4 DEF TypeOK, WorkerType
    <2>5. UNCHANGED <<approvals, effects>>
      BY <1>3 DEF ClaimWon
    <2>6. QED
      BY <2>2, <2>4, <2>5 DEF TypeOK
  <1>4. ASSUME NEW w \in Workers, ClaimLost(w) PROVE TypeOK'
    <2>1. worker[w].pc # "idle"
      BY <1>4 DEF ClaimLost
    <2>2. PICK o \in Outcome : Return(w, o)
      BY <1>4 DEF ClaimLost, ClaimVerdict, Outcome
    <2>3. QED
      BY <1>4, <2>1, <2>2, ReturnType DEF ClaimLost, TypeOK, LedgerType
  <1>5. ASSUME NEW w \in Workers, HandlerEffect(w) PROVE TypeOK'
    <2>1. worker[w].req \in Request
      BY <1>5 DEF HandlerEffect, TypeOK, WorkerType, Worker
    <2>2. effects' \in [Calls -> [Args -> Nat]]
      BY <1>5, <2>1 DEF HandlerEffect, TypeOK, Request
    <2>3. WorkerType'
      BY <1>5 DEF HandlerEffect, TypeOK, WorkerType, Worker
    <2>4. QED
      BY <1>5, <2>2, <2>3 DEF HandlerEffect, TypeOK, LedgerType
  <1>6. ASSUME NEW w \in Workers, RecordSuccess(w) PROVE TypeOK'
    <2>1. /\ worker[w].pc # "idle"
          /\ worker[w].attempt \in Nat
          /\ worker[w].req.call \in Calls
      BY <1>6 DEF RecordSuccess, TypeOK, WorkerType, Worker, Request
    <2>2. LedgerType'
      BY <1>6, <2>1, RecordedType DEF RecordSuccess, TypeOK, ToolCallStatus
    <2>3. WorkerType'
      BY <1>6, <2>1, ReturnType DEF RecordSuccess, Outcome
    <2>4. QED
      BY <1>6, <2>2, <2>3 DEF RecordSuccess, TypeOK
  <1>7. ASSUME NEW w \in Workers, RecordFailure(w) PROVE TypeOK'
    <2>1. worker[w].pc # "idle" /\ worker[w].req.call \in Calls
      BY <1>7 DEF RecordFailure, TypeOK, WorkerType, Worker, Request
    <2>2. FailureStatus(worker[w].req.call) \in ToolCallStatus \ {"running"}
      BY DEF FailureStatus, ToolCallStatus
    <2>3. LedgerType'
      <3>1. calls[worker[w].req.call].result \in Nat
        BY <2>1 DEF TypeOK, LedgerType, Row
      <3>2. QED
        BY <1>7, <2>1, <2>2, <3>1, RecordedType DEF RecordFailure, TypeOK
    <2>4. WorkerType'
      BY <1>7, <2>1, ReturnType DEF RecordFailure, Outcome
    <2>5. QED
      BY <1>7, <2>3, <2>4 DEF RecordFailure, TypeOK
  <1>8. ASSUME NEW w \in Workers, Abandon(w) PROVE TypeOK'
    BY <1>8, ReturnType DEF Abandon, Outcome, TypeOK, LedgerType
  <1>9. ASSUME NEW c \in Calls, NEW verdict \in {"approved", "rejected"}, Decide(c, verdict)
        PROVE TypeOK'
    BY <1>9 DEF Decide, TypeOK, LedgerType, WorkerType, Approval, ApprovalStatus
  <1>10. ASSUME NEW c \in Calls, LeaseExpires(c) PROVE TypeOK'
    <2>1. /\ calls \in [Calls -> Row] /\ calls[c].status = "running"
          /\ calls' = [calls EXCEPT ![c].lease = "expired"]
          /\ UNCHANGED <<approvals, worker, effects>>
      BY <1>10 DEF LeaseExpires, TypeOK, LedgerType
    <2>2. calls' \in [Calls -> Row]
      BY <2>1 DEF Row
    <2>3. LedgerType'
      BY <2>1, <2>2 DEF TypeOK, LedgerType, Row
    <2>4. QED
      BY <2>1, <2>3 DEF TypeOK, WorkerType
  <1>11. CASE UNCHANGED vars
    BY <1>11 DEF vars, TypeOK, LedgerType, WorkerType
  <1>12. QED
    BY <1>1, <1>2, <1>3, <1>4, <1>5, <1>6, <1>7, <1>8, <1>9, <1>10, <1>11 DEF Next, WorkerStep

\* Type correctness of the whole gateway.
THEOREM TypeCorrect == Spec => []TypeOK
  BY InitType, NextType, PTL DEF Spec

-----------------------------------------------------------------------------
(* The inductive invariant *)

LEMMA InitInvariant == Init => IInv
  <1> SUFFICES ASSUME Init PROVE IInv
    OBVIOUS
  <1> USE DEF Init
  <1>1. TypeOK
    BY InitType
  <1>2. \A c \in Calls : Untouched(c)
    BY DEF Untouched, NoRow, Executes
  <1>3. ClaimAuthorized /\ ApprovedBeforeEffect /\ OneIdentity
    BY DEF ClaimAuthorized, ApprovedBeforeEffect, OneIdentity, Executes
  <1>4. \A c \in Calls : ClaimedOnce(c)
    BY DEF ClaimedOnce, Executes, NoRow
  <1>5. SuccessMeansEffect /\ AnsweredMeansEffect
    BY DEF SuccessMeansEffect, AnsweredMeansEffect, NoRow
  <1>6. QED
    BY <1>1, <1>2, <1>3, <1>4, <1>5 DEF IInv

\* A worker that leaves execute() without writing anything keeps the invariant,
\* provided an answer is that of a call that acted.
LEMMA ReturnKeeps ==
  ASSUME IInv, NEW w \in Workers, worker[w].pc # "idle", NEW o \in Outcome, Return(w, o),
         UNCHANGED <<calls, approvals, effects>>,
         o = "ok" => effects[worker[w].req.call][worker[w].req.args] > 0
  PROVE  IInv'
  <1> USE DEF IInv
  <1>1. TypeOK'
    BY ReturnType DEF TypeOK, LedgerType
  <1>2. /\ worker'[w].pc = "idle" /\ worker'[w].out = o /\ worker'[w].req = worker[w].req
        /\ \A v \in Workers : v # w => worker'[v] = worker[v]
    BY DEF Return, TypeOK, WorkerType, Worker
  <1>3. (\A c \in Calls : Untouched(c))'
    BY <1>2 DEF Untouched, Executes
  <1>4. (ClaimAuthorized /\ ApprovedBeforeEffect /\ OneIdentity)'
    BY <1>2 DEF ClaimAuthorized, ApprovedBeforeEffect, OneIdentity, Executes, Approved
  <1>5. (\A c \in Calls : NonIdempotent(c) => ClaimedOnce(c))'
    BY <1>2 DEF ClaimedOnce, Executes
  <1>6. (SuccessMeansEffect /\ AnsweredMeansEffect)'
    BY <1>2 DEF SuccessMeansEffect, AnsweredMeansEffect
  <1>7. QED
    BY <1>1, <1>3, <1>4, <1>5, <1>6


\* An authorization, by execute() or authorization_status(): it inserts rows only
\* where there were none, and a worker goes on to its claim only if granted.
LEMMA AuthorizationKeeps ==
  ASSUME IInv, TypeOK', NEW w \in Workers, NEW r \in Request, NEW pc \in {"idle", "claim"},
         NEW o \in Outcome \ {"ok"}, worker[w].pc = "idle", RequestApproval(r),
         pc = "claim" => AuthVerdict(r) = "granted",
         \/ UNCHANGED worker
         \/ worker' = [worker EXCEPT ![w] = [pc |-> pc, req |-> r, attempt |-> 0, out |-> o]],
         UNCHANGED effects
  PROVE  IInv'
  <1> USE DEF IInv
  <1>1. /\ \/ worker'[w] = worker[w]
           \/ worker'[w].pc = pc /\ worker'[w].out = o /\ worker'[w].req = r
        /\ \A v \in Workers : v # w => worker'[v] = worker[v]
    BY DEF TypeOK, WorkerType
  <1>2. r.call \in Calls
    BY DEF Request
  <1>3. \A c \in Calls :
          \/ calls'[c] = calls[c]
          \/ /\ calls[c].status = "absent"
             /\ calls'[c].status = "waiting_approval" /\ calls'[c].attempt = 0
    <2>1. CASE UNCHANGED <<approvals, calls>>
      BY <2>1
    <2>2. CASE calls' = [calls EXCEPT ![r.call] =
                           IF @.status = "absent"
                           THEN [NoRow EXCEPT !.status = "waiting_approval",
                                              !.session = r.session, !.args = r.args]
                           ELSE @]
      <3>1. \A c \in Calls : c # r.call => calls'[c] = calls[c]
        BY <2>2, <1>2 DEF TypeOK, LedgerType
      <3>2. calls[r.call].status # "absent" => calls'[r.call] = calls[r.call]
        BY <2>2, <1>2 DEF TypeOK, LedgerType
      <3>3. calls[r.call].status = "absent" =>
              calls'[r.call].status = "waiting_approval" /\ calls'[r.call].attempt = 0
        BY <2>2, <1>2 DEF TypeOK, LedgerType, NoRow
      <3>4. QED
        BY <3>1, <3>2, <3>3
    <2>3. QED
      BY <2>1, <2>2 DEF RequestApproval
  <1>4. \A c \in Calls : approvals[c].status = "approved" => approvals'[c] = approvals[c]
    BY <1>2 DEF RequestApproval, TypeOK
  <1>5. \A v \in Workers : \A c \in Calls : Executes(v, c)' <=> Executes(v, c)
    BY <1>1 DEF Executes
  <1>6. \A v \in Workers : \A c \in Calls : Executes(v, c) =>
          worker'[v] = worker[v] /\ worker[v].req.args \in Args
    BY <1>1 DEF Executes, TypeOK, WorkerType, Worker, Request
  <1>7. \A c \in Calls : calls'[c] # calls[c] =>
          /\ \A a \in Args : effects[c][a] = 0
          /\ \A v \in Workers : ~Executes(v, c)
    BY <1>3 DEF Untouched
  <1>8. (\A c \in Calls : Untouched(c))'
    <2> SUFFICES ASSUME NEW c \in Calls PROVE Untouched(c)'
      OBVIOUS
    <2>1. CASE calls'[c] = calls[c]
      BY <2>1, <1>5 DEF Untouched
    <2>2. CASE calls'[c] # calls[c]
      BY <2>2, <1>3, <1>5, <1>7 DEF Untouched
    <2>3. QED
      BY <2>1, <2>2
  <1>9. ClaimAuthorized'
    <2> SUFFICES ASSUME NEW v \in Workers, worker'[v].pc = "claim", Gated(worker'[v].req.call)
                 PROVE  /\ approvals'[worker'[v].req.call].status = "approved"
                        /\ approvals'[worker'[v].req.call].args = worker'[v].req.args
      BY DEF ClaimAuthorized, Gated, Approved
    <2>1. CASE v = w
      <3>1. approvals[r.call].status = "approved" /\ approvals[r.call].args = r.args
        BY <2>1, <1>1 DEF AuthVerdict
      <3>2. QED
        BY <3>1, <2>1, <1>1, <1>2, <1>4
    <2>2. CASE v # w
      <3>1. worker[v].req.call \in Calls
        BY <2>2, <1>1 DEF TypeOK, WorkerType, Worker, Request
      <3>2. QED
        BY <3>1, <2>2, <1>1, <1>4 DEF ClaimAuthorized, Approved
    <2>3. QED
      BY <2>1, <2>2
  <1>10. ApprovedBeforeEffect'
    BY <1>4, <1>5, <1>6 DEF ApprovedBeforeEffect, Gated, Approved
  <1>11. OneIdentity'
    BY <1>5, <1>6, <1>7 DEF OneIdentity
  <1>12. (\A c \in Calls : NonIdempotent(c) => ClaimedOnce(c))'
    <2> SUFFICES ASSUME NEW c \in Calls, NonIdempotent(c) PROVE ClaimedOnce(c)'
      BY DEF NonIdempotent
    <2>1. CASE calls'[c] = calls[c]
      BY <2>1, <1>5, <1>6 DEF ClaimedOnce
    <2>2. CASE calls'[c] # calls[c]
      BY <2>2, <1>3, <1>5, <1>7 DEF ClaimedOnce
    <2>3. QED
      BY <2>1, <2>2
  <1>13. SuccessMeansEffect'
    <2>1. \A c \in Calls : calls'[c].status = "succeeded" => calls'[c] = calls[c]
      BY <1>3
    <2>2. \A v \in Workers : worker'[v].pc = "effected" => worker'[v] = worker[v]
      BY <1>1
    <2>3. QED
      BY <2>1, <2>2 DEF SuccessMeansEffect
  <1>14. AnsweredMeansEffect'
    BY <1>1 DEF AnsweredMeansEffect
  <1>15. QED
    BY <1>8, <1>9, <1>10, <1>11, <1>12, <1>13, <1>14

\* A winning claim: on a row of its own identity, and of a non-idempotent call
\* only when nobody ever claimed it.
LEMMA ClaimWonKeeps ==
  ASSUME IInv, TypeOK', NEW w \in Workers, ClaimWon(w)
  PROVE  IInv'
  <1> USE DEF IInv
  <1> DEFINE r == worker[w].req
             c0 == r.call
  <1>1. r \in Request /\ c0 \in Calls /\ r.args \in Args
    BY DEF ClaimWon, TypeOK, WorkerType, Worker, Request
  <1>2. /\ worker'[w].pc = "handler" /\ worker'[w].out = worker[w].out /\ worker'[w].req = r
        /\ \A v \in Workers : v # w => worker'[v] = worker[v]
    BY DEF ClaimWon, TypeOK, WorkerType, Worker
  <1>3. calls[c0].attempt \in Nat
    BY <1>1 DEF TypeOK, LedgerType, Row
  <1>4. /\ calls'[c0].status = "running" /\ calls'[c0].session = r.session
        /\ calls'[c0].args = r.args /\ calls'[c0].attempt = calls[c0].attempt + 1
        /\ \A c \in Calls : c # c0 => calls'[c] = calls[c]
        /\ effects' = effects /\ approvals' = approvals
    BY <1>1 DEF ClaimWon, Claimed, NextAttempt, TypeOK, LedgerType
  <1>5. \A v \in Workers : \A c \in Calls :
          Executes(v, c)' <=> Executes(v, c) \/ (v = w /\ c = c0)
    BY <1>1, <1>2 DEF Executes, ClaimWon
  <1>6. calls[c0].status = "absent"
        \/ (calls[c0].session = r.session /\ calls[c0].args = r.args)
    BY DEF ClaimWon, ClaimVerdict
  <1>7. (\A c \in Calls : Untouched(c))'
    <2> SUFFICES ASSUME NEW c \in Calls PROVE Untouched(c)'
      OBVIOUS
    <2>1. CASE c = c0
      BY <2>1, <1>3, <1>4 DEF Untouched
    <2>2. CASE c # c0
      BY <2>2, <1>4, <1>5 DEF Untouched
    <2>3. QED
      BY <2>1, <2>2
  <1>8. ClaimAuthorized'
    BY <1>2, <1>4 DEF ClaimAuthorized, Gated, Approved
  <1>9. Gated(c0) => Approved(c0, r.args)
    BY DEF ClaimWon, ClaimAuthorized
  <1>10. ApprovedBeforeEffect'
    <2> SUFFICES ASSUME NEW c \in Calls, Gated(c)
                 PROVE  /\ \A a \in Args : effects[c][a] > 0 => Approved(c, a)
                        /\ \A v \in Workers : Executes(v, c)' => Approved(c, worker'[v].req.args)
      BY <1>4 DEF ApprovedBeforeEffect, Gated, Approved
    <2>1. QED
      BY <1>2, <1>5, <1>9 DEF ApprovedBeforeEffect
  <1>11. OneIdentity'
    <2> SUFFICES ASSUME NEW c \in Calls
                 PROVE  /\ \A a \in Args : effects[c][a] > 0 => a = calls'[c].args
                        /\ \A v \in Workers : Executes(v, c)' =>
                             /\ worker'[v].req.session = calls'[c].session
                             /\ worker'[v].req.args = calls'[c].args
      BY <1>4 DEF OneIdentity
    <2>1. CASE c # c0
      BY <2>1, <1>2, <1>4, <1>5 DEF OneIdentity
    <2>2. CASE c = c0 /\ calls[c0].status = "absent"
      BY <2>2, <1>1, <1>2, <1>4, <1>5 DEF Untouched
    <2>3. CASE c = c0 /\ calls[c0].session = r.session /\ calls[c0].args = r.args
      BY <2>3, <1>2, <1>4, <1>5 DEF OneIdentity
    <2>4. QED
      BY <2>1, <2>2, <2>3, <1>6
  <1>12. (\A c \in Calls : NonIdempotent(c) => ClaimedOnce(c))'
    <2> SUFFICES ASSUME NEW c \in Calls, NonIdempotent(c) PROVE ClaimedOnce(c)'
      BY DEF NonIdempotent
    <2>1. CASE c # c0
      <3>1. \A v \in Workers : Executes(v, c)' => Executes(v, c) /\ worker'[v] = worker[v]
        BY <2>1, <1>2, <1>5 DEF Executes, ClaimWon
      <3>2. calls'[c] = calls[c] /\ effects'[c] = effects[c]
        BY <2>1, <1>4
      <3>3. QED
        BY <3>1, <3>2 DEF ClaimedOnce
    <2>2. CASE c = c0
      <3>1. calls[c0].status \in {"absent", "waiting_approval"}
        BY <2>2, <1>1 DEF ClaimWon, ClaimVerdict, ClaimedOnce, NonIdempotent, TypeOK,
           LedgerType, Row, ToolCallStatus
      <3>2. /\ calls[c0].attempt = 0
            /\ \A a \in Args : effects[c0][a] = 0
            /\ \A v \in Workers : ~Executes(v, c0)
        BY <3>1, <1>1 DEF Untouched
      <3>3. QED
        BY <3>2, <2>2, <1>2, <1>4, <1>5 DEF ClaimedOnce
    <2>3. QED
      BY <2>1, <2>2
  <1>13. SuccessMeansEffect'
    BY <1>2, <1>4 DEF SuccessMeansEffect
  <1>14. AnsweredMeansEffect'
    BY <1>2, <1>4 DEF AnsweredMeansEffect
  <1>15. QED
    BY <1>7, <1>8, <1>10, <1>11, <1>12, <1>13, <1>14


\* The tool acts: its caller still holds the claim, so the row carries the
\* caller's identity and the approval still stands.
LEMMA HandlerEffectKeeps ==
  ASSUME IInv, TypeOK', NEW w \in Workers, HandlerEffect(w)
  PROVE  IInv'
  <1> USE DEF IInv
  <1> DEFINE r == worker[w].req
             c0 == r.call
  <1>1. c0 \in Calls /\ r.args \in Args
    BY DEF HandlerEffect, TypeOK, WorkerType, Worker, Request
  <1>2. /\ worker'[w].pc = "effected" /\ worker'[w].out = worker[w].out /\ worker'[w].req = r
        /\ \A v \in Workers : v # w => worker'[v] = worker[v]
    BY DEF HandlerEffect, TypeOK, WorkerType, Worker
  <1>3. /\ calls' = calls /\ approvals' = approvals
        /\ \A c \in Calls, a \in Args :
             effects'[c][a] = IF c = c0 /\ a = r.args THEN effects[c][a] + 1 ELSE effects[c][a]
    BY <1>1 DEF HandlerEffect, TypeOK
  <1>4. \A c \in Calls, a \in Args : effects[c][a] \in Nat
    BY DEF TypeOK
  <1>5. Executes(w, c0) /\ worker[w].pc = "handler"
    BY DEF HandlerEffect, Executes
  <1>6. \A v \in Workers : \A c \in Calls : Executes(v, c)' <=> Executes(v, c)
    BY <1>2, <1>5 DEF Executes
  <1>7. \A v \in Workers : worker'[v].req = worker[v].req
    BY <1>2
  <1>8. (\A c \in Calls : Untouched(c))'
    <2> SUFFICES ASSUME NEW c \in Calls PROVE Untouched(c)'
      OBVIOUS
    <2>1. calls[c].attempt = 0 => c # c0
      BY <1>1, <1>5 DEF Untouched
    <2>2. QED
      BY <2>1, <1>3, <1>6 DEF Untouched
  <1>9. ClaimAuthorized'
    BY <1>2, <1>3 DEF ClaimAuthorized, Gated, Approved
  <1>10. ApprovedBeforeEffect'
    <2> SUFFICES ASSUME NEW c \in Calls, Gated(c)
                 PROVE  /\ \A a \in Args : effects'[c][a] > 0 => Approved(c, a)
                        /\ \A v \in Workers : Executes(v, c)' => Approved(c, worker'[v].req.args)
      BY <1>3 DEF ApprovedBeforeEffect, Gated, Approved
    <2>1. QED
      BY <1>3, <1>5, <1>6, <1>7 DEF ApprovedBeforeEffect
  <1>11. OneIdentity'
    <2>1. r.args = calls[c0].args
      BY <1>1, <1>5 DEF OneIdentity
    <2>2. \A c \in Calls : \A a \in Args : effects'[c][a] > 0 => a = calls[c].args
      BY <2>1, <1>3 DEF OneIdentity
    <2>3. QED
      BY <2>2, <1>3, <1>6, <1>7 DEF OneIdentity
  <1>12. (\A c \in Calls : NonIdempotent(c) => ClaimedOnce(c))'
    <2> SUFFICES ASSUME NEW c \in Calls, NonIdempotent(c) PROVE ClaimedOnce(c)'
      BY DEF NonIdempotent
    <2>1. CASE c # c0
      <3>1. \A v \in Workers : Executes(v, c)' => Executes(v, c) /\ worker'[v] = worker[v]
        BY <2>1, <1>2, <1>5, <1>6 DEF Executes
      <3>2. \A a \in Args : effects'[c][a] = effects[c][a]
        BY <2>1, <1>3
      <3>3. QED
        BY <3>1, <3>2, <1>3 DEF ClaimedOnce
    <2>2. CASE c = c0
      <3>1. \A v \in Workers : Executes(v, c)' => v = w
        BY <2>2, <1>1, <1>5, <1>6 DEF ClaimedOnce
      <3>2. \A a \in Args : effects[c][a] = 0
        BY <2>2, <1>1, <1>5 DEF ClaimedOnce
      <3>3. \A a \in Args : effects'[c][a] <= 1
        BY <3>2, <2>2, <1>3
      <3>4. calls[c].status = "running" /\ calls[c].status # "failed" /\ calls[c].attempt <= 1
        BY <2>2, <1>1, <1>5 DEF ClaimedOnce
      <3>5. QED
        BY <3>1, <3>3, <3>4, <1>2, <1>3 DEF ClaimedOnce
    <2>3. QED
      BY <2>1, <2>2
  <1>13. SuccessMeansEffect'
    <2>1. \A c \in Calls, a \in Args : effects[c][a] > 0 => effects'[c][a] > 0
      BY <1>3, <1>4
    <2>2. effects'[c0][r.args] > 0
      BY <1>1, <1>3, <1>4
    <2>3. \A c \in Calls : calls[c].status = "succeeded" =>
            calls[c].args \in Args /\ effects'[c][calls[c].args] > 0
      BY <1>3, <1>4 DEF SuccessMeansEffect
    <2>4. \A v \in Workers : worker[v].pc = "effected" =>
            worker[v].req.call \in Calls /\ worker[v].req.args \in Args
      BY DEF TypeOK, WorkerType, Worker, Request
    <2>5. QED
      BY <2>1, <2>2, <2>3, <2>4, <1>2, <1>3 DEF SuccessMeansEffect
  <1>14. AnsweredMeansEffect'
    <2>1. \A v \in Workers : worker'[v].pc = "idle" => worker'[v] = worker[v]
      BY <1>2
    <2>2. \A v \in Workers : worker[v].pc = "idle" /\ worker[v].out = "ok" =>
            worker[v].req.call \in Calls /\ worker[v].req.args \in Args
      BY DEF TypeOK, WorkerType, Worker, Request
    <2>3. \A c \in Calls, a \in Args : effects[c][a] > 0 => effects'[c][a] > 0
      BY <1>3, <1>4
    <2>4. QED
      BY <2>1, <2>2, <2>3 DEF AnsweredMeansEffect
  <1>15. QED
    BY <1>8, <1>9, <1>10, <1>11, <1>12, <1>13, <1>14


\* The record of an outcome: the row of a call that is executing changes its
\* status and keeps its identity; its worker leaves execute().
LEMMA RecordKeeps ==
  ASSUME IInv, TypeOK', NEW w \in Workers, NEW c0 \in Calls, Executes(w, c0),
         NEW status \in {"succeeded", "uncertain", "failed"}, NEW result,
         NEW o \in Outcome, Return(w, o),
         calls' = [calls EXCEPT ![c0] = Recorded(@, status, result)],
         UNCHANGED <<approvals, effects>>,
         status = "failed" => ~NonIdempotent(c0),
         status = "succeeded" => worker[w].pc = "effected",
         o = "ok" => worker[w].pc = "effected"
  PROVE  IInv'
  <1> USE DEF IInv
  <1>1. /\ worker'[w].pc = "idle" /\ worker'[w].out = o /\ worker'[w].req = worker[w].req
        /\ \A v \in Workers : v # w => worker'[v] = worker[v]
    BY DEF Return, TypeOK, WorkerType, Worker
  <1>2. /\ calls'[c0].status = status /\ calls'[c0].session = calls[c0].session
        /\ calls'[c0].args = calls[c0].args /\ calls'[c0].attempt = calls[c0].attempt
        /\ \A c \in Calls : c # c0 => calls'[c] = calls[c]
        /\ effects' = effects /\ approvals' = approvals
    BY DEF Recorded, TypeOK, LedgerType, Row
  <1>3. \A v \in Workers : \A c \in Calls : Executes(v, c)' => Executes(v, c) /\ worker'[v] = worker[v]
    BY <1>1 DEF Executes
  <1>4. calls[c0].attempt # 0
    BY DEF Untouched
  <1>5. (\A c \in Calls : Untouched(c))'
    <2> SUFFICES ASSUME NEW c \in Calls PROVE Untouched(c)'
      OBVIOUS
    <2>1. CASE c = c0
      BY <2>1, <1>2, <1>4 DEF Untouched
    <2>2. CASE c # c0
      BY <2>2, <1>2, <1>3 DEF Untouched
    <2>3. QED
      BY <2>1, <2>2
  <1>6. ClaimAuthorized'
    BY <1>1, <1>2 DEF ClaimAuthorized, Gated, Approved
  <1>7. ApprovedBeforeEffect'
    BY <1>2, <1>3 DEF ApprovedBeforeEffect, Gated, Approved
  <1>8. OneIdentity'
    BY <1>2, <1>3 DEF OneIdentity
  <1>9. (\A c \in Calls : NonIdempotent(c) => ClaimedOnce(c))'
    <2> SUFFICES ASSUME NEW c \in Calls, NonIdempotent(c) PROVE ClaimedOnce(c)'
      BY DEF NonIdempotent
    <2>1. CASE c # c0
      BY <2>1, <1>2, <1>3 DEF ClaimedOnce
    <2>2. CASE c = c0
      <3>1. \A v \in Workers : Executes(v, c0) => v = w
        BY <2>2 DEF ClaimedOnce
      <3>2. \A v \in Workers : ~Executes(v, c0)'
        BY <3>1, <1>1 DEF Executes
      <3>3. QED
        BY <3>2, <2>2, <1>2 DEF ClaimedOnce
    <2>3. QED
      BY <2>1, <2>2
  <1>10. worker[w].pc = "effected" =>
           /\ worker[w].req.args \in Args /\ worker[w].req.args = calls[c0].args
           /\ worker[w].req.call = c0 /\ effects[c0][worker[w].req.args] > 0
    BY DEF SuccessMeansEffect, OneIdentity, Executes, TypeOK, WorkerType, Worker, Request
  <1>11. SuccessMeansEffect'
    <2>1. \A c \in Calls : calls'[c].status = "succeeded" =>
            calls'[c].args \in Args /\ effects[c][calls'[c].args] > 0
      BY <1>2, <1>10 DEF SuccessMeansEffect
    <2>2. \A v \in Workers : worker'[v].pc = "effected" => worker'[v] = worker[v]
      BY <1>1
    <2>3. QED
      BY <2>1, <2>2, <1>2 DEF SuccessMeansEffect
  <1>12. AnsweredMeansEffect'
    BY <1>1, <1>2, <1>10 DEF AnsweredMeansEffect
  <1>13. QED
    BY <1>5, <1>6, <1>7, <1>8, <1>9, <1>11, <1>12

\* Every step keeps the inductive invariant.
LEMMA NextInvariant == IInv /\ [Next]_vars => IInv'
  <1> SUFFICES ASSUME IInv, [Next]_vars PROVE IInv'
    OBVIOUS
  <1> USE DEF IInv
  <1>0. TypeOK'
    BY NextType
  <1>1. ASSUME NEW w \in Workers, NEW r \in Request, Execute(w, r) PROVE IInv'
    <2>1. AuthVerdict(r) # "granted" => AuthVerdict(r) \in Outcome \ {"ok"}
      BY DEF AuthVerdict, Outcome
    <2>2. CASE AuthVerdict(r) = "granted"
      BY <1>0, <1>1, <2>2, AuthorizationKeeps DEF Execute, Outcome
    <2>3. CASE AuthVerdict(r) # "granted"
      BY <1>0, <1>1, <2>1, <2>3, AuthorizationKeeps DEF Execute
    <2>4. QED
      BY <2>2, <2>3
  <1>2. ASSUME NEW w \in Workers, NEW r \in Request, AuthorizationStatus(w, r) PROVE IInv'
    <2>1. worker[w].pc = "idle" /\ RequestApproval(r) /\ UNCHANGED <<worker, effects>>
      BY <1>2 DEF AuthorizationStatus
    <2>2. "idle" \in {"idle", "claim"} /\ "none" \in Outcome \ {"ok"}
      BY DEF Outcome
    <2>3. QED
      BY <1>0, <2>1, <2>2, AuthorizationKeeps
  <1>3. ASSUME NEW w \in Workers, ClaimWon(w) PROVE IInv'
    BY <1>0, <1>3, ClaimWonKeeps
  <1>4. ASSUME NEW w \in Workers, ClaimLost(w) PROVE IInv'
    <2> DEFINE r == worker[w].req
    <2>1. worker[w].pc # "idle" /\ r.call \in Calls
      BY <1>4 DEF ClaimLost, TypeOK, WorkerType, Worker, Request
    <2>2. CASE ClaimVerdict(r) = "replay"
      <3>1. calls[r.call].status = "succeeded" /\ calls[r.call].args = r.args
        BY <2>2 DEF ClaimVerdict
      <3>2. effects[r.call][r.args] > 0
        BY <3>1, <2>1 DEF SuccessMeansEffect
      <3>3. QED
        BY <1>4, <2>1, <2>2, <3>2, ReturnKeeps DEF ClaimLost, Outcome
    <2>3. CASE ClaimVerdict(r) # "replay"
      <3>1. ClaimVerdict(r) \in Outcome \ {"ok"}
        BY <1>4, <2>3 DEF ClaimLost, ClaimVerdict, Outcome
      <3>2. QED
        BY <1>4, <2>1, <2>3, <3>1, ReturnKeeps DEF ClaimLost
    <2>4. QED
      BY <2>2, <2>3
  <1>5. ASSUME NEW w \in Workers, HandlerEffect(w) PROVE IInv'
    BY <1>0, <1>5, HandlerEffectKeeps
  <1>6. ASSUME NEW w \in Workers, RecordSuccess(w) PROVE IInv'
    <2>1. worker[w].req.call \in Calls /\ Executes(w, worker[w].req.call)
      BY <1>6 DEF RecordSuccess, TypeOK, WorkerType, Worker, Request, Executes
    <2>2. QED
      BY <1>0, <1>6, <2>1, RecordKeeps DEF RecordSuccess, Outcome
  <1>7. ASSUME NEW w \in Workers, RecordFailure(w) PROVE IInv'
    <2>1. worker[w].req.call \in Calls /\ Executes(w, worker[w].req.call)
      BY <1>7 DEF RecordFailure, TypeOK, WorkerType, Worker, Request, Executes
    <2>2. /\ FailureStatus(worker[w].req.call) \in {"uncertain", "failed"}
          /\ FailureStatus(worker[w].req.call) = "failed" => ~NonIdempotent(worker[w].req.call)
      BY DEF FailureStatus
    <2>3. QED
      BY <1>0, <1>7, <2>1, <2>2, RecordKeeps DEF RecordFailure, Outcome
  <1>8. ASSUME NEW w \in Workers, Abandon(w) PROVE IInv'
    BY <1>8, ReturnKeeps DEF Abandon, Outcome
  <1>9. ASSUME NEW c0 \in Calls, NEW verdict \in {"approved", "rejected"}, Decide(c0, verdict)
        PROVE  IInv'
    <2>1. \A c \in Calls : approvals[c].status = "approved" => approvals'[c] = approvals[c]
      BY <1>9 DEF Decide, TypeOK
    <2>2. (\A c \in Calls : Untouched(c))' /\ (\A c \in Calls : NonIdempotent(c) => ClaimedOnce(c))'
      BY <1>9 DEF Decide, Untouched, ClaimedOnce, Executes
    <2>3. ClaimAuthorized'
      <3>1. \A w \in Workers : worker[w].pc = "claim" => worker[w].req.call \in Calls
        BY DEF TypeOK, WorkerType, Worker, Request
      <3>2. QED
        BY <1>9, <2>1, <3>1 DEF Decide, ClaimAuthorized, Approved, Gated
    <2>4. ApprovedBeforeEffect'
      BY <1>9, <2>1 DEF Decide, ApprovedBeforeEffect, Approved, Gated, Executes
    <2>5. (OneIdentity /\ SuccessMeansEffect /\ AnsweredMeansEffect)'
      BY <1>9 DEF Decide, OneIdentity, SuccessMeansEffect, AnsweredMeansEffect, Executes
    <2>6. QED
      BY <1>0, <2>2, <2>3, <2>4, <2>5
  <1>10. ASSUME NEW c0 \in Calls, LeaseExpires(c0) PROVE IInv'
    <2>1. \A c \in Calls : /\ calls'[c].status = calls[c].status
                           /\ calls'[c].attempt = calls[c].attempt
                           /\ calls'[c].args = calls[c].args
                           /\ calls'[c].session = calls[c].session
      BY <1>10 DEF LeaseExpires, TypeOK, LedgerType, Row
    <2>2. (\A c \in Calls : Untouched(c))'
      BY <1>10, <2>1 DEF LeaseExpires, Untouched, Executes
    <2>3. (\A c \in Calls : NonIdempotent(c) => ClaimedOnce(c))'
      BY <1>10, <2>1 DEF LeaseExpires, ClaimedOnce, Executes, NonIdempotent
    <2>4. (ClaimAuthorized /\ ApprovedBeforeEffect /\ AnsweredMeansEffect)'
      BY <1>10 DEF LeaseExpires, ClaimAuthorized, ApprovedBeforeEffect, AnsweredMeansEffect,
         Approved, Gated, Executes
    <2>5. (OneIdentity /\ SuccessMeansEffect)'
      BY <1>10, <2>1 DEF LeaseExpires, OneIdentity, SuccessMeansEffect, Executes
    <2>6. QED
      BY <1>0, <2>2, <2>3, <2>4, <2>5
  <1>11. CASE UNCHANGED vars
    BY <1>0, <1>11 DEF vars, Untouched, ClaimAuthorized, ApprovedBeforeEffect, OneIdentity,
       ClaimedOnce, SuccessMeansEffect, AnsweredMeansEffect, Executes, Approved, Gated
  <1>12. QED
    BY <1>1, <1>2, <1>3, <1>4, <1>5, <1>6, <1>7, <1>8, <1>9, <1>10, <1>11 DEF Next, WorkerStep


-----------------------------------------------------------------------------
(* Theorems *)

\* The strengthening holds in every reachable state.
THEOREM Inductive == Spec => []IInv
  BY InitInvariant, NextInvariant, PTL DEF Spec

\* At most one effect of a non-idempotent call: its row is claimed once, and a
\* claim lets the tool act once.
THEOREM NeverTwice == Spec => []AtMostOnce
  <1>1. IInv => AtMostOnce
    <2> SUFFICES ASSUME IInv, NEW c \in Calls, NonIdempotent(c),
                        NEW a \in Args, NEW b \in Args, effects[c][a] > 0, effects[c][b] > 0
                 PROVE  a = b /\ effects[c][a] = 1
      BY DEF AtMostOnce
    <2>1. a = calls[c].args /\ b = calls[c].args
      BY DEF IInv, OneIdentity
    <2>2. effects[c][a] \in Nat /\ effects[c][a] <= 1
      BY DEF IInv, ClaimedOnce, TypeOK
    <2>3. QED
      BY <2>1, <2>2
  <1>2. QED
    BY <1>1, Inductive, PTL

\* No effect of a gated call without the approval of its very arguments.
THEOREM ApprovalFirst == Spec => []ApprovedBeforeEffect
  <1>1. IInv => ApprovedBeforeEffect
    BY DEF IInv
  <1>2. QED
    BY <1>1, Inductive, PTL

\* One session and one argument object per call id.
THEOREM CallIdentity == Spec => []OneIdentity
  <1>1. IInv => OneIdentity
    BY DEF IInv
  <1>2. QED
    BY <1>1, Inductive, PTL

\* No answer without an effect.
THEOREM AnswersAreReal == Spec => []AnsweredMeansEffect
  <1>1. IInv => AnsweredMeansEffect
    BY DEF IInv
  <1>2. QED
    BY <1>1, Inductive, PTL

\* The row of a non-idempotent call that succeeded or became uncertain is final.
THEOREM RowIsFinal == Spec => SettledForGood
  <1> DEFINE Final(c) == NonIdempotent(c) /\ calls[c].status \in {"succeeded", "uncertain"}
             Keeps == \A c \in Calls : Final(c) => calls'[c] = calls[c]
  <1>1. IInv /\ [Next]_vars => Keeps
    <2> SUFFICES ASSUME IInv, [Next]_vars, NEW c \in Calls, Final(c)
                 PROVE  calls'[c] = calls[c]
      OBVIOUS
    <2>1. \A w \in Workers : ~Executes(w, c)
      BY DEF IInv, ClaimedOnce
    <2>2. calls[c].lease # "live"
      BY DEF IInv, TypeOK, LedgerType, Row
    <2>3. \A r \in Request : RequestApproval(r) => calls'[c] = calls[c]
      <3> SUFFICES ASSUME NEW r \in Request, RequestApproval(r) PROVE calls'[c] = calls[c]
        OBVIOUS
      <3>1. CASE UNCHANGED <<approvals, calls>>
        BY <3>1
      <3>2. CASE calls' = [calls EXCEPT ![r.call] =
                             IF @.status = "absent"
                             THEN [NoRow EXCEPT !.status = "waiting_approval",
                                                !.session = r.session, !.args = r.args]
                             ELSE @]
        BY <3>2 DEF IInv, TypeOK, LedgerType
      <3>3. QED
        BY <3>1, <3>2 DEF RequestApproval
    <2>4. ASSUME NEW w \in Workers, ClaimWon(w) PROVE calls'[c] = calls[c]
      <3>1. worker[w].req.call # c
        BY <2>4 DEF ClaimWon, ClaimVerdict
      <3>2. QED
        BY <2>4, <3>1 DEF ClaimWon, IInv, TypeOK, LedgerType
    <2>5. ASSUME NEW w \in Workers, RecordSuccess(w) \/ RecordFailure(w)
          PROVE  calls'[c] = calls[c]
      <3>1. worker[w].req.call # c
        BY <2>1, <2>5 DEF RecordSuccess, RecordFailure, Executes
      <3>2. QED
        BY <2>5, <3>1 DEF RecordSuccess, RecordFailure, IInv, TypeOK, LedgerType
    <2>6. ASSUME NEW d \in Calls, LeaseExpires(d) PROVE calls'[c] = calls[c]
      BY <2>2, <2>6 DEF LeaseExpires, IInv, TypeOK, LedgerType
    <2>7. QED
      BY <2>3, <2>4, <2>5, <2>6 DEF Next, WorkerStep, Execute, AuthorizationStatus, ClaimLost,
         HandlerEffect, Abandon, Decide, vars
  <1>2. QED
    BY <1>1, Inductive, PTL DEF Spec, SettledForGood

-----------------------------------------------------------------------------
(* The ledger is ahead of the world *)

\* The workers that claimed call c and whose tool has not acted yet.
AboutTo(c) == {w \in Workers : worker[w].pc = "handler" /\ worker[w].req.call = c}

\* Every claim pays for one effect, made or still to come.
PaidFor(c) ==
  /\ IsFiniteSet(AboutTo(c))
  /\ \A a \in Args : effects[c][a] + Cardinality(AboutTo(c)) <= calls[c].attempt

\* A step on which nobody claims and nothing acts.
LEMMA PaidStays ==
  ASSUME TypeOK, NEW c \in Calls, PaidFor(c), AboutTo(c)' \subseteq AboutTo(c),
         effects'[c] = effects[c], calls'[c].attempt = calls[c].attempt
  PROVE  PaidFor(c)'
  <1>1. AboutTo(c)' \in SUBSET AboutTo(c) /\ IsFiniteSet(AboutTo(c))
    BY DEF PaidFor
  <1>2. /\ IsFiniteSet(AboutTo(c)')
        /\ Cardinality(AboutTo(c)') <= Cardinality(AboutTo(c))
        /\ Cardinality(AboutTo(c)') \in Nat /\ Cardinality(AboutTo(c)) \in Nat
    BY <1>1, FS_Subset, FS_CardinalityType
  <1>3. calls[c].attempt \in Nat /\ \A a \in Args : effects[c][a] \in Nat
    BY DEF TypeOK, LedgerType, Row
  <1>4. QED
    BY <1>2, <1>3 DEF PaidFor

\* An authorization inserts a row that was not claimed.
LEMMA AuthorizationClaimsNothing ==
  ASSUME IInv, NEW r \in Request, RequestApproval(r), NEW c \in Calls
  PROVE  calls'[c].attempt = calls[c].attempt
  <1>1. TypeOK /\ Untouched(c) /\ r.call \in Calls
    BY DEF IInv, Request
  <1>2. CASE UNCHANGED calls
    BY <1>2
  <1>3. CASE calls' = [calls EXCEPT ![r.call] =
                         IF @.status = "absent"
                         THEN [NoRow EXCEPT !.status = "waiting_approval",
                                            !.session = r.session, !.args = r.args]
                         ELSE @]
    BY <1>1, <1>3 DEF Untouched, NoRow, TypeOK, LedgerType
  <1>4. QED
    BY <1>2, <1>3 DEF RequestApproval

LEMMA ClaimPays ==
  ASSUME IInv, NEW w \in Workers, ClaimWon(w), NEW c \in Calls, PaidFor(c)
  PROVE  PaidFor(c)'
  <1> DEFINE d == worker[w].req.call
  <1>1. /\ TypeOK /\ d \in Calls /\ effects' = effects
        /\ worker[w].pc = "claim"
        /\ worker' = [worker EXCEPT ![w].pc = "handler", ![w].attempt = Claimed(worker[w].req).attempt]
        /\ calls' = [calls EXCEPT ![d] = Claimed(worker[w].req)]
    BY DEF ClaimWon, IInv, TypeOK, WorkerType, Worker, Request
  <1>2. \A v \in Workers : /\ worker'[v].req = worker[v].req
                           /\ worker'[v].pc = IF v = w THEN "handler" ELSE worker[v].pc
    BY <1>1 DEF TypeOK, WorkerType, Worker
  <1>3. CASE c # d
    <2>1. calls'[c].attempt = calls[c].attempt /\ effects'[c] = effects[c]
      BY <1>1, <1>3 DEF TypeOK, LedgerType
    <2>2. AboutTo(c)' \subseteq AboutTo(c)
      BY <1>2, <1>3 DEF AboutTo
    <2>3. QED
      BY <1>1, <2>1, <2>2, PaidStays
  <1>4. CASE c = d
    <2>1. calls'[c].attempt = calls[c].attempt + 1
      BY <1>1, <1>4 DEF Claimed, NextAttempt, TypeOK, LedgerType
    <2>2. AboutTo(c)' = AboutTo(c) \cup {w} /\ w \notin AboutTo(c)
      BY <1>1, <1>2, <1>4 DEF AboutTo
    <2>3. /\ IsFiniteSet(AboutTo(c)')
          /\ Cardinality(AboutTo(c)') = Cardinality(AboutTo(c)) + 1
          /\ Cardinality(AboutTo(c)) \in Nat
      BY <2>2, FS_AddElement, FS_CardinalityType DEF PaidFor
    <2>4. calls[c].attempt \in Nat /\ \A a \in Args : effects[c][a] \in Nat
      BY <1>1 DEF TypeOK, LedgerType, Row
    <2>5. QED
      BY <1>1, <2>1, <2>3, <2>4 DEF PaidFor
  <1>5. QED
    BY <1>3, <1>4

LEMMA EffectWasPaid ==
  ASSUME IInv, NEW w \in Workers, HandlerEffect(w), NEW c \in Calls, PaidFor(c)
  PROVE  PaidFor(c)'
  <1> DEFINE d == worker[w].req.call
             b == worker[w].req.args
  <1>1. /\ TypeOK /\ d \in Calls /\ b \in Args /\ calls' = calls
        /\ worker[w].pc = "handler"
        /\ worker' = [worker EXCEPT ![w].pc = "effected"]
        /\ effects' = [effects EXCEPT ![d][b] = @ + 1]
    BY DEF HandlerEffect, IInv, TypeOK, WorkerType, Worker, Request
  <1>2. \A v \in Workers : /\ worker'[v].req = worker[v].req
                           /\ worker'[v].pc = IF v = w THEN "effected" ELSE worker[v].pc
    BY <1>1 DEF TypeOK, WorkerType, Worker
  <1>3. CASE c # d
    <2>1. effects'[c] = effects[c]
      BY <1>1, <1>3 DEF TypeOK
    <2>2. AboutTo(c)' \subseteq AboutTo(c)
      BY <1>2 DEF AboutTo
    <2>3. QED
      BY <1>1, <2>1, <2>2, PaidStays
  <1>4. CASE c = d
    <2>1. AboutTo(c)' = AboutTo(c) \ {w} /\ w \in AboutTo(c)
      BY <1>1, <1>2, <1>4 DEF AboutTo
    <2>2. /\ IsFiniteSet(AboutTo(c)')
          /\ Cardinality(AboutTo(c)') = Cardinality(AboutTo(c)) - 1
          /\ Cardinality(AboutTo(c)) \in Nat
      BY <2>1, FS_RemoveElement, FS_CardinalityType DEF PaidFor
    <2>3. \A a \in Args : /\ effects[c][a] \in Nat
                          /\ effects'[c][a] \in {effects[c][a], effects[c][a] + 1}
      BY <1>1, <1>4 DEF TypeOK
    <2>4. calls[c].attempt \in Nat
      BY <1>1 DEF TypeOK, LedgerType, Row
    <2>5. ASSUME NEW a \in Args
          PROVE  effects'[c][a] + Cardinality(AboutTo(c)') <= calls[c].attempt
      <3>1. effects[c][a] + Cardinality(AboutTo(c)) <= calls[c].attempt
        BY DEF PaidFor
      <3>2. QED
        BY <2>2, <2>3, <2>4, <3>1
    <2>6. QED
      BY <1>1, <2>2, <2>5 DEF PaidFor
  <1>5. QED
    BY <1>3, <1>4

LEMMA NextPaid ==
  ASSUME IInv, [Next]_vars, NEW c \in Calls, PaidFor(c)
  PROVE  PaidFor(c)'
  <1>0. TypeOK
    BY DEF IInv
  <1>1. ASSUME NEW w \in Workers, NEW r \in Request, Execute(w, r) PROVE PaidFor(c)'
    <2>1. AboutTo(c)' \subseteq AboutTo(c)
      BY <1>0, <1>1 DEF Execute, AboutTo, TypeOK, WorkerType
    <2>2. calls'[c].attempt = calls[c].attempt /\ effects'[c] = effects[c]
      BY <1>1, AuthorizationClaimsNothing DEF Execute
    <2>3. QED
      BY <1>0, <2>1, <2>2, PaidStays
  <1>2. ASSUME NEW w \in Workers, NEW r \in Request, AuthorizationStatus(w, r)
        PROVE  PaidFor(c)'
    <2>1. AboutTo(c)' \subseteq AboutTo(c)
      BY <1>2 DEF AuthorizationStatus, AboutTo
    <2>2. calls'[c].attempt = calls[c].attempt /\ effects'[c] = effects[c]
      BY <1>2, AuthorizationClaimsNothing DEF AuthorizationStatus
    <2>3. QED
      BY <1>0, <2>1, <2>2, PaidStays
  <1>3. ASSUME NEW w \in Workers, ClaimLost(w) \/ Abandon(w) PROVE PaidFor(c)'
    <2>1. AboutTo(c)' \subseteq AboutTo(c) /\ UNCHANGED <<calls, effects>>
      BY <1>0, <1>3 DEF ClaimLost, Abandon, Return, AboutTo, TypeOK, WorkerType, Worker
    <2>2. QED
      BY <1>0, <2>1, PaidStays
  <1>4. ASSUME NEW w \in Workers, RecordSuccess(w) \/ RecordFailure(w) PROVE PaidFor(c)'
    <2>1. AboutTo(c)' \subseteq AboutTo(c) /\ UNCHANGED effects
      BY <1>0, <1>4 DEF RecordSuccess, RecordFailure, Return, AboutTo, TypeOK, WorkerType, Worker
    <2>2. calls'[c].attempt = calls[c].attempt
      <3> DEFINE d == worker[w].req.call
      <3>1. PICK status, result : calls' = [calls EXCEPT ![d] = Recorded(@, status, result)]
        BY <1>4 DEF RecordSuccess, RecordFailure
      <3>2. calls[c] \in Row /\ d \in Calls
        BY <1>0, <1>4 DEF RecordSuccess, RecordFailure, TypeOK, LedgerType, WorkerType, Worker, Request
      <3>3. Recorded(calls[c], status, result).attempt = calls[c].attempt
        BY <3>2 DEF Recorded, Row
      <3>4. calls'[c] \in {calls[c], Recorded(calls[c], status, result)}
        BY <1>0, <3>1, <3>2 DEF TypeOK, LedgerType
      <3>5. QED
        BY <3>3, <3>4
    <2>3. QED
      BY <1>0, <2>1, <2>2, PaidStays
  <1>5. ASSUME NEW d \in Calls, LeaseExpires(d) PROVE PaidFor(c)'
    <2>1. calls'[c].attempt = calls[c].attempt
      BY <1>0, <1>5 DEF LeaseExpires, TypeOK, LedgerType, Row
    <2>2. AboutTo(c)' \subseteq AboutTo(c) /\ UNCHANGED effects
      BY <1>5 DEF LeaseExpires, AboutTo
    <2>3. QED
      BY <1>0, <2>1, <2>2, PaidStays
  <1>6. CASE UNCHANGED <<calls, worker, effects>>
    BY <1>0, <1>6, PaidStays DEF AboutTo
  <1>7. QED
    BY <1>1, <1>2, <1>3, <1>4, <1>5, <1>6, ClaimPays, EffectWasPaid
       DEF Next, WorkerStep, Decide, vars

\* No effect without a claim committed for it before: repeating an idempotent call is
\* counted, too, however many workers are between their claim and their effect.
THEOREM LedgerAhead == Spec => []WriteAhead
  <1> DEFINE Paid == \A c \in Calls : PaidFor(c)
  <1>1. Init => Paid
    <2> SUFFICES ASSUME Init, NEW c \in Calls PROVE PaidFor(c)
      OBVIOUS
    <2>1. AboutTo(c) = {}
      BY DEF Init, AboutTo
    <2>2. QED
      BY <2>1, FS_EmptySet DEF Init, PaidFor, NoRow
  <1>2. IInv /\ Paid /\ [Next]_vars => Paid'
    BY NextPaid
  <1>3. IInv /\ Paid => WriteAhead
    <2> SUFFICES ASSUME IInv, NEW c \in Calls, PaidFor(c), NEW a \in Args
                 PROVE  effects[c][a] <= calls[c].attempt
      BY DEF WriteAhead
    <2>1. effects[c][a] \in Nat /\ calls[c].attempt \in Nat
      BY DEF IInv, TypeOK, LedgerType, Row
    <2>2. Cardinality(AboutTo(c)) \in Nat
      BY FS_CardinalityType DEF PaidFor
    <2>3. QED
      BY <2>1, <2>2 DEF PaidFor
  <1>4. QED
    BY Inductive, <1>1, <1>2, <1>3, PTL DEF Spec
=============================================================================
