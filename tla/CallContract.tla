---------------------------- MODULE CallContract ----------------------------
(***************************************************************************)
(* What the harness promises of a tool call that must not be repeated,     *)
(* whoever makes it and whatever fails: somebody agrees to it first if its *)
(* risk asks for that, its arguments never change, it is started once, it  *)
(* acts once at most, and it ends as done, which it is only after it       *)
(* acted, or as doubtful, which nobody resolves by trying again.  Workers, *)
(* leases, retries and crashes do not appear: ToolGateway implements this. *)
(***************************************************************************)
EXTENDS Naturals

CONSTANTS
  Calls,          \* calls that must not be repeated
  NeedsApproval,  \* those somebody has to agree to
  Args,           \* argument objects
  None            \* no arguments yet

VARIABLES
  phase,  \* how far each call is
  terms,  \* its arguments
  acts    \* times it acted, per argument object

vars == <<phase, terms, acts>>

Init ==
  /\ phase = [c \in Calls |-> "new"]
  /\ terms = [c \in Calls |-> None]
  /\ acts = [c \in Calls |-> [a \in Args |-> 0]]

Moves(c, from, to) == phase[c] = from /\ phase' = [phase EXCEPT ![c] = to]

\* A call that needs an approval is put to the reviewer with its arguments.
Propose(c, a) ==
  /\ c \in NeedsApproval
  /\ Moves(c, "new", "proposed")
  /\ terms' = [terms EXCEPT ![c] = a]
  /\ UNCHANGED acts

Answer(c) ==
  /\ \E answer \in {"agreed", "refused"} : Moves(c, "proposed", answer)
  /\ UNCHANGED <<terms, acts>>

\* The call is started, on the terms agreed to if there are any.
Start(c, a) ==
  /\ Moves(c, IF c \in NeedsApproval THEN "agreed" ELSE "new", "started")
  /\ c \in NeedsApproval => terms[c] = a
  /\ terms' = [terms EXCEPT ![c] = a]
  /\ UNCHANGED acts

Act(c, a) ==
  /\ phase[c] = "started"
  /\ terms[c] = a
  /\ acts[c][a] = 0
  /\ acts' = [acts EXCEPT ![c][a] = 1]
  /\ UNCHANGED <<phase, terms>>

Succeed(c, a) ==
  /\ Moves(c, "started", "done")
  /\ terms[c] = a
  /\ acts[c][a] = 1
  /\ UNCHANGED <<terms, acts>>

Doubt(c) ==
  /\ Moves(c, "started", "doubtful")
  /\ UNCHANGED <<terms, acts>>

Next ==
  \E c \in Calls :
    \/ Answer(c)
    \/ Doubt(c)
    \/ \E a \in Args : Propose(c, a) \/ Start(c, a) \/ Act(c, a) \/ Succeed(c, a)

Spec == Init /\ [][Next]_vars
=============================================================================
