----------------------------- MODULE MCHarness -----------------------------
(* Small instances of Harness for TLC. *)
EXTENDS Harness, TLC

CONSTANTS w1, w2, o1, o2, send, label

\* Task 2 waits for task 1.
MCDeps == [t \in Tasks |-> {d \in Tasks : d < t}]
MCArtifacts == [t \in Tasks |-> {<<>>}]

\* send is gated and cannot be repeated, label sets an exact value.
MCRiskOf == [x \in Tools |-> IF x = send THEN "non_idempotent_write" ELSE "idempotent_write"]

Answer(text) == [calls |-> <<>>, text |-> text]
Calling(tools) == [calls |-> tools, text |-> None]

\* The model of task 1 labels and sends in its first turn, or answers; then it labels
\* again, or answers.  The model of task 2 answers at once.
MCTurns ==
  [t \in Tasks |-> [n \in Steps |->
     IF t = 2 THEN {Answer(o1)}
     ELSE IF n = 0 THEN {Answer(o1), Calling(<<label, send>>)}
     ELSE {Answer(o1), Calling(<<label>>)}]]

\* The call ids that can come up.
MCCalls == {CallId(1, 0, Calling(<<label, send>>), i) : i \in {1, 2}}
             \cup {CallId(1, 1, Calling(<<label>>), 1)}
MCTaskOf == [c \in Calls |-> c.task]
MCOutputs == [text: Texts, steps: 1..MaxSteps]
=============================================================================
