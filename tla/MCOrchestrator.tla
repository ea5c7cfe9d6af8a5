--------------------------- MODULE MCOrchestrator ---------------------------
(* Small instances of Orchestrator for TLC. *)
EXTENDS Orchestrator, TLC

CONSTANTS w1, w2, c1, c2, o1, o2, a1, a2

\* Task 2 waits for task 1; task 3, where there is one, for both.
MCDeps == [t \in Tasks |-> {d \in Tasks : d < t}]

\* A fork: tasks 2 and 3 wait for task 1 only.
MCFork == [t \in Tasks |-> {1} \ {t}]

\* All calls belong to task 1.
MCTaskOf == [c \in Calls |-> 1]
MCScript == [t \in Tasks |-> IF t # 1 THEN <<>> ELSE IF c2 \in Calls THEN <<c1, c2>> ELSE
             IF c1 \in Calls THEN <<c1>> ELSE <<>>]

\* Task 1 leaves the id of its first artifact to the store and may name a second one
\* itself; tasks 2 and 3 may hand over the same id, one of them with more to come.
MCArtifacts ==
  [t \in Tasks |-> CASE t = 1 -> {<<None>>, <<None, a1>>}
                     [] t = 2 -> {<<>>, <<a2, None>>}
                     [] OTHER -> {<<a2>>}]
MCNoArtifacts == [t \in Tasks |-> {<<>>}]

MCSymmetry == Permutations(Workers) \cup Permutations(Outputs)
=============================================================================
