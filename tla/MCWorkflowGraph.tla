-------------------------- MODULE MCWorkflowGraph --------------------------
(* Small instances of WorkflowGraph for TLC. *)
EXTENDS WorkflowGraph

CONSTANTS g1, o1, o2, send, search

\* A chain: task 2 waits for task 1.
MCDeps == [t \in Tasks |-> {d \in Tasks : d < t}]
MCRank == [t \in Tasks |-> t]

MCCalls == [task: Tasks, step: Steps, tool: Tools]
MCTaskOf == [c \in Calls |-> c.task]
MCArtifacts == [t \in Tasks |-> {<<>>}]

\* search only reads; send must not be repeated.
MCRiskOf == [x \in Tools |-> IF x = search THEN "read_only" ELSE "non_idempotent_write"]
=============================================================================
