--------------------------- MODULE MCToolGateway ---------------------------
(* Small instances of ToolGateway for TLC. *)
EXTENDS ToolGateway, TLC

CONSTANTS w1, w2, c1, c2, s1, s2, a1, a2

\* c1 names a non-idempotent tool, c2 an idempotent write.
MCRiskOf == [c \in Calls |-> IF c = c1 THEN "non_idempotent_write" ELSE "idempotent_write"]

\* Workers, sessions and argument objects are interchangeable.
MCSymmetry == Permutations(Workers) \cup Permutations(Sessions) \cup Permutations(Args)
=============================================================================
