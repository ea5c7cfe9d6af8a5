--------------------------- MODULE MCContextPack ---------------------------
(* Lengths at the boundaries of the packing for TLC. *)
EXTENDS ContextPack

\* The constraints are a fixed text of 133 characters; a JSON list has two at least;
\* the summary may be missing.
MCTexts ==
  {<<133, task, outputs, index, trace, summary>> :
     task \in {150, 1200}, outputs \in {2, 118, 121, 600}, index \in {2, 300},
     trace \in {2, 500, 501, 1500}, summary \in {0, 90, 700}}
=============================================================================
