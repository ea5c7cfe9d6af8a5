---------------------------- MODULE ContextPack ----------------------------
(***************************************************************************)
(* ContextAssembler (context.py): the layers of a prompt are packed into a *)
(* token budget, one layer per step of the loop of pack().  The LangGraph  *)
(* runtime first compares the raw size with the budget and packs only when *)
(* it has to; the orchestrator always packs.                               *)
(*                                                                         *)
(* Abstractions.  A layer is its number of characters: a text has no other *)
(* property here.  build_layers lists the layers by descending priority,   *)
(* so sorting them changes nothing.                                        *)
(***************************************************************************)
EXTENDS Integers

CONSTANTS
  Budgets,     \* budget_tokens of an assembler
  Texts,       \* inputs: the length of each layer's text
  Summarized,  \* lengths a caller's own summarizer may answer with
  NotSelected  \* a layer without text in the result

\* The layers, by their place in build_layers: system constraints, current task,
\* dependency outputs, artifact index, recent trace, historical summary.
Layer == 1..6

\* The layers pack() takes whatever they cost.
Required == {1, 2}

ASSUME ContextAssumption ==
  /\ Budgets \subseteq Nat
  /\ Texts \subseteq [Layer -> Nat]
  /\ Summarized \subseteq Nat
  /\ NotSelected \notin Nat

VARIABLES
  budget,    \* budget_tokens
  text,      \* length of each layer
  pc,        \* "route" in the graph, "pack" in the loop, "done"
  next,      \* layer the loop looks at
  selected,  \* length of what each layer contributes
  used,      \* estimated_tokens
  omitted    \* layers left out

vars == <<budget, text, pc, next, selected, used, omitted>>

\* Mutant: the division rounds down, to nothing for a short text.
EstimateRoundsDown(n) == n \div 3

\* estimate_tokens: three characters a token, rounded up, and one token at least.
Estimate(n) == IF n = 0 THEN 1 ELSE (n + 2) \div 3

\* _fallback_summary: a head of 350 characters, " ... ", a tail of 100.
FallbackSummary(n) == IF n <= 500 THEN n ELSE 453

Init ==
  /\ budget \in Budgets
  /\ text \in Texts
  /\ pc \in {"route", "pack"}
  /\ next = 1
  /\ selected = [l \in Layer |-> NotSelected]
  /\ used = 0
  /\ omitted = {}

-----------------------------------------------------------------------------
(* The graph's choice *)

\* The sum over the layers.
Total(f) == f[1] + f[2] + f[3] + f[4] + f[5] + f[6]

\* raw_context_tokens: an empty layer counts for one token.
RawTokens == Total([l \in Layer |-> Estimate(text[l])])

\* route_context
OverBudget == RawTokens > budget

Compact ==
  /\ pc = "route"
  /\ OverBudget
  /\ pc' = "pack"
  /\ UNCHANGED <<budget, text, next, selected, used, omitted>>

\* assemble_context: every layer with text, whole.
Assemble ==
  /\ pc = "route"
  /\ ~OverBudget
  /\ pc' = "done"
  /\ selected' = [l \in Layer |-> IF text[l] = 0 THEN NotSelected ELSE text[l]]
  /\ used' = RawTokens
  /\ UNCHANGED <<budget, text, next, omitted>>

-----------------------------------------------------------------------------
(* The loop of pack() *)

\* The loop goes on with the next layer.
Forward ==
  /\ pc = "pack"
  /\ next' = next + 1
  /\ pc' = IF next = 6 THEN "done" ELSE "pack"
  /\ UNCHANGED <<budget, text>>

\* Mutant: a layer is charged at its full length, cut or not.
ContributeAtFullCost(n) ==
  /\ selected' = [selected EXCEPT ![next] = n]
  /\ used' = used + Estimate(text[next])
  /\ UNCHANGED omitted

\* n characters of the layer go into the result.
Contribute(n) ==
  /\ selected' = [selected EXCEPT ![next] = n]
  /\ used' = used + Estimate(n)
  /\ UNCHANGED omitted

\* Mutant: a layer that is as large as what is left does not fit.
FitsStrictly == used + Estimate(text[next]) < budget \/ next \in Required

\* The layer is taken whole: it fits, or it is required.
Fits == used + Estimate(text[next]) <= budget \/ next \in Required

Remaining == budget - used

SkipEmpty ==
  /\ Forward
  /\ text[next] = 0
  /\ UNCHANGED <<selected, used, omitted>>

TakeWhole ==
  /\ Forward
  /\ text[next] > 0
  /\ Fits
  /\ Contribute(text[next])

\* Mutant: the cut rounds its last token up.
RoomOneMore == 3 * (Remaining + 1)

\* Characters a cut layer may keep.
Room == 3 * Remaining

\* The layer is summarized and cut to what is left.
TakeCut ==
  /\ Forward
  /\ text[next] > 0
  /\ ~Fits
  /\ Remaining >= 40
  /\ \E n \in {FallbackSummary(text[next])} \cup Summarized : Contribute(IF n < Room THEN n ELSE Room)

\* Too little is left for a cut to make sense.
Omit ==
  /\ Forward
  /\ text[next] > 0
  /\ ~Fits
  /\ Remaining < 40
  /\ omitted' = omitted \cup {next}
  /\ UNCHANGED <<selected, used>>

Next == Compact \/ Assemble \/ SkipEmpty \/ TakeWhole \/ TakeCut \/ Omit

Spec == Init /\ [][Next]_vars

-----------------------------------------------------------------------------
(* Properties *)

Chosen == {l \in Layer : selected[l] # NotSelected}

\* The characters and the tokens that each layer has in the result, and what the graph
\* counts for the layers without text.
Chars == [l \in Layer |-> IF l \in Chosen THEN selected[l] ELSE 0]
Tokens == [l \in Layer |-> IF l \in Chosen THEN Estimate(selected[l]) ELSE 0]
Blank == [l \in Layer |-> IF text[l] = 0 THEN 1 ELSE 0]

\* Every variable has its type, and the estimate is conservative (context.py:13): it
\* covers every character taken so far.
TypeOK ==
  /\ budget \in Budgets
  /\ text \in Texts
  /\ pc \in {"route", "pack", "done"}
  /\ next \in 1..7
  /\ selected \in [Layer -> Nat \cup {NotSelected}]
  /\ used \in Nat
  /\ omitted \subseteq Layer
  /\ Total(Chars) <= 3 * used

\* Only required layers exceed the budget: once it is exceeded, nothing else has been
\* taken, and every cut was within what was left of it.
OverrunIsRequired == used > budget => Chosen \subseteq Required

\* The result accounts for every layer: one that has text is selected or named as
\* omitted, never both, and the estimate is that of the texts selected, except that the
\* graph, when it does not pack, counts one token for an empty layer.
LayersAccountedFor ==
  pc = "done" =>
    /\ Chosen \cap omitted = {}
    /\ Chosen \cup omitted = {l \in Layer : text[l] > 0}
    /\ used \in {Total(Tokens), Total(Tokens) + Total(Blank)}

\* The two ways to a context agree: whatever fits the graph's raw comparison, pack()
\* takes whole, so that neither way trims a prompt that need not be trimmed.
WholeWithinBudget ==
  pc = "done" /\ RawTokens <= budget =>
    \A l \in Layer : selected[l] = IF text[l] = 0 THEN NotSelected ELSE text[l]
=============================================================================
