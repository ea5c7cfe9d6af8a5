------------------------- MODULE ContextPackProofs -------------------------
(***************************************************************************)
(* Proofs about ContextPack, for every budget, every length of the layers  *)
(* and every summarizer.                                                   *)
(***************************************************************************)
EXTENDS ContextPack, TLAPS

-----------------------------------------------------------------------------
(* Sums over the layers, and the estimate *)

LEMMA Layers == Layer = {1, 2, 3, 4, 5, 6}
  BY DEF Layer

LEMMA TotalType == \A f \in [Layer -> Nat] : Total(f) \in Nat
  BY Layers DEF Total

LEMMA TotalUpdate ==
  ASSUME NEW f \in [Layer -> Nat], NEW i \in Layer, f[i] = 0, NEW n \in Nat
  PROVE  Total([f EXCEPT ![i] = n]) = Total(f) + n
  BY Layers DEF Total

LEMMA TotalMonotone ==
  ASSUME NEW f \in [Layer -> Nat], NEW g \in [Layer -> Nat], \A l \in Layer : f[l] <= g[l]
  PROVE  Total(f) <= Total(g)
  BY Layers DEF Total

LEMMA TotalThreefold ==
  ASSUME NEW f \in [Layer -> Nat], NEW g \in [Layer -> Nat], \A l \in Layer : f[l] <= 3 * g[l]
  PROVE  Total(f) <= 3 * Total(g)
  BY Layers DEF Total

LEMMA TotalSum ==
  ASSUME NEW f \in [Layer -> Nat], NEW g \in [Layer -> Nat], NEW h \in [Layer -> Nat],
         \A l \in Layer : h[l] = f[l] + g[l]
  PROVE  Total(h) = Total(f) + Total(g)
  BY Layers DEF Total

LEMMA EstimateType == \A n \in Nat : Estimate(n) \in Nat /\ Estimate(n) >= 1
  BY DEF Estimate

\* The estimate covers the text.
LEMMA EstimateCovers == \A n \in Nat : n <= 3 * Estimate(n)
  BY DEF Estimate

\* A text that is cut to the room of r tokens costs r tokens at most.
LEMMA CutFits ==
  ASSUME NEW r \in Nat, r >= 1, NEW n \in Nat, n <= 3 * r
  PROVE  Estimate(n) <= r
  BY DEF Estimate

-----------------------------------------------------------------------------
(* The invariant *)

Types ==
  /\ budget \in Budgets
  /\ text \in Texts
  /\ selected \in [Layer -> Nat \cup {NotSelected}]
  /\ pc \in {"route", "pack", "done"}
  /\ next \in 1..7
  /\ used \in Nat
  /\ omitted \subseteq Layer

\* The loop, or the graph without it, is done with layer l.
Passed(l) == pc = "done" \/ l < next

\* Until the end the tokens are those of the layers taken.
Loop ==
  /\ pc = "route" => next = 1
  /\ pc # "done" => next \in Layer /\ used = Total(Tokens)

\* A layer with text is taken or omitted when it is passed.
Settled ==
  /\ \A l \in Chosen \cup omitted : Passed(l) /\ text[l] > 0
  /\ \A l \in Layer : Passed(l) /\ text[l] > 0 => l \in Chosen \cup omitted
  /\ Chosen \cap omitted = {}

\* Whole texts only, if all of them fit.
Whole ==
  RawTokens <= budget =>
    \A l \in Layer : Passed(l) => selected[l] = IF text[l] = 0 THEN NotSelected ELSE text[l]

Estimated == used \in {Total(Tokens), Total(Tokens) + Total(Blank)}

IInv == Types /\ Loop /\ Settled /\ Whole /\ Estimated /\ OverrunIsRequired

LEMMA Lengths ==
  ASSUME Types
  PROVE  /\ budget \in Nat /\ used \in Nat
         /\ text \in [Layer -> Nat]
         /\ \A l \in Chosen : l \in Layer /\ selected[l] \in Nat
         /\ \A l \in Layer : l \notin Chosen => selected[l] = NotSelected
         /\ Tokens \in [Layer -> Nat] /\ Chars \in [Layer -> Nat] /\ Blank \in [Layer -> Nat]
  <1>1. /\ budget \in Nat /\ used \in Nat /\ text \in [Layer -> Nat]
    BY ContextAssumption DEF Types
  <1>2. \A l \in Chosen : l \in Layer /\ selected[l] \in Nat
    BY DEF Types, Chosen
  <1>3. \A l \in Layer : l \notin Chosen => selected[l] = NotSelected
    BY DEF Chosen
  <1>4. Tokens \in [Layer -> Nat]
    BY <1>2, EstimateType DEF Tokens
  <1>5. Chars \in [Layer -> Nat]
    BY <1>2 DEF Chars
  <1>6. Blank \in [Layer -> Nat]
    BY DEF Blank
  <1>7. QED
    BY <1>1, <1>2, <1>3, <1>4, <1>5, <1>6

LEMMA InitInvariant == Init => IInv
  <1> SUFFICES ASSUME Init PROVE IInv
    OBVIOUS
  <1>1. Types
    BY Layers DEF Init, Types
  <1>2. Chosen = {} /\ omitted = {} /\ used = 0
    BY DEF Init, Chosen
  <1>3. Total(Tokens) = 0
    BY <1>2, Layers DEF Tokens, Total
  <1>4. \A l \in Layer : ~Passed(l)
    BY Layers DEF Init, Passed
  <1>5. Loop /\ Estimated
    BY <1>2, <1>3, Layers DEF Init, Loop, Estimated
  <1>6. Settled /\ Whole
    BY <1>2, <1>4 DEF Settled, Whole
  <1>7. OverrunIsRequired
    BY <1>2 DEF OverrunIsRequired
  <1>8. QED
    BY <1>1, <1>5, <1>6, <1>7 DEF IInv

\* One turn of the loop passes one layer.
LEMMA ForwardPasses ==
  ASSUME IInv, Forward
  PROVE  /\ next \in Layer /\ next' \in 1..7 /\ pc' \in {"pack", "done"}
         /\ pc' # "done" => next' \in Layer
         /\ \A l \in Layer : Passed(l)' <=> Passed(l) \/ l = next
         /\ ~Passed(next) /\ next \notin Chosen /\ next \notin omitted
         /\ budget' = budget /\ text' = text
         /\ used = Total(Tokens) /\ text[next] \in Nat
  <1>1. pc = "pack" /\ next \in Layer /\ used = Total(Tokens)
    BY DEF Forward, IInv, Loop
  <1>2. next' = next + 1 /\ pc' = (IF next = 6 THEN "done" ELSE "pack")
        /\ budget' = budget /\ text' = text
    BY DEF Forward
  <1>3. \A l \in Layer : Passed(l)' <=> Passed(l) \/ l = next
    BY <1>1, <1>2, Layers DEF Passed
  <1>4. ~Passed(next)
    BY <1>1, Layers DEF Passed
  <1>5. next \notin Chosen /\ next \notin omitted
    BY <1>4 DEF IInv, Settled
  <1>6. text[next] \in Nat
    BY <1>1, Lengths DEF IInv
  <1>7. next' \in 1..7 /\ pc' \in {"pack", "done"} /\ (pc' # "done" => next' \in Layer)
    BY <1>1, <1>2, Layers
  <1>8. QED
    BY <1>1, <1>2, <1>3, <1>4, <1>5, <1>6, <1>7

\* While everything fits, everything fits at its turn.
LEMMA AllFit ==
  ASSUME IInv, Forward, RawTokens <= budget
  PROVE  used + Estimate(text[next]) <= budget
  <1> DEFINE raw == [l \in Layer |-> Estimate(text[l])]
             f == [Tokens EXCEPT ![next] = Estimate(text[next])]
  <1>1. /\ next \in Layer /\ text \in [Layer -> Nat] /\ Tokens \in [Layer -> Nat]
        /\ budget \in Nat /\ used = Total(Tokens) /\ text[next] \in Nat
    BY Lengths, ForwardPasses DEF IInv
  <1>2. Estimate(text[next]) \in Nat
    BY <1>1, EstimateType
  <1>3. Tokens[next] = 0
    BY <1>1, ForwardPasses DEF Tokens
  <1>4. raw \in [Layer -> Nat] /\ f \in [Layer -> Nat]
    BY <1>1, <1>2, EstimateType
  <1>5. ASSUME NEW l \in Layer PROVE f[l] <= raw[l]
    <2>1. CASE l = next
      BY <1>1, <1>2, <2>1
    <2>2. CASE l # next /\ l \in Chosen
      <3>1. Passed(l) /\ text[l] > 0
        BY <2>2 DEF IInv, Settled
      <3>2. selected[l] = text[l]
        BY <3>1, <1>1 DEF IInv, Whole
      <3>3. f[l] = Estimate(selected[l])
        BY <1>1, <2>2 DEF Tokens
      <3>4. Estimate(text[l]) \in Nat
        BY <1>1, EstimateType
      <3>5. QED
        BY <3>2, <3>3, <3>4
    <2>3. CASE l # next /\ l \notin Chosen
      <3>1. f[l] = 0 /\ Estimate(text[l]) \in Nat
        BY <1>1, <2>3, EstimateType DEF Tokens
      <3>2. QED
        BY <3>1
    <2>4. QED
      BY <2>1, <2>2, <2>3
  <1>6. Total(f) = Total(Tokens) + Estimate(text[next])
    BY <1>1, <1>2, <1>3, TotalUpdate
  <1> HIDE DEF f
  <1>7. Total(f) <= Total(raw)
    BY <1>4, <1>5, TotalMonotone
  <1>8. RawTokens = Total(raw)
    BY DEF RawTokens
  <1>9. Total(f) \in Nat /\ Total(raw) \in Nat
    BY <1>4, TotalType
  <1>10. QED
    BY <1>1, <1>6, <1>7, <1>8, <1>9

\* A layer that is taken, whole or cut, fits or is required.
LEMMA ContributeKeeps ==
  ASSUME IInv, Forward, NEW n \in Nat, Contribute(n), text[next] > 0,
         used + Estimate(n) <= budget \/ next \in Required,
         RawTokens <= budget => n = text[next]
  PROVE  IInv'
  <1>1. Types /\ Estimate(n) \in Nat /\ next \in Layer /\ used \in Nat /\ budget \in Nat
    BY Lengths, EstimateType, ForwardPasses DEF IInv
  <1>2. /\ selected' = [selected EXCEPT ![next] = n] /\ used' = used + Estimate(n)
        /\ omitted' = omitted
    BY DEF Contribute
  <1>3. Types'
    BY <1>1, <1>2, ForwardPasses DEF Types
  <1>4. Chosen' = Chosen \cup {next}
    BY <1>1, <1>2, ContextAssumption DEF Types, Chosen
  <1>5. Tokens' = [Tokens EXCEPT ![next] = Estimate(n)]
    <2>1. Tokens' = [l \in Layer |-> IF l \in Chosen' THEN Estimate(selected'[l]) ELSE 0]
      BY DEF Tokens, Estimate
    <2>2. ASSUME NEW l \in Layer
          PROVE  (IF l \in Chosen' THEN Estimate(selected'[l]) ELSE 0)
                   = IF l = next THEN Estimate(n) ELSE Tokens[l]
      <3>1. CASE l = next
        BY <1>1, <1>2, <1>4, <3>1 DEF Types
      <3>2. CASE l # next
        BY <1>1, <1>2, <1>4, <3>2 DEF Types, Tokens
      <3>3. QED
        BY <3>1, <3>2
    <2>3. Tokens = [l \in Layer |-> Tokens[l]]
      BY DEF Tokens
    <2>4. QED
      BY <1>1, <2>1, <2>2, <2>3
  <1>6. Total(Tokens)' = Total(Tokens) + Estimate(n)
    <2>1. Tokens \in [Layer -> Nat]
      BY <1>1, Lengths
    <2>2. Tokens[next] = 0
      BY <1>1, ForwardPasses DEF Tokens
    <2>3. Total(Tokens') = Total(Tokens) + Estimate(n)
      BY <1>1, <1>5, <2>1, <2>2, TotalUpdate
    <2>4. QED
      BY <2>3 DEF Total
  <1>7. Loop' /\ Estimated'
    BY <1>2, <1>6, ForwardPasses DEF Loop, Estimated
  <1>8. Settled'
    BY <1>2, <1>4, ForwardPasses, Lengths DEF IInv, Settled, Types
  <1>9. Whole'
    <2> SUFFICES ASSUME RawTokens <= budget, NEW l \in Layer, Passed(l)'
                 PROVE  selected'[l] = IF text[l] = 0 THEN NotSelected ELSE text[l]
      BY ForwardPasses DEF Whole, RawTokens, Total
    <2>1. CASE l = next
      BY <1>1, <1>2, <2>1, ForwardPasses DEF Types
    <2>2. CASE l # next
      BY <1>1, <1>2, <2>2, ForwardPasses DEF Types, IInv, Whole
    <2>3. QED
      BY <2>1, <2>2
  <1>10. OverrunIsRequired'
    <2>1. budget' = budget
      BY ForwardPasses
    <2>2. CASE next \in Required
      <3>1. \A l \in Chosen : l < next
        BY <1>1 DEF IInv, Settled, Passed, Forward
      <3>2. Chosen' \subseteq Required
        BY <1>1, <1>4, <2>2, <3>1, Lengths, Layers DEF Required
      <3>3. QED
        BY <3>2 DEF OverrunIsRequired
    <2>3. CASE next \notin Required
      BY <1>1, <1>2, <2>1, <2>3 DEF OverrunIsRequired
    <2>4. QED
      BY <2>2, <2>3
  <1>11. QED
    BY <1>3, <1>7, <1>8, <1>9, <1>10 DEF IInv

\* A layer that contributes nothing: it has no text, or it is omitted.
LEMMA PassKeeps ==
  ASSUME IInv, Forward, UNCHANGED <<selected, used>>,
         \/ text[next] = 0 /\ omitted' = omitted
         \/ text[next] > 0 /\ omitted' = omitted \cup {next} /\ ~(RawTokens <= budget)
  PROVE  IInv'
  <1>1. Types /\ next \in Layer
    BY ForwardPasses DEF IInv
  <1>2. Types'
    BY <1>1, ForwardPasses DEF Types
  <1>3. Chosen' = Chosen
    BY DEF Chosen
  <1>4. Total(Tokens)' = Total(Tokens)
    BY <1>3 DEF Tokens, Total, Estimate
  <1>5. Loop' /\ Estimated'
    BY <1>4, ForwardPasses DEF Loop, Estimated
  <1>6. Settled'
    <2>1. /\ \A l \in Chosen \cup omitted : l \in Layer /\ Passed(l) /\ text[l] > 0
          /\ \A l \in Layer : Passed(l) /\ text[l] > 0 => l \in Chosen \cup omitted
          /\ Chosen \cap omitted = {}
      BY <1>1, Lengths DEF IInv, Settled, Types
    <2>2. /\ text' = text /\ \A l \in Layer : Passed(l)' <=> Passed(l) \/ l = next
          /\ next \notin Chosen
      BY ForwardPasses
    <2>3. CASE text[next] = 0 /\ omitted' = omitted
      <3>1. /\ \A l \in Chosen' \cup omitted' : Passed(l)' /\ text'[l] > 0
            /\ Chosen' \cap omitted' = {}
        BY <1>3, <2>1, <2>2, <2>3
      <3>2. \A l \in Layer : Passed(l)' /\ text'[l] > 0 => l \in Chosen' \cup omitted'
        BY <1>3, <2>1, <2>2, <2>3
      <3>3. QED
        BY <3>1, <3>2 DEF Settled
    <2>4. CASE text[next] > 0 /\ omitted' = omitted \cup {next}
      <3>1. /\ \A l \in Chosen' \cup omitted' : Passed(l)' /\ text'[l] > 0
            /\ Chosen' \cap omitted' = {}
        BY <1>1, <1>3, <2>1, <2>2, <2>4
      <3>2. \A l \in Layer : Passed(l)' /\ text'[l] > 0 => l \in Chosen' \cup omitted'
        BY <1>3, <2>1, <2>2, <2>4
      <3>3. QED
        BY <3>1, <3>2 DEF Settled
    <2>5. QED
      BY <2>3, <2>4
  <1>7. Whole'
    <2> SUFFICES ASSUME RawTokens <= budget, NEW l \in Layer, Passed(l)'
                 PROVE  selected[l] = IF text[l] = 0 THEN NotSelected ELSE text[l]
      BY ForwardPasses DEF Whole, RawTokens, Total
    <2>1. CASE l = next
      BY <1>1, <2>1, ForwardPasses, Lengths
    <2>2. CASE l # next
      BY <2>2, ForwardPasses DEF IInv, Whole
    <2>3. QED
      BY <2>1, <2>2
  <1>8. OverrunIsRequired'
    BY <1>3, ForwardPasses DEF IInv, OverrunIsRequired
  <1>9. QED
    BY <1>2, <1>5, <1>6, <1>7, <1>8 DEF IInv

\* The graph takes every text whole.
LEMMA AssembleKeeps ==
  ASSUME IInv, Assemble
  PROVE  IInv'
  <1>1. /\ Types /\ text \in [Layer -> Nat] /\ budget' = budget /\ text' = text
        /\ omitted' = omitted /\ pc' = "done" /\ next' = next
        /\ used' = RawTokens /\ RawTokens <= budget
        /\ selected' = [l \in Layer |-> IF text[l] = 0 THEN NotSelected ELSE text[l]]
    <2>1. budget \in Nat /\ text \in [Layer -> Nat] /\ ~(RawTokens > budget)
      BY Lengths DEF IInv, Assemble, OverBudget
    <2>2. [l \in Layer |-> Estimate(text[l])] \in [Layer -> Nat]
      BY <2>1, EstimateType
    <2>3. RawTokens \in Nat
      BY <2>2, TotalType DEF RawTokens
    <2>4. RawTokens <= budget
      BY <2>1, <2>3
    <2>5. QED
      BY <2>1, <2>4 DEF IInv, Assemble
  <1> DEFINE raw == [l \in Layer |-> Estimate(text[l])]
  <1>2. raw \in [Layer -> Nat]
    BY <1>1, EstimateType
  <1>3. RawTokens \in Nat
    BY <1>2, TotalType DEF RawTokens
  <1>4. Types'
    BY <1>1, <1>3 DEF Types
  <1>5. Chosen' = {l \in Layer : text[l] > 0}
    BY <1>1, ContextAssumption DEF Chosen
  <1>6. omitted = {}
    <2>1. pc = "route" /\ next = 1
      BY DEF IInv, Loop, Assemble
    <2>2. \A l \in omitted : l \in Layer /\ l < 1
      BY <2>1 DEF IInv, Types, Settled, Passed
    <2>3. QED
      BY <2>2, Layers
  <1>7. Settled'
    BY <1>1, <1>5, <1>6 DEF Settled, Passed
  <1>8. Whole'
    BY <1>1 DEF Whole
  <1>9. RawTokens = Total(Tokens)' + Total(Blank)'
    <2> DEFINE f == [l \in Layer |-> IF text[l] > 0 THEN Estimate(text[l]) ELSE 0]
    <2>1. f \in [Layer -> Nat] /\ Blank \in [Layer -> Nat]
      BY <1>1, EstimateType, Lengths
    <2>2. \A l \in Layer : raw[l] = f[l] + Blank[l]
      <3> SUFFICES ASSUME NEW l \in Layer PROVE raw[l] = f[l] + Blank[l]
        OBVIOUS
      <3>1. text[l] \in Nat /\ Estimate(text[l]) \in Nat
        BY <1>1, EstimateType
      <3>2. CASE text[l] = 0
        BY <3>1, <3>2 DEF Blank, Estimate
      <3>3. CASE text[l] > 0
        BY <3>1, <3>3 DEF Blank
      <3>4. QED
        BY <3>1, <3>2, <3>3
    <2>3. Total(raw) = Total(f) + Total(Blank)
      BY <1>2, <2>1, <2>2, TotalSum
    <2>4. Tokens' = f
      BY <1>1, <1>5 DEF Tokens, Estimate
    <2>5. Blank' = Blank
      BY <1>1 DEF Blank
    <2>6. QED
      BY <2>3, <2>4, <2>5 DEF RawTokens, Total
  <1>10. Estimated' /\ Loop'
    BY <1>1, <1>9 DEF Estimated, Loop
  <1>11. OverrunIsRequired'
    BY <1>1, <1>3, Lengths DEF OverrunIsRequired
  <1>12. QED
    BY <1>4, <1>7, <1>8, <1>10, <1>11 DEF IInv

LEMMA NextInvariant == IInv /\ [Next]_vars => IInv'
  <1> SUFFICES ASSUME IInv, [Next]_vars PROVE IInv'
    OBVIOUS
  <1>1. CASE Compact
    <2>1. /\ pc = "route" /\ pc' = "pack"
          /\ UNCHANGED <<budget, text, next, selected, used, omitted>>
      BY <1>1 DEF Compact
    <2>2. Types' /\ Loop' /\ Estimated' /\ OverrunIsRequired'
      BY <2>1
         DEF IInv, Types, Loop, Estimated, OverrunIsRequired, Chosen, Tokens, Blank, Total, Estimate
    <2>3. Settled' /\ Whole'
      BY <2>1 DEF IInv, Settled, Whole, Passed, Chosen, RawTokens, Total, Estimate
    <2>4. QED
      BY <2>2, <2>3 DEF IInv
  <1>2. CASE Assemble
    BY <1>2, AssembleKeeps
  <1>3. CASE SkipEmpty
    BY <1>3, PassKeeps DEF SkipEmpty
  <1>4. CASE TakeWhole
    <2>1. text[next] \in Nat
      BY <1>4, ForwardPasses DEF TakeWhole
    <2>2. QED
      BY <1>4, <2>1, ContributeKeeps DEF TakeWhole, Fits
  <1>5. CASE TakeCut
    <2>1. text[next] \in Nat /\ used \in Nat /\ budget \in Nat
      BY <1>5, ForwardPasses, Lengths DEF TakeCut, IInv
    <2>2. PICK n \in {FallbackSummary(text[next])} \cup Summarized :
            Contribute(IF n < Room THEN n ELSE Room)
      BY <1>5 DEF TakeCut
    <2>3. n \in Nat
      <3>1. FallbackSummary(text[next]) \in Nat
        BY <2>1 DEF FallbackSummary
      <3>2. QED
        BY <2>2, <3>1, ContextAssumption
    <2>4. Remaining \in Nat /\ Remaining >= 1 /\ Room = 3 * Remaining /\ budget = used + Remaining
      BY <1>5, <2>1 DEF TakeCut, Remaining, Room
    <2> DEFINE m == IF n < Room THEN n ELSE Room
    <2>5. m \in Nat /\ m <= 3 * Remaining
      BY <2>3, <2>4
    <2>6. Estimate(m) <= Remaining /\ Estimate(m) \in Nat
      BY <2>4, <2>5, CutFits, EstimateType
    <2> HIDE DEF m
    <2>7. used + Estimate(m) <= budget
      BY <2>1, <2>4, <2>6
    <2>8. Contribute(m)
      BY <2>2 DEF m
    <2>9. ~(RawTokens <= budget)
      BY <1>5, AllFit DEF TakeCut, Fits
    <2>10. QED
      BY <1>5, <2>5, <2>7, <2>8, <2>9, ContributeKeeps DEF TakeCut
  <1>6. CASE Omit
    <2>1. ~(RawTokens <= budget)
      BY <1>6, AllFit DEF Omit, Fits
    <2>2. QED
      BY <1>6, <2>1, PassKeeps DEF Omit
  <1>7. CASE UNCHANGED vars
    <2>1. Types' /\ Loop' /\ Estimated' /\ OverrunIsRequired'
      BY <1>7
         DEF vars, IInv, Types, Loop, Estimated, OverrunIsRequired, Chosen, Tokens, Blank, Total,
             Estimate
    <2>2. Settled' /\ Whole'
      BY <1>7 DEF vars, IInv, Settled, Whole, Passed, Chosen, RawTokens, Total, Estimate
    <2>3. QED
      BY <2>1, <2>2 DEF IInv
  <1>8. QED
    BY <1>1, <1>2, <1>3, <1>4, <1>5, <1>6, <1>7 DEF Next

-----------------------------------------------------------------------------
(* What follows *)

\* In every state of the loop the layers passed are selected or named as omitted, and
\* the estimate is the sum over those selected.
THEOREM Inductive == Spec => []IInv
  BY InitInvariant, NextInvariant, PTL DEF Spec

\* Whatever the budget, the texts and the summarizer are, the budget is exceeded by
\* required layers alone: the cut of the others is exact to the token.
THEOREM BudgetKept == Spec => []OverrunIsRequired
  <1>1. IInv => OverrunIsRequired
    BY DEF IInv
  <1>2. QED
    BY <1>1, Inductive, PTL

\* The estimate covers every character of the result, however the layers were cut.
THEOREM TypeCorrect == Spec => []TypeOK
  <1>1. ASSUME IInv PROVE TypeOK
    <2>1. Types /\ Chars \in [Layer -> Nat] /\ Tokens \in [Layer -> Nat]
          /\ Blank \in [Layer -> Nat] /\ used \in Nat
      BY <1>1, Lengths DEF IInv
    <2>2. ASSUME NEW l \in Layer PROVE Chars[l] <= 3 * Tokens[l]
      BY <2>1, EstimateCovers, Lengths DEF Chars, Tokens
    <2>3. Total(Chars) <= 3 * Total(Tokens)
      BY <2>1, <2>2, TotalThreefold
    <2>4. Total(Tokens) <= used
      <3>1. Total(Tokens) \in Nat /\ Total(Blank) \in Nat
        BY <2>1, TotalType
      <3>2. QED
        BY <1>1, <3>1 DEF IInv, Estimated
    <2>5. Total(Chars) \in Nat /\ Total(Tokens) \in Nat
      BY <2>1, TotalType
    <2>6. Total(Chars) <= 3 * used
      BY <2>1, <2>3, <2>4, <2>5
    <2>7. QED
      BY <2>1, <2>6 DEF Types, TypeOK
  <1>2. QED
    BY <1>1, Inductive, PTL

\* Every layer with text is selected or named as omitted, and the estimate is that of
\* the texts selected, but for the graph's token for an empty layer.
THEOREM NothingIsLost == Spec => []LayersAccountedFor
  <1>1. ASSUME IInv PROVE LayersAccountedFor
    <2> SUFFICES ASSUME pc = "done"
                 PROVE  /\ Chosen \cap omitted = {}
                        /\ Chosen \cup omitted = {l \in Layer : text[l] > 0}
                        /\ used \in {Total(Tokens), Total(Tokens) + Total(Blank)}
      BY DEF LayersAccountedFor
    <2>1. \A l \in Layer : Passed(l)
      BY DEF Passed
    <2>2. Chosen \subseteq Layer /\ omitted \subseteq Layer
      BY <1>1 DEF IInv, Types, Chosen
    <2>3. QED
      BY <1>1, <2>1, <2>2 DEF IInv, Settled, Estimated
  <1>2. QED
    BY <1>1, Inductive, PTL

\* A prompt that fits the graph's comparison is not trimmed by pack() either.
THEOREM WholeIfItFits == Spec => []WholeWithinBudget
  <1>1. IInv => WholeWithinBudget
    BY DEF IInv, Whole, Passed, WholeWithinBudget
  <1>2. QED
    BY <1>1, Inductive, PTL
=============================================================================
