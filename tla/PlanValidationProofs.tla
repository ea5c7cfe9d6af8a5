------------------------ MODULE PlanValidationProofs ------------------------
(***************************************************************************)
(* Proofs about PlanValidation, for plans of any size and dependency lists *)
(* of any length.                                                          *)
(***************************************************************************)
EXTENDS PlanValidation, FiniteSetTheorems, TLAPS

\* The places of depends_on(t) that name a task not ordered yet.
Waiting(t) == {i \in DOMAIN dependsOn[t] : dependsOn[t][i] \notin Ordered}

\* What every round needs to know of the order: no task twice, and none without its
\* dependencies.
OrderOK ==
  /\ \A i, j \in DOMAIN order : order[i] = order[j] => i = j
  /\ \A t \in Ordered : DepsOf(t) \subseteq Ordered

\* Tasks that wait for each other are never ordered.
CyclesStayOut ==
  \A S \in SUBSET plan : (\A t \in S : DepsOf(t) \cap S # {}) => S \cap Ordered = {}

\* While the loop runs the plan has passed the checks, a count is what it is meant to
\* be, and the queue holds the unordered tasks whose count is zero.
CountsOK ==
  outcome = "ordering" =>
    /\ plan # {} /\ agents = plan
    /\ \A t \in plan : DepsOf(t) \subseteq plan
    /\ \A t \in plan : indegree[t] = Cardinality(Waiting(t))
    /\ queue = {t \in plan \ Ordered : indegree[t] = 0}

\* The place i of the order, given the ones before it.
Before(i) == {order[j] : j \in 1..(i - 1)}
ReadyAfter(B) == {t \in plan \ B : DepsOf(t) \subseteq B}
LeastAt(i) ==
  LET ready == ReadyAfter(Before(i))
  IN  order[i] \in ready /\ \A t \in ready : order[i] <= t

IInv ==
  /\ TypeOK
  /\ OrderOK
  /\ CyclesStayOut
  /\ CountsOK
  /\ outcome = "checking" => order = <<>>
  /\ OrderIsLeastTopological
  /\ AcceptsExactlySoundPlans

-----------------------------------------------------------------------------
(* Plans, places and counts *)

LEMMA LeastPlaces ==
  OrderIsLeastTopological <=>
    /\ \A i \in DOMAIN order : LeastAt(i)
    /\ outcome = "accepted" => Ordered = plan
  BY DEF OrderIsLeastTopological, LeastAt, ReadyAfter, Before

LEMMA PlanFinite == TypeOK => IsFiniteSet(plan)
  BY PlanAssumption, FS_Subset DEF TypeOK

LEMMA PlacesFinite ==
  ASSUME TypeOK, NEW t \in plan
  PROVE  /\ Len(dependsOn[t]) \in Nat
         /\ DOMAIN dependsOn[t] = 1..Len(dependsOn[t])
         /\ IsFiniteSet(DOMAIN dependsOn[t])
         /\ Cardinality(DOMAIN dependsOn[t]) = Len(dependsOn[t])
  <1>1. dependsOn[t] \in DepLists
    BY DEF TypeOK
  <1>2. PICK n \in 0..MaxDeps : dependsOn[t] \in [1..n -> Ids]
    BY <1>1 DEF DepLists
  <1>3. n \in Nat /\ dependsOn[t] \in Seq(Ids) /\ Len(dependsOn[t]) = n
    BY <1>2, PlanAssumption
  <1>4. IsFiniteSet(1..n) /\ Cardinality(1..n) = n
    BY <1>3, FS_Interval
  <1>5. QED
    BY <1>2, <1>3, <1>4

\* A count is zero exactly when every dependency is ordered.
LEMMA CountZero ==
  ASSUME TypeOK, NEW t \in plan
  PROVE  /\ IsFiniteSet(Waiting(t)) /\ Cardinality(Waiting(t)) \in Nat
         /\ Cardinality(Waiting(t)) = 0 <=> DepsOf(t) \subseteq Ordered
  <1>1. Waiting(t) \in SUBSET (DOMAIN dependsOn[t])
    BY DEF Waiting
  <1>2. IsFiniteSet(Waiting(t)) /\ Cardinality(Waiting(t)) \in Nat
    BY <1>1, PlacesFinite, FS_Subset, FS_CardinalityType
  <1>3. Cardinality(Waiting(t)) = 0 <=> Waiting(t) = {}
    BY <1>2, FS_EmptySet
  <1>4. QED
    BY <1>2, <1>3 DEF Waiting, DepsOf

LEMMA OrderType ==
  ASSUME TypeOK
  PROVE  /\ Len(order) \in Nat /\ DOMAIN order = 1..Len(order)
         /\ Ordered \subseteq plan
  BY DEF TypeOK, Ordered

\* An order without repetitions is as long as the set of what it orders.
LEMMA OrderLength ==
  ASSUME TypeOK, OrderOK
  PROVE  IsFiniteSet(Ordered) /\ Cardinality(Ordered) = Len(order)
  <1>1. order \in [1..Len(order) -> Ordered]
    BY OrderType DEF TypeOK, Ordered
  <1>2. order \in Bijection(1..Len(order), Ordered)
    BY <1>1, OrderType DEF OrderOK, Bijection, Injection, Surjection, IsInjective, Ordered
  <1>3. ExistsBijection(1..Len(order), Ordered)
    BY <1>2 DEF ExistsBijection
  <1>4. QED
    BY <1>3, OrderType, FS_CountingElements, FS_NatBijection

\* A loop that ends with as many places as tasks has ordered them all.
LEMMA AllOrdered ==
  ASSUME TypeOK, OrderOK
  PROVE  Len(order) = Cardinality(plan) <=> Ordered = plan
  <1>1. Ordered \in SUBSET plan /\ IsFiniteSet(plan)
    BY OrderType, PlanFinite
  <1>2. Cardinality(Ordered) = Cardinality(plan) <=> Ordered = plan
    BY <1>1, FS_Subset
  <1>3. QED
    BY <1>2, OrderLength

-----------------------------------------------------------------------------
(* The checks and the verdict *)

LEMMA InitInvariant == Init => IInv
  <1> SUFFICES ASSUME Init PROVE IInv
    OBVIOUS
  <1>1. Ordered = {}
    BY DEF Init, Ordered
  <1>2. TypeOK
    BY DEF Init, TypeOK
  <1>3. OrderOK /\ CyclesStayOut /\ CountsOK /\ OrderIsLeastTopological
    BY <1>1 DEF Init, OrderOK, CyclesStayOut, CountsOK, OrderIsLeastTopological
  <1>4. QED
    BY <1>2, <1>3 DEF Init, IInv, AcceptsExactlySoundPlans

\* Steps that leave plan and order alone keep what is said of them.
LEMMA OrderStays ==
  ASSUME OrderOK, CyclesStayOut, UNCHANGED <<plan, dependsOn, order>>
  PROVE  OrderOK' /\ CyclesStayOut'
  <1>1. Ordered' = Ordered /\ \A t : DepsOf(t)' = DepsOf(t)
    BY DEF Ordered, DepsOf
  <1>2. OrderOK'
    BY <1>1 DEF OrderOK
  <1>3. CyclesStayOut'
    BY <1>1 DEF CyclesStayOut
  <1>4. QED
    BY <1>2, <1>3

\* The same of each place of the order.
LEMMA PlacesStay ==
  ASSUME UNCHANGED <<plan, dependsOn, order>>, NEW i, LeastAt(i)
  PROVE  LeastAt(i)'
  <1>1. \A t : DepsOf(t)' = DepsOf(t)
    BY DEF DepsOf
  <1>2. Before(i)' = Before(i)
    BY DEF Before
  <1>3. \A B : ReadyAfter(B)' = ReadyAfter(B)
    BY <1>1 DEF ReadyAfter
  <1>4. QED
    BY <1>2, <1>3 DEF LeastAt

LEMMA CheckKeeps == IInv /\ Check => IInv'
  <1> SUFFICES ASSUME IInv, Check PROVE IInv'
    OBVIOUS
  <1> USE DEF IInv
  <1>1. order = <<>> /\ order' = <<>> /\ Ordered = {} /\ Ordered' = {}
    BY DEF Check, Ordered
  <1>2. /\ UNCHANGED <<plan, dependsOn, agents, order>>
        /\ \A t \in plan : DepsOf(t)' = DepsOf(t)
        /\ \A t \in plan : Waiting(t)' = DOMAIN dependsOn[t]
    BY <1>1 DEF Check, DepsOf, Waiting
  <1>3. CASE plan = {} \/ agents # plan \/ \E t \in plan : ~(DepsOf(t) \subseteq plan)
    <2>1. outcome' = "failed" /\ UNCHANGED <<indegree, queue>>
      BY <1>3 DEF Check
    <2>2. TypeOK' /\ CountsOK' /\ OrderIsLeastTopological'
      BY <1>1, <1>2, <2>1 DEF TypeOK, CountsOK, OrderIsLeastTopological
    <2>3. AcceptsExactlySoundPlans'
      BY <1>2, <1>3, <2>1 DEF AcceptsExactlySoundPlans, Sound
    <2>4. QED
      BY <1>2, <2>1, <2>2, <2>3, OrderStays
  <1>4. CASE ~(plan = {} \/ agents # plan \/ \E t \in plan : ~(DepsOf(t) \subseteq plan))
    <2>1. /\ outcome' = "ordering"
          /\ indegree' = [t \in plan |-> Len(dependsOn[t])]
          /\ queue' = {t \in plan : Len(dependsOn[t]) = 0}
      BY <1>4 DEF Check
    <2>2. TypeOK'
      BY <1>2, <2>1, PlacesFinite DEF TypeOK
    <2>3. \A t \in plan : indegree'[t] = Cardinality(Waiting(t)')
      BY <1>2, <2>1, PlacesFinite
    <2>4. CountsOK'
      BY <1>1, <1>2, <1>4, <2>1, <2>3 DEF CountsOK
    <2>5. OrderIsLeastTopological' /\ AcceptsExactlySoundPlans'
      BY <1>1, <1>2, <2>1 DEF OrderIsLeastTopological, AcceptsExactlySoundPlans
    <2>6. QED
      BY <1>2, <2>1, <2>2, <2>4, <2>5, OrderStays
  <1>5. QED
    BY <1>3, <1>4

\* The loop ends with an empty queue: what is not ordered then waits for each other.
LEMMA ConcludeKeeps == IInv /\ Conclude => IInv'
  <1> SUFFICES ASSUME IInv, Conclude PROVE IInv'
    OBVIOUS
  <1> USE DEF IInv
  <1>1. /\ UNCHANGED <<plan, dependsOn, agents, indegree, queue, order>>
        /\ outcome = "ordering" /\ queue = {}
        /\ outcome' = (IF Len(order) # Cardinality(plan) THEN "failed" ELSE "accepted")
    BY DEF Conclude, Verdict
  <1>2. outcome' = (IF Ordered # plan THEN "failed" ELSE "accepted")
    BY <1>1, AllOrdered
  <1>3. TypeOK' /\ CountsOK'
    BY <1>1, <1>2 DEF TypeOK, CountsOK
  <1>4. OrderIsLeastTopological'
    <2>1. Ordered' = Ordered /\ \A i \in DOMAIN order : LeastAt(i)'
      BY <1>1, PlacesStay, LeastPlaces DEF Ordered
    <2>2. OrderIsLeastTopological' <=>
            /\ \A i \in DOMAIN order' : LeastAt(i)'
            /\ outcome' = "accepted" => Ordered' = plan'
      BY DEF OrderIsLeastTopological, LeastAt, ReadyAfter, Before
    <2>3. QED
      BY <1>1, <1>2, <2>1, <2>2
  <1>5. Cyclic' = Cyclic /\ Sound' = Sound
    BY <1>1 DEF Cyclic, Sound, DepsOf
  <1>6. CASE Ordered = plan
    <2>1. ~Cyclic
      BY <1>6 DEF CyclesStayOut, Cyclic
    <2>2. Sound
      BY <1>1, <2>1 DEF CountsOK, Sound
    <2>3. AcceptsExactlySoundPlans'
      BY <1>2, <1>5, <1>6, <2>2 DEF AcceptsExactlySoundPlans
    <2>4. QED
      BY <1>1, <1>2, <1>3, <1>4, <2>3, OrderStays
  <1>7. CASE Ordered # plan
    <2> DEFINE Rest == plan \ Ordered
    <2>1. Rest # {}
      BY <1>7, OrderType
    <2>2. ASSUME NEW t \in Rest PROVE DepsOf(t) \cap Rest # {}
      <3>1. indegree[t] # 0
        BY <1>1 DEF CountsOK
      <3>2. ~(DepsOf(t) \subseteq Ordered) /\ DepsOf(t) \subseteq plan
        BY <1>1, <3>1, CountZero DEF CountsOK
      <3>3. QED
        BY <3>2
    <2>3. Cyclic
      BY <2>1, <2>2 DEF Cyclic
    <2>4. AcceptsExactlySoundPlans'
      BY <1>2, <1>5, <1>7, <2>3 DEF AcceptsExactlySoundPlans, Sound
    <2>5. QED
      BY <1>1, <1>2, <1>3, <1>4, <2>4, OrderStays
  <1>8. QED
    BY <1>6, <1>7

-----------------------------------------------------------------------------
(* A round of the loop *)

LEMMA AppendPlaces ==
  ASSUME TypeOK, NEW current \in plan, order' = Append(order, current)
  PROVE  /\ order' \in Seq(plan)
         /\ DOMAIN order' = 1..(Len(order) + 1)
         /\ \A i \in 1..Len(order) : order'[i] = order[i]
         /\ order'[Len(order) + 1] = current
         /\ Ordered' = Ordered \cup {current}
  <1>1. /\ order' \in Seq(plan) /\ Len(order') = Len(order) + 1
        /\ \A i \in 1..Len(order) : order'[i] = order[i]
        /\ order'[Len(order) + 1] = current
    BY DEF TypeOK
  <1>2. Len(order) \in Nat /\ DOMAIN order = 1..Len(order)
    BY OrderType
  <1>3. DOMAIN order' = 1..(Len(order) + 1)
    BY <1>1, <1>2
  <1>4. Ordered' = Ordered \cup {current}
    BY <1>1, <1>2, <1>3 DEF Ordered
  <1>5. QED
    BY <1>1, <1>3, <1>4

\* The count goes down by the places that name the task just ordered.
LEMMA CountFalls ==
  ASSUME TypeOK, NEW t \in plan, NEW current, current \notin Ordered,
         Ordered' = Ordered \cup {current}, UNCHANGED dependsOn,
         indegree[t] = Cardinality(Waiting(t))
  PROVE  /\ CountAfter(t, current) = Cardinality(Waiting(t)')
         /\ Cardinality(Waiting(t)') \in Nat
         /\ Cardinality(Naming(t, current)) \in Nat
         /\ Cardinality(Naming(t, current)) <= indegree[t]
  <1>1. /\ Waiting(t)' = Waiting(t) \ Naming(t, current)
        /\ Waiting(t) \cap Naming(t, current) = Naming(t, current)
        /\ Naming(t, current) \in SUBSET Waiting(t)
    BY DEF Waiting, Naming
  <1>2. IsFiniteSet(Waiting(t)) /\ Cardinality(Waiting(t)) \in Nat
    BY CountZero
  <1>3. /\ IsFiniteSet(Naming(t, current))
        /\ Cardinality(Naming(t, current)) \in Nat
        /\ Cardinality(Naming(t, current)) <= Cardinality(Waiting(t))
    <2>1. /\ IsFiniteSet(Naming(t, current))
          /\ Cardinality(Naming(t, current)) <= Cardinality(Waiting(t))
      BY <1>1, <1>2, FS_Subset
    <2>2. QED
      BY <2>1, FS_CardinalityType
  <1>4. Cardinality(Waiting(t)') = Cardinality(Waiting(t)) - Cardinality(Naming(t, current))
    <2>1. Cardinality(Waiting(t) \ Naming(t, current))
            = Cardinality(Waiting(t)) - Cardinality(Waiting(t) \cap Naming(t, current))
      BY <1>2, FS_Difference
    <2>2. QED
      BY <1>1, <2>1
  <1>5. QED
    BY <1>2, <1>3, <1>4 DEF CountAfter

LEMMA PopKeeps == IInv /\ Pop => IInv'
  <1> SUFFICES ASSUME IInv, Pop PROVE IInv'
    OBVIOUS
  <1> USE DEF IInv
  <1>1. PICK current \in queue :
          /\ Takes(current)
          /\ order' = Append(order, current)
          /\ indegree' = [t \in plan |-> CountAfter(t, current)]
          /\ queue' = (queue \ {current}) \cup {t \in plan : Released(t, current)}
    BY DEF Pop
  <1>2. outcome = "ordering" /\ UNCHANGED <<plan, dependsOn, agents, outcome>>
    BY DEF Pop
  <1>3. /\ current \in plan \ Ordered
        /\ queue = ReadyAfter(Ordered)
    <2>1. queue = {t \in plan \ Ordered : Cardinality(Waiting(t)) = 0}
      BY <1>2 DEF CountsOK
    <2>2. queue = ReadyAfter(Ordered)
      BY <2>1, CountZero DEF ReadyAfter
    <2>3. QED
      BY <2>1, <2>2
  <1>4. DepsOf(current) \subseteq Ordered
    BY <1>3 DEF ReadyAfter
  <1>5. /\ order' \in Seq(plan)
        /\ Len(order) \in Nat /\ DOMAIN order = 1..Len(order)
        /\ DOMAIN order' = 1..(Len(order) + 1)
        /\ \A i \in 1..Len(order) : order'[i] = order[i]
        /\ order'[Len(order) + 1] = current
        /\ Ordered' = Ordered \cup {current}
    BY <1>1, <1>3, AppendPlaces, OrderType
  <1>6. \A t : DepsOf(t)' = DepsOf(t)
    BY <1>2 DEF DepsOf
  <1>7. \A t \in plan :
           /\ indegree'[t] = Cardinality(Waiting(t)')
           /\ indegree'[t] \in Nat
           /\ Cardinality(Naming(t, current)) \in Nat
           /\ Cardinality(Naming(t, current)) <= indegree[t]
           /\ indegree'[t] = indegree[t] - Cardinality(Naming(t, current))
    <2> TAKE t \in plan
    <2>1. indegree[t] = Cardinality(Waiting(t)) /\ indegree'[t] = CountAfter(t, current)
      BY <1>1, <1>2 DEF CountsOK
    <2>2. QED
      BY <1>2, <1>3, <1>5, <2>1, CountFalls DEF CountAfter
  <1>8. TypeOK'
    BY <1>1, <1>2, <1>5, <1>7 DEF TypeOK
  <1>9. OrderOK'
    <2>1. ASSUME NEW i \in DOMAIN order', NEW j \in DOMAIN order', order'[i] = order'[j]
          PROVE  i = j
      <3>1. \A k \in 1..Len(order) : order'[k] \in Ordered
        BY <1>5 DEF Ordered
      <3>2. QED
        BY <1>3, <1>5, <2>1, <3>1 DEF OrderOK
    <2>2. \A t \in Ordered' : DepsOf(t) \subseteq Ordered'
      BY <1>4, <1>5 DEF OrderOK
    <2>3. QED
      BY <1>6, <2>1, <2>2 DEF OrderOK
  <1>10. CyclesStayOut'
    <2> SUFFICES ASSUME NEW S \in SUBSET plan, \A t \in S : DepsOf(t) \cap S # {}
                 PROVE  S \cap Ordered' = {}
      BY <1>2, <1>6 DEF CyclesStayOut
    <2>1. S \cap Ordered = {}
      BY DEF CyclesStayOut
    <2>2. current \notin S
      BY <1>4, <2>1
    <2>3. QED
      BY <1>5, <2>1, <2>2
  <1>11. CountsOK'
    <2>1. queue' = {t \in plan \ Ordered' : indegree'[t] = 0}
      <3>1. ASSUME NEW t \in plan PROVE t \in queue' <=> t \notin Ordered' /\ indegree'[t] = 0
        <4>1. t \in queue <=> t \notin Ordered /\ indegree[t] = 0
          BY <1>2 DEF CountsOK
        <4>2. t \in Ordered => indegree[t] = 0
          BY <1>2, CountZero DEF CountsOK, OrderOK
        <4>3. indegree[t] \in Nat
          BY DEF TypeOK
        <4>4. t \in queue' <=> (t \in queue /\ t # current) \/ Released(t, current)
          BY <1>1
        <4>5. Released(t, current) <=> indegree[t] > 0 /\ indegree'[t] = 0
          BY <1>7, <4>3 DEF Released
        <4>6. indegree[current] = 0
          BY <1>2 DEF CountsOK
        <4>7. indegree[t] = 0 => indegree'[t] = 0
          BY <1>7, <4>3
        <4>8. QED
          BY <1>5, <4>1, <4>2, <4>3, <4>4, <4>5, <4>6, <4>7
      <3>2. queue' \subseteq plan
        BY <1>2, <1>8 DEF TypeOK
      <3>3. QED
        BY <3>1, <3>2
    <2>2. QED
      BY <1>2, <1>6, <1>7, <2>1 DEF CountsOK
  <1>12. OrderIsLeastTopological'
    <2>1. \A B : ReadyAfter(B)' = ReadyAfter(B)
      BY <1>2, <1>6 DEF ReadyAfter
    <2>2. ASSUME NEW i \in DOMAIN order' PROVE LeastAt(i)'
      <3>1. CASE i \in DOMAIN order
        <4>1. Before(i)' = Before(i) /\ order'[i] = order[i]
          BY <1>5, <3>1 DEF Before
        <4>2. LeastAt(i)
          BY <3>1, LeastPlaces
        <4>3. QED
          BY <2>1, <4>1, <4>2 DEF LeastAt
      <3>2. CASE i = Len(order) + 1
        <4>1. Before(i)' = Ordered /\ order'[i] = current
          BY <1>5, <3>2 DEF Before, Ordered
        <4>2. current \in ReadyAfter(Ordered) /\ \A t \in ReadyAfter(Ordered) : current <= t
          BY <1>1, <1>3 DEF Takes
        <4>3. QED
          BY <2>1, <4>1, <4>2 DEF LeastAt
      <3>3. QED
        BY <1>5, <3>1, <3>2
    <2>3. OrderIsLeastTopological' <=>
            /\ \A i \in DOMAIN order' : LeastAt(i)'
            /\ outcome' = "accepted" => Ordered' = plan'
      BY DEF OrderIsLeastTopological, LeastAt, ReadyAfter, Before
    <2>4. QED
      BY <1>2, <2>2, <2>3
  <1>13. AcceptsExactlySoundPlans'
    BY <1>2 DEF AcceptsExactlySoundPlans
  <1>14. QED
    BY <1>2, <1>8, <1>9, <1>10, <1>11, <1>12, <1>13

-----------------------------------------------------------------------------
(* Theorems *)

LEMMA StutterKeeps == IInv /\ UNCHANGED vars => IInv'
  <1> SUFFICES ASSUME IInv, UNCHANGED vars PROVE IInv'
    OBVIOUS
  <1> USE DEF IInv, vars
  <1>1. Ordered' = Ordered /\ \A t : DepsOf(t)' = DepsOf(t) /\ Waiting(t)' = Waiting(t)
    BY DEF Ordered, DepsOf, Waiting
  <1>2. TypeOK' /\ CountsOK'
    BY <1>1 DEF TypeOK, CountsOK
  <1>3. AcceptsExactlySoundPlans'
    BY <1>1 DEF AcceptsExactlySoundPlans, Sound, Cyclic
  <1>4. \A i \in DOMAIN order : LeastAt(i)'
    BY PlacesStay, LeastPlaces
  <1>5. OrderIsLeastTopological'
    BY <1>1, <1>4 DEF OrderIsLeastTopological, LeastAt, ReadyAfter, Before
  <1>6. QED
    BY <1>2, <1>3, <1>5, OrderStays

\* Counts, queue and order say what they mean to, in every state of the algorithm.
THEOREM Inductive == Spec => []IInv
  <1>1. IInv /\ [Next]_vars => IInv'
    BY CheckKeeps, PopKeeps, ConcludeKeeps, StutterKeeps DEF Next
  <1>2. QED
    BY InitInvariant, <1>1, PTL DEF Spec

\* Type correctness of validate_plan.
THEOREM TypeCorrect == Spec => []TypeOK
  <1>1. IInv => TypeOK
    BY DEF IInv
  <1>2. QED
    BY Inductive, <1>1, PTL

\* validate_plan accepts a plan exactly if it can be brought to its end: tasks, known
\* references, roles that are filled, and nobody waiting for himself.
THEOREM AcceptsSoundPlans == Spec => []AcceptsExactlySoundPlans
  <1>1. IInv => AcceptsExactlySoundPlans
    BY DEF IInv
  <1>2. QED
    BY Inductive, <1>1, PTL

\* task_order is the least topological order, and complete once the plan is accepted.
THEOREM LeastOrder == Spec => []OrderIsLeastTopological
  <1>1. IInv => OrderIsLeastTopological
    BY DEF IInv
  <1>2. QED
    BY Inductive, <1>1, PTL
=============================================================================
