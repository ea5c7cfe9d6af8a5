-------------------------- MODULE PlanValidation --------------------------
(***************************************************************************)
(* validate_plan (langgraph_runtime.py): the deterministic check of a      *)
(* workflow's plan, and Kahn's algorithm that turns it into task_order.    *)
(* The plan is an initial value: add_task refuses nothing, so any list of  *)
(* dependencies may be in the table, with unknown ids, repetitions and     *)
(* cycles.                                                                 *)
(*                                                                         *)
(* A task id is a number (the code sorts the ids).  The queue is sorted    *)
(* after every insertion and holds an id once, so it is the set of its     *)
(* elements and pop(0) takes the least.                                    *)
(***************************************************************************)
EXTENDS Naturals, Integers, Sequences, FiniteSets

CONSTANTS
  Ids,       \* ids a workflow may use
  MaxDeps    \* BOUND: length of a depends_on list

ASSUME PlanAssumption == Ids \subseteq Nat /\ IsFiniteSet(Ids) /\ MaxDeps \in Nat

VARIABLES
  plan,      \* the ids of the workflow's tasks
  dependsOn, \* depends_on of each task
  agents,    \* the tasks whose role has a model and a prompt
  indegree,  \* dependencies of a task that are not ordered yet
  queue,     \* tasks ready to be ordered
  order,     \* task_order so far
  outcome    \* what validate_plan returns

vars == <<plan, dependsOn, agents, indegree, queue, order, outcome>>

DepLists == UNION {[1..n -> Ids] : n \in 0..MaxDeps}

Init ==
  /\ plan \in SUBSET Ids
  /\ dependsOn \in [plan -> DepLists]
  /\ agents \in SUBSET plan
  /\ indegree = [t \in plan |-> 0]
  /\ queue = {}
  /\ order = <<>>
  /\ outcome = "checking"

\* The places of depends_on(t) that name d.
Naming(t, d) == {i \in DOMAIN dependsOn[t] : dependsOn[t][i] = d}

DepsOf(t) == {dependsOn[t][i] : i \in DOMAIN dependsOn[t]}

Ordered == {order[i] : i \in DOMAIN order}

\* A plan without tasks, with an unknown dependency or with a role nobody fills is
\* refused; otherwise the counts and the first queue are set up.
Check ==
  /\ outcome = "checking"
  /\ IF plan = {} \/ agents # plan \/ \E t \in plan : ~(DepsOf(t) \subseteq plan)
     THEN /\ outcome' = "failed"
          /\ UNCHANGED <<indegree, queue>>
     ELSE /\ outcome' = "ordering"
          /\ indegree' = [t \in plan |-> Len(dependsOn[t])]
          /\ queue' = {t \in plan : Len(dependsOn[t]) = 0}
  /\ UNCHANGED <<plan, dependsOn, agents, order>>

\* Mutant: the queue is not kept sorted.
TakesAny(t) == TRUE

\* pop(0) of the sorted queue.
Takes(t) == \A u \in queue : t <= u

\* The dependents whose count reaches zero when current is ordered; the count of a
\* task goes down once for each place that names current.
Released(t, current) ==
  indegree[t] \in 1..Cardinality(Naming(t, current))

\* Mutant: the dependencies ordered earlier are taken off once more.
CountAfterAgain(t, current) ==
  indegree[t] - Cardinality({i \in DOMAIN dependsOn[t] : dependsOn[t][i] \in Ordered \cup {current}})

CountAfter(t, current) == indegree[t] - Cardinality(Naming(t, current))

\* One round of the while loop.
Pop ==
  /\ outcome = "ordering"
  /\ \E current \in queue :
       /\ Takes(current)
       /\ order' = Append(order, current)
       /\ indegree' = [t \in plan |-> CountAfter(t, current)]
       /\ queue' = (queue \ {current}) \cup {t \in plan : Released(t, current)}
  /\ UNCHANGED <<plan, dependsOn, agents, outcome>>

\* Mutant: whatever was ordered is the order.
VerdictTrusting == "accepted"

\* A task that was never ordered lies on a cycle, or behind one.
Verdict == IF Len(order) # Cardinality(plan) THEN "failed" ELSE "accepted"

Conclude ==
  /\ outcome = "ordering"
  /\ queue = {}
  /\ outcome' = Verdict
  /\ UNCHANGED <<plan, dependsOn, agents, indegree, queue, order>>

Next == Check \/ Pop \/ Conclude

Spec == Init /\ [][Next]_vars

-----------------------------------------------------------------------------
(* Properties *)

\* Every variable has its type.
TypeOK ==
  /\ plan \subseteq Ids
  /\ dependsOn \in [plan -> DepLists]
  /\ agents \subseteq plan
  /\ indegree \in [plan -> Nat]
  /\ queue \subseteq plan
  /\ order \in Seq(plan)
  /\ outcome \in {"checking", "ordering", "accepted", "failed"}

\* Reference definition: some tasks of the plan wait for each other.
Cyclic == \E S \in (SUBSET plan) \ {{}} : \A t \in S : DepsOf(t) \cap S # {}

\* Reference definition: a plan the schedule loop can bring to its end.
Sound ==
  plan # {} /\ agents = plan /\ (\A t \in plan : DepsOf(t) \subseteq plan) /\ ~Cyclic

\* A plan is accepted exactly if it has tasks, its references and roles are known
\* and no tasks wait for each other.
AcceptsExactlySoundPlans ==
  /\ outcome = "accepted" => Sound
  /\ outcome = "failed" => ~Sound

\* task_order is the least topological order of the plan: each place holds the least of
\* the tasks not placed before whose dependencies are.  So no task comes twice or before
\* a dependency, a graph that runs validate_plan again finds the same order, and an
\* accepted plan is ordered completely.
OrderIsLeastTopological ==
  /\ \A i \in DOMAIN order :
       LET before == {order[j] : j \in 1..(i - 1)}
           ready == {t \in plan \ before : DepsOf(t) \subseteq before}
       IN  order[i] \in ready /\ \A t \in ready : order[i] <= t
  /\ outcome = "accepted" => Ordered = plan
=============================================================================
