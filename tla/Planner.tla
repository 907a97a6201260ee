--------------------------------- MODULE Planner -------------------------------
(***************************************************************************)
(* Goals decomposed into plans and plans flattened into tasks              *)
(* (ormica/planner.py): Planner.plan asks the brain for a list of steps    *)
(* and for lists of substeps below them, and Plan.to_tasks turns the       *)
(* leaves into tasks with the dependencies of their steps and of the       *)
(* steps above them.  AsyncPlanner does the same between awaits.           *)
(*                                                                         *)
(* Steps are numbered in the order they are given out, and siblings keep   *)
(* that order.                                                             *)
(***************************************************************************)
EXTENDS Naturals, Sequences, FiniteSets, Functions

CONSTANTS
  PlanDepth,   \* max_depth
  Widths,      \* how many steps an answer of the brain may hold
  MaxLeaves    \* bound on the leaves of a plan

ASSUME PlannerAssumption == PlanDepth \in Nat /\ Widths \subseteq Nat /\ MaxLeaves \in Nat

VARIABLES
  up,      \* step -> the step it is a substep of, 0 at the top
  needs,   \* step -> its depends_on, among its siblings
  todo,    \* calls of _expand still to make: [step, depth], the next first
  stage    \* asked, planning, planned, failed, refused, enqueued

planVars == <<up, needs, todo, stage>>

Steps == DOMAIN up
Substeps(s) == {x \in Steps : up[x] = s}
Leaves == {s \in Steps : Substeps(s) = {}}
Ascending(S) ==
  [n \in 1..Cardinality(S) |-> CHOOSE x \in S : Cardinality({y \in S : y < x}) = n - 1]

PlanInit ==
  /\ up = <<>> /\ needs = <<>> /\ todo = <<>>
  /\ stage \in {"asked", "enqueued"}

-------------------------------------------------------------------------------
(* Planner.plan *)

\* _parse_steps: n new steps below s; depends_on is any list of indices of
\* other steps of the answer.
Parsed(s, n) ==
  LET new == (Len(up) + 1)..(Len(up) + n)
  IN /\ up' = [x \in 1..(Len(up) + n) |-> IF x \in new THEN s ELSE up[x]]
     /\ \E d \in [new -> SUBSET new] :
          /\ \A x \in new : x \notin d[x]
          /\ needs' = [x \in 1..(Len(up) + n) |-> IF x \in new THEN d[x] ELSE needs[x]]

\* The calls of _expand for the steps of the answer.
Calls(n, depth) == [i \in 1..n |-> [step |-> Len(up) + i, depth |-> depth]]

\* The goal is decomposed.
Decompose ==
  /\ stage = "asked"
  /\ \E n \in Widths :
       /\ n <= MaxLeaves
       /\ Parsed(0, n)
       /\ todo' = Calls(n, PlanDepth)
  /\ stage' = "planning"

\* _expand: at the last level, or where the brain finds no more than one
\* substep, the step stays a leaf.
Expand ==
  /\ stage = "planning" /\ todo # <<>>
  /\ LET s == Head(todo).step
         depth == Head(todo).depth
     IN \/ UNCHANGED <<up, needs>> /\ todo' = Tail(todo)
        \/ /\ depth > 1
           /\ \E n \in Widths :
                /\ n > 1 /\ Cardinality(Leaves) + n - 1 <= MaxLeaves
                /\ Parsed(s, n)
                /\ todo' = Calls(n, depth - 1) \o Tail(todo)
  /\ UNCHANGED stage

\* The brain raises, or its answer is no list of steps: there is no plan.
PlanFails ==
  /\ stage \in {"asked", "planning"}
  /\ stage = "planning" => todo # <<>> /\ Head(todo).depth > 1
  /\ stage' = "failed"
  /\ UNCHANGED <<up, needs, todo>>

PlanDone ==
  /\ stage = "planning" /\ todo = <<>>
  /\ stage' = "planned"
  /\ UNCHANGED <<up, needs, todo>>

-------------------------------------------------------------------------------
(* Plan.to_tasks *)

\* One round of the while loop: the first that is ready is taken, and those that
\* waited for it last are ready after the others.
Taken(level, last) ==
  LET order == Append(last.order, Head(last.ready))
      freed == {x \in level : Head(last.ready) \in needs[x] /\ needs[x] \subseteq Range(order)}
  IN [order |-> order, ready |-> Tail(last.ready) \o Ascending(freed)]

\* _toposort of the substeps of s: Kahn's algorithm, with a queue.
Kahn(s) ==
  LET level == Substeps(s)
      kahn[n \in 0..Cardinality(level)] ==
        IF n = 0
        THEN [order |-> <<>>, ready |-> Ascending({x \in level : needs[x] = {}})]
        ELSE LET last == kahn[n - 1]
             IN IF last.ready = <<>> THEN last ELSE Taken(level, last)
  IN kahn

Toposort(s) == Kahn(s)[Cardinality(Substeps(s))].order

\* It raises where a level has a cycle.
Sortable == \A s \in Steps \cup {0} : Len(Toposort(s)) = Cardinality(Substeps(s))

\* build, a step at a time: a leaf becomes a task, another step makes way for
\* its substeps.
Visited(last) ==
  LET s == Head(last.ahead)
      rest == Tail(last.ahead)
  IN IF s \in Leaves THEN [made |-> Append(last.made, s), ahead |-> rest]
     ELSE [made |-> last.made, ahead |-> Toposort(s) \o rest]

Build ==
  LET build[n \in 0..Len(up)] ==
        IF n = 0 THEN [made |-> <<>>, ahead |-> Toposort(0)]
        ELSE LET last == build[n - 1]
             IN IF last.ahead = <<>> THEN last ELSE Visited(last)
  IN build

\* The leaves in the order their tasks are made in.
Built == Build[Len(up)].made

\* index: the leaves below every step.
LeavesByStep ==
  LET index[s \in Steps] ==
        IF s \in Leaves THEN {s} ELSE UNION {index[x] : x \in Substeps(s)}
  IN index

\* Mutant: a step that is decomposed drops its own dependencies.
AttachOwn(s) ==
  LET inherited[x \in Steps] ==
        IF x \in Leaves \/ up[x] = 0 THEN needs[x] ELSE inherited[up[x]]
  IN (UNION {LeavesByStep[d] : d \in inherited[s]}) \ {s}

\* The dependencies of a step and those it inherits.
Inherited ==
  LET inherited[x \in Steps] ==
        needs[x] \cup IF up[x] = 0 THEN {} ELSE inherited[up[x]]
  IN inherited

\* attach: the leaves that leaf s waits for.
Attach(s) == (UNION {LeavesByStep[d] : d \in Inherited[s]}) \ {s}

-------------------------------------------------------------------------------
\* A step and those it is part of.
AboveOf ==
  LET above[x \in Steps] == {x} \cup IF up[x] = 0 THEN {} ELSE above[up[x]]
  IN above

Above(s) == AboveOf[s]

\* What a plan means: a is to wait for b where a, or a step a is part of, needs
\* b, or a step b is part of.
WaitsFor(a, b) == \E x \in Above(a), y \in Above(b) : y \in needs[x]
================================================================================
