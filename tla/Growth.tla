-------------------------------- MODULE Growth ---------------------------------
(***************************************************************************)
(* How a colony grows: Tree.spawn, prune, snapshot and restore (ormica/    *)
(* arbor/tree.py) under the policy chain an Ormica sets up (Constitution-  *)
(* Policy around a BudgetGovernor around a Canopy), save_tree and          *)
(* load_tree, a fresh process on the same store, and Ormica.solve, whose   *)
(* agents grow the tree themselves with the delegate tool (ormica/         *)
(* delegation.py).                                                         *)
(*                                                                         *)
(* A Node object is told apart from the id it carries: load_tree replaces  *)
(* every object of the tree by another one with the same id, while callers *)
(* and agents at work keep theirs.  An object is its place in objs.        *)
(***************************************************************************)
EXTENDS Integers, Sequences, FiniteSets, FiniteSetsExt

CONSTANTS
  MaxDepth,     \* max_depth of the colony
  NewDepth,     \* max_depth that a fresh process is configured with
  MaxAgents,    \* BudgetGovernor.max_agents
  MaxSpawns,    \* BudgetGovernor.max_spawns
  Limit,        \* TokenBudget.limit
  Reserve,      \* BudgetGovernor.reserve_tokens
  ChainLevels,  \* Canopy.chain_levels
  Levels,       \* max_depth of solve
  MaxSubtasks,  \* max_subtasks of solve
  MaxCalls,     \* bound on the delegate calls of one response
  MaxIterations,\* max_iterations of a tool loop
  MaxObjects,   \* bound on the Node objects
  MaxSolves,    \* bound on the calls of solve
  MaxRestarts   \* bound on the restarts

ASSUME GrowthAssumption ==
  /\ {MaxDepth, NewDepth, MaxSpawns, Limit, Reserve, Levels, MaxCalls,
      MaxSolves, MaxRestarts} \subseteq Nat
  /\ {MaxAgents, ChainLevels, MaxSubtasks, MaxIterations, MaxObjects} \subseteq Nat \ {0}

VARIABLES
  objs,      \* every Node object of the process: id, parent, number in its name
  root,      \* Tree.root
  index,     \* Tree._index
  maxDepth,  \* Tree.max_depth
  saved,     \* the record arbor/tree, or NoSnapshot
  approved,  \* BudgetGovernor.approved
  used,      \* TokenBudget.used
  stack,     \* the agents of a solve that are at work, the delegating one below
  solves, restarts,
  ids,       \* ghost: ids given out
  spawns,    \* ghost: nodes spawned by this process
  loaded,    \* ghost: the size of the tree last loaded
  born,      \* ghost: what the current solve has spawned
  astray     \* ghost: a node was changed through an object load_tree replaced

tree == <<objs, root, index, maxDepth>>
ghosts == <<ids, spawns, loaded, astray>>
vars == <<tree, saved, approved, used, stack, solves, restarts, ghosts, born>>

Node(id, up, name) == [id |-> id, up |-> up, name |-> name]
None == 0

\* The store before the first save_tree.
NoSnapshot == [depth |-> 0, nodes |-> {}]

Objects == DOMAIN objs

\* Node.path, as a set, for each of the objects os: the object and those above it.
Paths(os) ==
  LET path[x \in DOMAIN os] == {x} \cup IF os[x].up = None THEN {} ELSE path[os[x].up]
  IN path
Path == Paths(objs)
Depth(h) == Cardinality(Path[h]) - 1
Top(h) == CHOOSE x \in Path[h] : objs[x].up = None

\* Node.walk.
Walk(h) == {x \in Objects : h \in Path[x]}

Init ==
  /\ objs = <<Node(1, None, 0)>>
  /\ root = 1
  /\ index = [i \in {1} |-> 1]
  /\ maxDepth = MaxDepth
  /\ saved = NoSnapshot
  /\ approved = 0 /\ used = 0
  /\ stack = <<>>
  /\ solves = 0 /\ restarts = 0
  /\ ids = 1 /\ spawns = 0 /\ loaded = 1
  /\ born = {} /\ astray = FALSE

-------------------------------------------------------------------------------
(* The policy chain *)

\* Mutant: the ceiling is looked at too late.
GovernorLate(h) ==
  /\ Cardinality(Walk(Top(h))) <= MaxAgents
  /\ approved < MaxSpawns
  /\ Limit - used > Reserve

\* BudgetGovernor.allow counts the nodes from the top of the parent's path.
Governor(h) ==
  /\ Cardinality(Walk(Top(h))) < MaxAgents
  /\ approved < MaxSpawns
  /\ Limit - used > Reserve

\* _chain: the parent and the ancestors next to it.
Chain(h) == {x \in Path[h] : Depth(h) - Depth(x) < ChainLevels}

\* Canopy.allow, where the objects in yes approve when they are asked.
Canopy(h, risk, yes) ==
  \/ risk = "auto"
  \/ risk = "chain" /\ Chain(h) \subseteq yes
  \/ risk = "root" /\ Top(h) \in yes

\* ConstitutionPolicy.allow: the spawn rules of the path, then the inner ones.
Allowed(h) ==
  \E rules \in BOOLEAN, risk \in {"auto", "chain", "root"}, yes \in SUBSET Path[h] :
    rules /\ Governor(h) /\ Canopy(h, risk, yes)

-------------------------------------------------------------------------------
(* Tree *)

Known(h) == objs[h].id \in DOMAIN index
Astray(h) == astray' = (astray \/ h \notin Walk(root))

\* Tree.spawn under h, where nothing refuses it.  Between the governor's look at
\* the tree and the append lie the approvers: one thread grows a tree, and an
\* approver answers without growing or cutting it (an assumption).
Grows(h, name) ==
  /\ Known(h) /\ Depth(h) + 1 <= maxDepth
  /\ Allowed(h)
  /\ Len(objs) < MaxObjects
  /\ objs' = Append(objs, Node(ids + 1, h, name))
  /\ index' = [i \in DOMAIN index \cup {ids + 1} |->
                 IF i = ids + 1 THEN Len(objs) + 1 ELSE index[i]]
  /\ ids' = ids + 1
  /\ approved' = approved + 1
  /\ spawns' = spawns + 1
  /\ Astray(h)
  /\ UNCHANGED <<root, maxDepth, loaded>>

\* A caller spawns under any node it holds.
Spawn(h) ==
  /\ Grows(h, 0)
  /\ UNCHANGED <<saved, used, stack, solves, restarts, born>>

\* Mutant: the branch stays in the index.
PruneNodeOnly(h) ==
  /\ objs[h].up # None /\ Known(h)
  /\ index' = [i \in DOMAIN index \ {objs[h].id} |-> index[i]]
  /\ objs' = [objs EXCEPT ![h].up = None]
  /\ Astray(h)
  /\ UNCHANGED <<root, maxDepth, saved, approved, used, stack, solves, restarts,
                 ids, spawns, loaded, born>>

\* Tree.prune: the branch leaves the index by its ids, and h its parent.
Prune(h) ==
  /\ objs[h].up # None /\ Known(h)
  /\ index' = [i \in DOMAIN index \ {objs[x].id : x \in Walk(h)} |-> index[i]]
  /\ objs' = [objs EXCEPT ![h].up = None]
  /\ Astray(h)
  /\ UNCHANGED <<root, maxDepth, saved, approved, used, stack, solves, restarts,
                 ids, spawns, loaded, born>>

\* Ormica.save_tree: Tree.snapshot, the nodes by id.
Save ==
  /\ saved' = [depth |-> maxDepth,
               nodes |-> {[id |-> objs[h].id, name |-> objs[h].name,
                           up |-> IF h = root THEN None ELSE objs[objs[h].up].id] :
                          h \in Walk(root)}]
  /\ UNCHANGED <<tree, approved, used, stack, solves, restarts, ghosts, born>>

\* Tree.restore makes new objects for the records, in the order of their ids.
Place(i) == Len(objs) + Cardinality({r \in saved.nodes : r.id <= i})
Record(p) == CHOOSE r \in saved.nodes : Place(r.id) = p
Restored ==
  /\ objs' = [p \in 1..(Len(objs) + Cardinality(saved.nodes)) |->
                IF p <= Len(objs) THEN objs[p]
                ELSE LET r == Record(p)
                     IN Node(r.id, IF r.up = None THEN None ELSE Place(r.up), r.name)]
  /\ root' = Place((CHOOSE r \in saved.nodes : r.up = None).id)
  /\ index' = [i \in {r.id : r \in saved.nodes} |-> Place(i)]
  /\ loaded' = Cardinality(saved.nodes)

\* Ormica.load_tree.  The policy and its counter stay.
Load ==
  /\ saved # NoSnapshot
  /\ Len(objs) + Cardinality(saved.nodes) <= MaxObjects
  /\ maxDepth' = saved.depth
  /\ Restored
  /\ UNCHANGED <<saved, approved, used, stack, solves, restarts, ids, spawns, astray, born>>

\* A fresh process: a new colony with a governor and a budget of its own.
Restart ==
  /\ restarts < MaxRestarts
  /\ restarts' = restarts + 1
  /\ ids' = ids + 1
  /\ objs' = <<Node(ids + 1, None, 0)>>
  /\ root' = 1
  /\ index' = [i \in {ids + 1} |-> 1]
  /\ maxDepth' = NewDepth
  /\ approved' = 0 /\ used' = 0 /\ spawns' = 0 /\ loaded' = 1
  /\ stack' = <<>> /\ born' = {} /\ astray' = FALSE
  /\ UNCHANGED <<saved, solves>>

-------------------------------------------------------------------------------
(* solve and the delegate tool *)

\* An agent and its DelegationBuilder: calls of its last response still to run,
\* subtasks of the call in hand still to do, children spawned, iterations of its
\* tool loop.
Agent(h, depth) ==
  [node |-> h, depth |-> depth, calls |-> 0, left |-> 0, spawned |-> 0, turns |-> 0]

Working == stack[Len(stack)]
Becomes(f) == stack' = [stack EXCEPT ![Len(stack)] = f]

\* The agent at work has asked its model for the next response.
Thinks == stack # <<>> /\ Working.calls = 0 /\ Working.left = 0

\* Only the agent that solve builds has the colony's budget.
Pays == used' = IF Len(stack) = 1 THEN used + 1 ELSE used

\* Ormica.solve, of any Node a caller holds; act_with_tools checks the budget once.
Solve(h) ==
  /\ stack = <<>> /\ solves < MaxSolves
  /\ used < Limit
  /\ solves' = solves + 1
  /\ stack' = <<Agent(h, 0)>>
  /\ born' = {}
  /\ UNCHANGED <<tree, saved, approved, used, restarts, ghosts>>

\* The tool solve gives its agent, and _child_tools the others.
HasDelegate(f) == f.depth = 0 \/ f.depth < Levels

\* Mutant: an iteration that asks for tools is not counted.
RespondsFree(k) ==
  /\ Thinks
  /\ k > 0 => HasDelegate(Working)
  /\ Working.turns < MaxIterations
  /\ Becomes([Working EXCEPT !.calls = k])
  /\ UNCHANGED <<tree, saved, approved, used, solves, restarts, ghosts, born>>

\* The model asks for k calls of delegate; for other tools alone, or its answer
\* is not accepted, where k is 0.
Responds(k) ==
  /\ Thinks
  /\ k > 0 => HasDelegate(Working)
  /\ Working.turns < MaxIterations
  /\ Becomes([Working EXCEPT !.calls = k, !.turns = @ + 1])
  /\ Pays
  /\ UNCHANGED <<tree, saved, approved, solves, restarts, ghosts, born>>

\* The next of the calls, with n subtasks.
Delegate(n) ==
  /\ stack # <<>> /\ Working.left = 0 /\ Working.calls > 0
  /\ Becomes([Working EXCEPT !.calls = @ - 1, !.left = Min({n, MaxSubtasks})])
  /\ UNCHANGED <<tree, saved, approved, used, solves, restarts, ghosts, born>>

\* The next subtask: a child is spawned and begins its own turn ...
Delegated ==
  /\ stack # <<>> /\ Working.left > 0
  /\ Grows(Working.node, Working.spawned + 1)
  /\ born' = born \cup {[under |-> Working.node, name |-> Working.spawned + 1,
                         node |-> Len(objs) + 1]}
  /\ stack' = Append([stack EXCEPT ![Len(stack)] = [Working EXCEPT !.left = @ - 1, !.spawned = @ + 1]],
                     Agent(Len(objs) + 1, Working.depth + 1))
  /\ UNCHANGED <<saved, used, solves, restarts>>

\* ... or it is empty, or its spawn is denied.
NotDelegated ==
  /\ stack # <<>> /\ Working.left > 0
  /\ Becomes([Working EXCEPT !.left = @ - 1])
  /\ UNCHANGED <<tree, saved, approved, used, solves, restarts, ghosts, born>>

\* The agent answers; or its loop is exceeded, or its model raises, which
\* costs nothing: text for the agent below it.
AgentEnds ==
  /\ Thinks
  /\ \/ Working.turns < MaxIterations /\ Pays
     \/ UNCHANGED used
  /\ stack' = SubSeq(stack, 1, Len(stack) - 1)
  /\ born' = IF Len(stack) = 1 THEN {} ELSE born
  /\ UNCHANGED <<tree, saved, approved, solves, restarts, ghosts>>

SolveGoes ==
  \/ \E k \in 0..MaxCalls : Responds(k)
  \/ \E n \in 0..(MaxSubtasks + 1) : Delegate(n)
  \/ Delegated \/ NotDelegated \/ AgentEnds

Next ==
  \/ \E h \in Objects : Spawn(h) \/ Prune(h) \/ Solve(h)
  \/ Save \/ Load \/ Restart
  \/ SolveGoes

\* Models answer: the agents of a solve go on.
Spec == Init /\ [][Next]_vars /\ WF_vars(SolveGoes)

-------------------------------------------------------------------------------
Live == Walk(root)

\* The index and the walk from the root are the same nodes, through spawns,
\* prunes, delegations, saves, loads and restarts in any order, as long as
\* nothing was changed through an object that load_tree had replaced; the root
\* is in the index in any case.
IndexIsTree ==
  /\ index[objs[root].id] = root
  /\ ~astray => /\ {index[i] : i \in DOMAIN index} = Live
                /\ \A i \in DOMAIN index : objs[index[i]].id = i

\* The tree is no larger than max_agents, or than the tree that was loaded; no
\* deeper than its max_depth; and a process adds no more than max_spawns nodes
\* to it, however many of them are pruned.
CeilingsHold ==
  /\ Cardinality(Live) <= Max({MaxAgents, loaded})
  /\ \A h \in Live : Depth(h) <= maxDepth
  /\ spawns <= MaxSpawns

\* A solve goes no deeper than its max_depth (one level in any case), and the
\* children an agent delegates to have names of their own, also when some of
\* them have been pruned or denied.
DelegationBounded ==
  /\ Len(stack) <= 1 + Max({1, Levels})
  /\ \A b, c \in born : b # c => b.under # c.under \/ b.name # c.name

\* Growth is bounded, by callers and by agents.
GrowthBounded == CeilingsHold /\ DelegationBounded

\* Every solve ends, whatever its agents ask for.
SolveEnds == []<>(stack = <<>>)
================================================================================
