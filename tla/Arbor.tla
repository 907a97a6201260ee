-------------------------------- MODULE Arbor ---------------------------------
(***************************************************************************)
(* The tree of agents (ormica/arbor) under a BudgetGovernor: who hangs     *)
(* below whom, and the primitives growth and healing change it with.       *)
(*                                                                         *)
(* Nodes go by their names, which find() looks them up by; the names of a  *)
(* tree are taken to be distinct.  The root is not among them and is never *)
(* removed.                                                                *)
(***************************************************************************)
EXTENDS Naturals

CONSTANTS
  Names,       \* the names a node other than the root can have
  Root,        \* the root, the target "" of a task
  MaxSpawns    \* how many more spawns the governor approves

ASSUME NamesAssumption == Root \notin Names
ASSUME SpawnsAssumption == MaxSpawns \in Nat

VARIABLES
  parent,      \* the name of every live node -> the name of its parent
  approved     \* BudgetGovernor.approved

tree == <<parent, approved>>

Live == DOMAIN parent

\* The nodes that walk() finds at n and below it.
Branch(n) ==
  {m \in Live : \A S \in SUBSET Live :
     (n \in S /\ \A x \in Live : parent[x] \in S => x \in S) => m \in S}

\* Every node hangs below the root.
Rooted(f) ==
  \A S \in SUBSET DOMAIN f : S # {} => \E x \in S : f[x] \in {Root} \cup (DOMAIN f \ S)

Trees == {f \in UNION {[S -> Names \cup {Root}] : S \in SUBSET Names} :
            Rooted(f) /\ \A x \in DOMAIN f : f[x] \in {Root} \cup DOMAIN f}

ArborInit ==
  /\ parent \in {f \in Trees : DOMAIN f = Names}
  /\ approved = 0

\* Prune the branch of n and spawn a node of the same name in its place, which
\* the governor may refuse: the branch is gone by then.
Regrow(n) ==
  LET rest == Live \ Branch(n)
      kept == IF approved < MaxSpawns THEN rest \cup {n} ELSE rest
  IN /\ n \in Live
     /\ parent' = [x \in kept |-> parent[x]]
     /\ approved' = IF approved < MaxSpawns THEN approved + 1 ELSE approved
===============================================================================
