------------------------------ MODULE MCDagRunner ------------------------------
(* Every dependency graph over three tasks, cyclic ones included, and every  *)
(* acyclic graph over four; or a plan of at most four leaves on two levels.  *)
(* t5 is the last in order, so max_tasks = 4 cuts it off, although t4        *)
(* depends on it.                                                            *)
EXTENDS PlannedRun, TLC

CONSTANTS t1, t2, t3, t4, t5

MCTasks == {t1, t2, t3, t4, t5}

Graph(a, b, c, d) ==
  (t1 :> a) @@ (t2 :> b) @@ (t3 :> c) @@ (t4 :> d \cup {t5}) @@ (t5 :> {})

NoGraph == [t \in MCTasks |-> {}]

MCGraphs ==
  {NoGraph} \cup {Graph(a, b, c, {}) : a, b, c \in SUBSET {t1, t2, t3}}
    \cup {Graph({}, b, c, d) : b \in SUBSET {t1}, c \in SUBSET {t1, t2},
                              d \in SUBSET {t1, t2, t3}}

MCPriority == (t1 :> 1) @@ (t2 :> 0) @@ (t3 :> 1) @@ (t4 :> 0) @@ (t5 :> 2)
MCCreated == (t1 :> 1) @@ (t2 :> 2) @@ (t3 :> 3) @@ (t4 :> 4) @@ (t5 :> 0)

MCSlots == <<t1, t2, t3, t4>>
MCWidths == {1, 2, 3}
===============================================================================
