------------------------------ MODULE MCDurableRun ------------------------------
(* Three tasks and a graph of every shape; t3 comes first in order, so a     *)
(* queue of two leaves t2 out, and it may depend on tasks behind it.         *)
EXTENDS DurableRun, TLC

CONSTANTS t1, t2, t3

MCTasks == {t1, t2, t3}
Graph(a, b, c) == (t1 :> a) @@ (t2 :> b) @@ (t3 :> c)

MCGraphs ==
  {Graph({}, {}, {}), Graph({}, {t1}, {}), Graph({}, {}, {t1}), Graph({}, {t1}, {t1}),
   Graph({}, {t1, t3}, {}), Graph({t3}, {}, {t1})}

MCPriority == (t1 :> 1) @@ (t2 :> 1) @@ (t3 :> 0)
MCCreated == (t1 :> 1) @@ (t2 :> 2) @@ (t3 :> 3)

\* t3 is first in order and waits for t1.
OneEdge == {Graph({}, {}, {t1})}
===============================================================================
