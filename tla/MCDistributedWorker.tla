-------------------------- MODULE MCDistributedWorker --------------------------
(* Small fleets: t2 waits for t1, t3 is independent and comes first in the   *)
(* claim order.                                                              *)
EXTENDS DistributedWorker, TLC

CONSTANTS w1, w2, t1, t2, t3

MCWorkers == {w1, w2}
MCTasks == {t1, t2, t3}
MCDeps == (t1 :> {}) @@ (t2 :> {t1}) @@ (t3 :> {})
MCRank == (t1 :> 2) @@ (t2 :> 3) @@ (t3 :> 1)

\* The same without t3.
MCTasks2 == {t1, t2}
MCDeps2 == (t1 :> {}) @@ (t2 :> {t1})
MCRank2 == (t1 :> 1) @@ (t2 :> 2)

\* One process has built the queue, the other only joins.
OnePublisher == (w1 :> <<t1, t2, t3>>) @@ (w2 :> <<>>)
OnePublisher2 == (w1 :> <<t1, t2>>) @@ (w2 :> <<>>)

\* Every process builds the same queue, as distributed-execution.md advises.
AllPublish == (w1 :> <<t1, t2>>) @@ (w2 :> <<t1, t2>>)
===============================================================================
