------------------------------- MODULE MCHealing -------------------------------
(* Three tasks at any targets in a colony of two nodes, beside each other or  *)
(* one below the other.                                                       *)
EXTENDS Healing

CONSTANTS t1, t2, t3

MCTasks == {t1, t2, t3}
MCQueue == <<t1, t2, t3>>

AllSetups == [concurrent : BOOLEAN, reroute : BOOLEAN, respawn : BOOLEAN]
================================================================================
