-------------------------------- MODULE MCGrowth -------------------------------
(* One colony of at most three nodes, whose root may delegate to one child   *)
(* after the other and these to a child of their own; five Node objects are  *)
(* enough for load_tree to replace a tree that callers still hold.           *)
EXTENDS Growth
================================================================================
