-------------------------------- MODULE Sorting -------------------------------
(***************************************************************************)
(* list.sort with a score for its key and reverse=True, which keeps the    *)
(* order of equals (evolution.py, forest.py, mycelium/semantic.py).        *)
(***************************************************************************)
EXTENDS Naturals, Sequences, FiniteSets

\* What comes before i when the scores f are sorted.
Ahead(f, i) == {j \in DOMAIN f : f[j] > f[i] \/ (f[j] = f[i] /\ j < i)}

\* The places of f, highest score first.
HighestFirst(f) ==
  [n \in 1..Cardinality(DOMAIN f) |-> CHOOSE i \in DOMAIN f : Cardinality(Ahead(f, i)) = n - 1]
================================================================================
