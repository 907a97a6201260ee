-------------------------------- MODULE Forests --------------------------------
(***************************************************************************)
(* What is made of several trees at once: the vote of a forest, module     *)
(* Voting, and the evolution of a population, module Evolution.  Neither   *)
(* reads the state of the other.                                           *)
(***************************************************************************)
EXTENDS Voting, Evolution

(* A forest's consensus and an evolution's winner are what the answers and   *)
(* the grades say, whatever the order and the cache (Forest.asolve, evolve). *)
ForestSound == VotesKept /\ BestKept
================================================================================
