-------------------------------- MODULE Colonies -------------------------------
(***************************************************************************)
(* What a tree is grown from: the colony of a YAML file, module Planting,  *)
(* and the constitution that judges each spawn and each answer, module     *)
(* Charter.  Neither reads the state of the other.                         *)
(***************************************************************************)
EXTENDS Charter, Planting

(* What is grown is what the rules and the template say: a colony that was   *)
(* planted and saved, and a tree and its answers under a constitution (plant, *)
(* ConstitutionPolicy.allow, Agent.act).                                     *)
ColonySound == ColonyKept /\ CharterKept
================================================================================
