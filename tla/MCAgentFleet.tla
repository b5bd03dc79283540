---------------------------- MODULE MCAgentFleet ----------------------------
(* Two sends, two generations, one kill or teardown. *)
EXTENDS AgentFleet, TLC

Symmetry == Permutations(Messages)
=============================================================================
