---------------------------- MODULE MCAgentLoop ----------------------------
(* Instance of AgentLoop for TLC. *)
EXTENDS AgentLoop, TLC

MCTurn == 1..Cardinality(Item)
ItemSymmetry == Permutations(Item)
=============================================================================
