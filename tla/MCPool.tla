------------------------------- MODULE MCPool -------------------------------
(***************************************************************************)
(* McpPool for model checking: tasks, keys and connections are alike.      *)
(***************************************************************************)
EXTENDS McpPool, TLC

Symmetry == Permutations(Tasks) \cup Permutations(Keys) \cup Permutations(Conns)
=============================================================================
