-------------------------- MODULE MCReleaseWorkers ---------------------------
(***************************************************************************)
(* Two workers whose handlers interleave transaction by transaction, and a *)
(* transaction or a handler that fails.                                    *)
(***************************************************************************)
EXTENDS AgentReleaseProps, TLC

Symmetry == Permutations(Workers) \cup Permutations(RowIds)
=============================================================================
