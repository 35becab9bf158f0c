------------------------------- MODULE MCMemory -------------------------------
(***************************************************************************)
(* MemoryTiers for model checking: two sessions, the first with two of the *)
(* three memories.                                                         *)
(***************************************************************************)
EXTENDS MemoryTiers, TLC

MCSessionOf == <<"s1", "s2", "s1">>
Symmetry == Permutations(Handlers)

\* A job, a restart, a memory that ages and the third memory count one, a
\* failure of the storage two.
Budget == jobs + restarts + Cardinality(old) + (IF made = 3 THEN 1 ELSE 0) + 2 * faults <= 3
=============================================================================
