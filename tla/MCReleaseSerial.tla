--------------------------- MODULE MCReleaseSerial ---------------------------
(***************************************************************************)
(* One worker.                                                             *)
(***************************************************************************)
EXTENDS ReleaseView, TLC

RowSymmetry == Permutations(RowIds)
=============================================================================
