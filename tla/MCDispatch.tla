------------------------------ MODULE MCDispatch ------------------------------
(***************************************************************************)
(* Dispatch for model checking: the messages are of one session.           *)
(***************************************************************************)
EXTENDS Dispatch, TLC

MCSession == [r \in Chats |-> "session"]
Symmetry == Permutations(Workers) \cup Permutations(Chats)
=============================================================================
