-------------------------------- MODULE Lists --------------------------------
(***************************************************************************)
(* What is left of a list when members are taken out of it: list.remove,   *)
(* a list comprehension with a condition, the pop of an OrderedDict.  A    *)
(* recursive function, for SelectSeq has no definition to prove from.      *)
(***************************************************************************)
EXTENDS Naturals, Sequences

\* The members of s that are in S, in their order.
Only(s, S) ==
  LET kept[i \in 0..Len(s)] ==
        IF i = 0 THEN <<>>
        ELSE IF s[i] \in S THEN Append(kept[i - 1], s[i]) ELSE kept[i - 1]
  IN kept[Len(s)]
=============================================================================
