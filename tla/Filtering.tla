-------------------------------- MODULE Filtering --------------------------------
(***************************************************************************)
(* What a loop keeps of a sequence when it takes the elements that are in  *)
(* a set, one after another.                                               *)
(***************************************************************************)
EXTENDS Naturals, Sequences

\* The elements of s that are in S, in their order.
Among(s, S) ==
    LET kept[i \in 0..Len(s)] ==
          IF i = 0 THEN <<>>
          ELSE IF s[i] \in S THEN Append(kept[i - 1], s[i]) ELSE kept[i - 1]
    IN  kept[Len(s)]
===============================================================================
