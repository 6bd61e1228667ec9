---------------------------------- MODULE Selection ----------------------------------
(***************************************************************************)
(* The comprehensions with which the code selects from a list: SelectSeq   *)
(* with a set for the test, as a recursive function, so that proofs can    *)
(* expand it.                                                              *)
(***************************************************************************)
EXTENDS Integers, Sequences

\* What is selected of the first n elements, for every n.
SelectedUpTo(s, S) ==
  LET upTo[n \in 0..Len(s)] ==
        IF n = 0 THEN <<>>
        ELSE IF s[n] \in S THEN Append(upTo[n - 1], s[n]) ELSE upTo[n - 1]
  IN upTo

\* The elements of s that are in S, in their order.
Selected(s, S) == SelectedUpTo(s, S)[Len(s)]
======================================================================================
