---------------------------- MODULE Subsequence ----------------------------
(***************************************************************************)
(* What Go's filter loops (kept = append(kept, x)) leave of a slice.  The  *)
(* place of a member is told by how many kept ones come no later, so that  *)
(* the result can be reasoned about without induction on a recursion.      *)
(***************************************************************************)
EXTENDS SequencesExt

\* The members of s at the indices of I, in the order they have in s.
Sift(s, I) ==
    [k \in 1 .. Cardinality(I) |->
        s[CHOOSE i \in I : Cardinality({j \in I : j <= i}) = k]]
=============================================================================
