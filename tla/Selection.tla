------------------------------ MODULE Selection ------------------------------
(***************************************************************************)
(* What a walk over one of the code's linked lists keeps, or picks.  A     *)
(* recursive function, so that it can be unfolded in a proof.              *)
(***************************************************************************)
EXTENDS Naturals, Sequences

\* The elements of the sequence s that are in the set S, in their order in s.
Only(s, S) ==
  LET sel[i \in 0..Len(s)] ==
        IF i = 0 THEN <<>>
        ELSE IF s[i] \in S THEN Append(sel[i - 1], s[i]) ELSE sel[i - 1]
  IN  sel[Len(s)]
=============================================================================
