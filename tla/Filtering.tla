------------------------------ MODULE Filtering ------------------------------
(***************************************************************************)
(* The filters over lists in the extensions that the proofs speak of,      *)
(* written without the recursive SelectSeq.                                *)
(***************************************************************************)
EXTENDS Naturals, Sequences

\* Array.prototype.filter: the elements of s that are in S, in their order.
Filtered(s, S) ==
  LET kept[n \in 0..Len(s)] ==
        IF n = 0 THEN <<>>
        ELSE IF s[n] \in S THEN Append(kept[n - 1], s[n]) ELSE kept[n - 1]
  IN kept[Len(s)]
=============================================================================
