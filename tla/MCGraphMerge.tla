---------------------------- MODULE MCGraphMerge ----------------------------
(* Small instances of the merge node for TLC.                              *)
EXTENDS GraphMerge, TLC

Symmetry == Permutations(Branches)
=============================================================================
