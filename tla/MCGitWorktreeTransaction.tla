----------------------- MODULE MCGitWorktreeTransaction -----------------------
(* Small instances of the delivery transaction for TLC. *)
EXTENDS GitWorktreeTransaction, TLC

Symmetry == Permutations(Items)
=============================================================================
