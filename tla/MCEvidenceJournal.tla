-------------------------- MODULE MCEvidenceJournal --------------------------
(* Small instances of the evidence journal for TLC.  Two categories stand    *)
(* for the eight that the bootstrap writes one after the other.              *)
EXTENDS EvidenceJournal, TLC

TwoCategories == <<"input", "hash">>

Symmetry == Permutations(Actors)
=============================================================================
