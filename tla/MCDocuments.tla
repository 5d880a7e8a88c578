----------------------------- MODULE MCDocuments -----------------------------
(* Instances of Documents for TLC.                                         *)
EXTENDS Documents, TLC

Symmetry == Permutations(DocIds) \cup Permutations(ItemIds) \cup Permutations(Requests)
=============================================================================
