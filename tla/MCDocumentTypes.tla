--------------------------- MODULE MCDocumentTypes ---------------------------
(* Instances of DocumentTypes for TLC.                                     *)
EXTENDS DocumentTypes, TLC

Symmetry == Permutations(TypeIds) \cup Permutations(Requests)
=============================================================================
