------------------------------ MODULE MCCatalogue ------------------------------
(* Instances of Catalogue for TLC.                                         *)
EXTENDS Catalogue, TLC

Symmetry == Permutations(Own) \cup Permutations(Foreign) \cup Permutations(Names)
              \cup Permutations(Spellings) \cup Permutations(Requests)
================================================================================
