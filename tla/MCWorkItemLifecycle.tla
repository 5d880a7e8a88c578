-------------------------- MODULE MCWorkItemLifecycle --------------------------
(* Instances of WorkItemLifecycle for TLC.                                 *)
EXTENDS WorkItemLifecycle, TLC

Symmetry == Permutations(ItemIds) \cup Permutations(Requests)
=============================================================================
