---------------------------- MODULE MCProvisioning ----------------------------
(* Instances of Provisioning for TLC.                                      *)
EXTENDS Provisioning, TLC

Symmetry == Permutations(Emails) \cup Permutations(Requests)
=============================================================================
