---------------------------- MODULE MCIdempotency ----------------------------
(* Instances of Idempotency for TLC.  EveryRequestAnswered is a liveness   *)
(* property, so there is no symmetry.                                      *)
EXTENDS Idempotency, TLC
=============================================================================
