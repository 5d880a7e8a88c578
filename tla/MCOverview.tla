----------------------------- MODULE MCOverview -----------------------------
(* Instances of Overview for TLC.  OverviewCatchesUp is a liveness         *)
(* property, so there is no symmetry.                                      *)
EXTENDS Overview, TLC
=============================================================================
