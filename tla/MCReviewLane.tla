---------------------------- MODULE MCReviewLane ----------------------------
(* Instances of ReviewLane for TLC. *)
EXTENDS ReviewLane, TLC

\* Clients are interchangeable: no constant and no action names one.
ClientSymmetry == Permutations(Clients)
=============================================================================
