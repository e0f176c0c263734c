---------------------------- MODULE MCLaneReturn ----------------------------
(* Instances of LaneReturn for TLC. *)
EXTENDS LaneReturn

CONSTANTS one, held

\* A card that must come back, and one behind it whose parent is open.
HeldOneBoard == <<<<one, held>>>>
=============================================================================
