----------------------------- MODULE MCSweeper ------------------------------
(* Instances of Sweeper for TLC. *)
EXTENDS Sweeper, TLC

\* Ticks are interchangeable.
SweepSymmetry == Permutations(Sweeps)
=============================================================================
