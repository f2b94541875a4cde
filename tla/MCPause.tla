------------------------------- MODULE MCPause -------------------------------
(* Instances of Pause for TLC. *)
EXTENDS Pause, TLC

Symmetry == Permutations(Apps)
=============================================================================
