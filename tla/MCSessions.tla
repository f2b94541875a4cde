----------------------------- MODULE MCSessions -----------------------------
(* Instances of Sessions for TLC: the constants are given in the .cfg. *)
EXTENDS Sessions, TLC
=============================================================================
