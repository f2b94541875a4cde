------------------------------- MODULE MCRooms -------------------------------
(* Instances of Rooms for TLC. *)
EXTENDS Rooms, TLC

CONSTANTS member, mod

MCIdentities == {member, mod}
MCRank == (member :> 0) @@ (mod :> 1)
=============================================================================
