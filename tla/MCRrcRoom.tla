----------------------------- MODULE MCRrcRoom -----------------------------
(* Instances of RrcRoom for TLC. *)
EXTENDS RrcRoom, TLC

\* Every link is the same identity's.
OneOwner == [l \in Links |-> CHOOSE id \in Identities : TRUE]
Symmetry == Permutations(Links)
=============================================================================
