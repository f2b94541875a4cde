----------------------------- MODULE MCDelivery -----------------------------
(* Delivery on small instances. *)
EXTENDS DeliveryRefines, TLC

TwoThenOne == [b \in Bodies |-> IF b = 1 THEN 2 ELSE 1]
OneEach == [b \in Bodies |-> 1]
Symmetry == Permutations(Identities) \cup Permutations(Senders)
=============================================================================
