------------------------------ MODULE MCInbox ------------------------------
(* Inbox on small instances. *)
EXTENDS Inbox

CONSTANTS p, j, l, b

Kinds == [m \in Messages |-> CASE m = p -> "post" [] m = j -> "join" [] m = l -> "leave"
                             [] m = b -> "blank"]
=============================================================================
