-------------------------- MODULE DeliveryRefines --------------------------
(***************************************************************************)
(* Delivery implements Promise, as long as no message ID is given twice.   *)
(***************************************************************************)
EXTENDS Delivery

Deliveries == Bodies \X Identities

Arrived == {d \in Deliveries : \A p \in 1..Parts[d[1]] : <<d[2], d[1], p>> \in sent}
Settled == Arrived \cup gaveUp

\* An attempt at d is under way, or will be when this round comes to it, or the
\* outcome of one has put its row back after it was cancelled.
InHand(d) ==
    \/ \E s \in Senders : worker[s] # NoJob /\ worker[s].job.body = d[1] /\ worker[s].job.key[2] = d[2]
    \/ \E j \in due : j.body = d[1] /\ j.key[2] = d[2]
    \/ given[d[1]] # 0 /\ rows[<<given[d[1]], d[2]>>].state = "queued"

P == INSTANCE Promise WITH
        owed <- promised \ Settled,
        lingering <- {d \in Deliveries \ (promised \cup Settled) : InHand(d)},
        arrived <- Arrived,
        failed <- gaveUp \ Arrived

\* The queue, its scheduler and its senders keep the promise: every step that
\* crashes, retries, cancels or records is one of Promise's or changes nothing
\* in it, and nothing is owed for ever.
KeepsPromise == P!FairPromise
=============================================================================
