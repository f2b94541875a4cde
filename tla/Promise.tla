------------------------------ MODULE Promise ------------------------------
(***************************************************************************)
(* What the LXMF delivery queue promises, without a queue: a delivery is   *)
(* owed from the post on, until it arrives, is given up on, or is          *)
(* cancelled because its message or its member is gone.  What became of it *)
(* is final.  A cancelled delivery may linger, and arrive or fail all the  *)
(* same, while an attempt at it is under way; it is never owed again.      *)
(***************************************************************************)
EXTENDS Naturals

CONSTANT Deliveries

VARIABLES owed, lingering, arrived, failed

promiseVars == <<owed, lingering, arrived, failed>>

Open == owed \cup lingering

PromiseInit == owed = {} /\ lingering = {} /\ arrived = {} /\ failed = {}

Owe(ds) ==
    /\ ds \cap (Open \cup arrived \cup failed) = {}
    /\ owed' = owed \cup ds
    /\ UNCHANGED <<lingering, arrived, failed>>

Arrive(d) ==
    /\ d \in Open
    /\ arrived' = arrived \cup {d}
    /\ owed' = owed \ {d} /\ lingering' = lingering \ {d}
    /\ UNCHANGED failed

GiveUp(d) ==
    /\ d \in Open
    /\ failed' = failed \cup {d}
    /\ owed' = owed \ {d} /\ lingering' = lingering \ {d}
    /\ UNCHANGED arrived

\* Some of what is cancelled lingers, and some of what lingered is forgotten.
Cancel(ds, kept) ==
    /\ ds \subseteq owed
    /\ kept \subseteq lingering \cup ds
    /\ owed' = owed \ ds
    /\ lingering' = kept
    /\ UNCHANGED <<arrived, failed>>

PromiseNext ==
    \/ \E ds \in SUBSET Deliveries : Owe(ds)
    \/ \E d \in Deliveries : Arrive(d) \/ GiveUp(d)
    \/ \E ds \in SUBSET owed : \E kept \in SUBSET (lingering \cup ds) : Cancel(ds, kept)

PromiseSpec == PromiseInit /\ [][PromiseNext]_promiseVars

\* Nothing is owed for ever.
FairPromise ==
    PromiseSpec /\ \A d \in Deliveries : WF_promiseVars(d \in owed /\ (Arrive(d) \/ GiveUp(d)))
=============================================================================
