-------------------------- MODULE DeliveryCurrent ---------------------------
(***************************************************************************)
(* The inductive invariant of Delivery, and the proofs of its parts, for   *)
(* every set of identities and senders and every value of the bounds:      *)
(* types, the senders' keys, the length of a round, message IDs, that an   *)
(* attempt works on the row as it is, and that the parts a row counts as   *)
(* done are the parts that were confirmed.                                 *)
(***************************************************************************)
EXTENDS Delivery, FiniteSetTheorems, TLAPS

-----------------------------------------------------------------------------
(* The inductive invariant, in named parts. *)

Key(s) == worker[s].job.key

\* inFlight holds exactly the keys of the senders at work, each once.
InFlightOK ==
    /\ inFlight = {Key(s) : s \in Busy}
    /\ \A s, t \in Busy : Key(s) = Key(t) => s = t

\* The scheduler's round, and how far the finish counter can run during it.
RoundOK ==
    /\ IsFiniteSet(due)
    /\ pc # "round" => due = {}
    /\ pc = "wait" => since = 0 /\ \A k \in Keys : finished[k] = 0
    /\ pc = "snapshot" => since + Cardinality(Busy) <= Cardinality(Senders)
    /\ since + Cardinality(Busy) + Cardinality(due) <= Cardinality(Senders) + Limit

\* Everything that mentions a message agrees on the ID it was given.
Posted(b) == b \in Bodies /\ b <= posts
GivenOK ==
    /\ \A b \in Bodies : Posted(b) <=> given[b] # 0
    /\ \A i \in Ids : message[i] # NoBody => Posted(message[i]) /\ given[message[i]] = i
    /\ \A k \in Keys : rows[k].state # "none" => \E b \in Bodies : Posted(b) /\ given[b] = k[1]
    /\ \A d \in due : Posted(d.body) /\ given[d.body] = d.key[1]
    /\ \A s \in Busy : Posted(worker[s].job.body) /\ given[worker[s].job.body] = Key(s)[1]
    /\ \A x \in sent : x[2] <= posts
    /\ \A p \in promised : p[1] <= posts

Fresh(d) == d.row.state = "queued" /\ d.row.due

\* What the scheduler will not skip is the row as it still is, or a cancelled one.
DueIsCurrent ==
    \A d \in due : Fresh(d) /\
        (IsBusy(d.key) \/ rows[d.key].state = "none" \/ rows[d.key] = d.row)

WorkIsCurrent ==
    \A s \in Senders : Attempting(s) =>
        /\ Fresh(worker[s].job)
        /\ rows[Key(s)].state = "none" \/ rows[Key(s)] = worker[s].job.row

\* Parts counted as done were confirmed.
Confirmed(m, b, n) == \A p \in 1..n : <<m, b, p>> \in sent
DoneIsConfirmed ==
    /\ \A d \in due : Confirmed(d.key[2], d.body, d.row.parts)
    /\ \A s \in Busy : Confirmed(Key(s)[2], worker[s].job.body, worker[s].parts)
    /\ \A k \in Keys : rows[k].state # "none" /\ message[k[1]] # NoBody =>
                          Confirmed(k[2], message[k[1]], rows[k].parts)

\* Parts confirmed were counted as done, while no record has been lost.
Counted(m, b, n) == \A p \in Nat : <<m, b, p>> \in sent => p <= n
Working(k) == \E s \in Senders : Attempting(s) /\ Key(s) = k
ConfirmedIsDone ==
    /\ \A d \in due : ~IsBusy(d.key) => Counted(d.key[2], d.body, d.row.parts)
    /\ \A s \in Senders : Attempting(s) => Counted(Key(s)[2], worker[s].job.body, worker[s].parts)
    /\ \A k \in Keys : rows[k].state # "none" /\ message[k[1]] # NoBody /\ ~Working(k) =>
                          Counted(k[2], message[k[1]], rows[k].parts)

Inv ==
    /\ TypeOK /\ InFlightOK /\ RoundOK /\ GivenOK
    /\ ~Reused => DueIsCurrent /\ WorkIsCurrent /\ DoneIsConfirmed
    /\ ~Reused /\ faults = 0 => ConfirmedIsDone
    /\ PartsSentOnce /\ NoDeliveryLost

-----------------------------------------------------------------------------
(* Type correctness. *)

\* The row of no delivery and the row post queues are rows, without parts done.
LEMMA RowTypes == NoRow \in Row /\ NoRow.state = "none" /\ NewRow \in Row /\ NewRow.parts = 0
  BY ConstantsOK DEF NoRow, NewRow, Row, RowStates

\* An empty queue is of its type.
LEMMA TypeInit == Init => TypeOK
<1> SUFFICES ASSUME Init PROVE TypeOK
  OBVIOUS
<1>1. message \in [Ids -> Bodies \cup {NoBody}] /\ given \in [Bodies -> Ids \cup {0}]
  BY DEF Init
<1>2. rows \in [Keys -> Row] /\ finished \in [Keys -> Nat]
  BY RowTypes DEF Init
<1>3. worker \in [Senders -> Worker \cup {NoJob}]
  BY DEF Init
<1>4. resent \in BOOLEAN
  BY Zenon DEF Init
<1>5. 0 \in Nat /\ 0 \in 0..MaxPosts /\ 0 \in 0..MaxFaults /\ 0 \in 0..MaxChanges
  BY ConstantsOK
<1> QED
  BY <1>1, <1>2, <1>3, <1>4, <1>5, Zenon DEF Init, TypeOK

\* Every step of the hub, the scheduler, a sender and the clock keeps the types.
LEMMA TypeStep == TypeOK /\ [Next]_vars => TypeOK'
<1> SUFFICES ASSUME TypeOK, [Next]_vars PROVE TypeOK'
  OBVIOUS
<1> USE ConstantsOK
<1>1. ASSUME NEW i \in Ids, NEW to \in SUBSET members, Post(i, to) PROVE TypeOK'
  <2>1. posts + 1 \in Bodies
    BY <1>1 DEF TypeOK, Post, Bodies
  <2>2. message' \in [Ids -> Bodies \cup {NoBody}] /\ given' \in [Bodies -> Ids \cup {0}]
    BY <1>1, <2>1 DEF TypeOK, Post
  <2>3. rows' \in [Keys -> Row]
    BY <1>1, RowTypes DEF TypeOK, Post
  <2>4. promised' \subseteq Bodies \X Identities
    BY <1>1, <2>1 DEF TypeOK, Post
  <2> QED
    BY <1>1, <2>1, <2>2, <2>3, <2>4 DEF TypeOK, Post, groupVars, sendVars, Bodies
<1>2. ASSUME NEW ids \in SUBSET Ids, DeleteMessages(ids) PROVE TypeOK'
  BY <1>2 DEF TypeOK, DeleteMessages, Changes, groupVars, postVars, sendVars, NoRow, Row, RowStates
<1>3. ASSUME NEW cutoff \in 0..MaxPosts, NEW stale \in SUBSET Keys, Maintain(cutoff, stale)
      PROVE TypeOK'
  BY <1>3 DEF TypeOK, Maintain, Changes, groupVars, postVars, sendVars, NoRow, Row, RowStates
<1>4. ASSUME NEW m \in Identities, AddMember(m) \/ RemoveMember(m) PROVE TypeOK'
  <2>1. rows' \in [Keys -> Row]
    BY <1>4, RowTypes DEF TypeOK, AddMember, RemoveMember
  <2> QED
    BY <1>4, <2>1 DEF TypeOK, AddMember, RemoveMember, Changes, groupVars, postVars, sendVars
<1>5. CASE TakeSeq
  BY <1>5 DEF TypeOK, TakeSeq, storeVars, postVars, sendVars
<1>6. ASSUME NEW ks \in SUBSET QueuedKeys, DueDeliveries(ks) PROVE TypeOK'
  <2>1. due' \subseteq Pending
    <3>1. ASSUME NEW k \in Keys, message[k[1]] # NoBody PROVE PendingOf(k) \in Pending
      <4>1. k[1] \in Ids
        BY DEF Keys
      <4>2. message[k[1]] \in Bodies /\ rows[k] \in Row
        BY <3>1, <4>1 DEF TypeOK
      <4> QED
        BY <4>2 DEF PendingOf, Pending
    <3> QED
      BY <1>6, <3>1 DEF DueDeliveries, QueuedKeys
  <2> QED
    BY <1>6, <2>1 DEF TypeOK, DueDeliveries, storeVars, postVars, sendVars
<1>7. ASSUME NEW d \in due, SkipBusy(d) PROVE TypeOK'
  BY <1>7 DEF TypeOK, SkipBusy, storeVars, postVars, sendVars
<1>8. ASSUME NEW d \in due, NEW s \in Senders, NEW p \in BOOLEAN, Dispatch(d, s, p) PROVE TypeOK'
  <2>1. Begin(d, p) \in Worker
    BY DEF TypeOK, Begin, Worker, Pending, Row, Results
  <2> QED
    BY <1>8, <2>1 DEF TypeOK, Dispatch, storeVars, postVars, sendVars, Pending
<1>9. CASE EndRound
  BY <1>9 DEF TypeOK, EndRound, storeVars, postVars, sendVars
<1>10. ASSUME NEW s \in Senders, SendPart(s) PROVE TypeOK'
  <2> DEFINE w == worker[s]
  <2>1. w \in Worker /\ w.job.key \in Keys /\ w.job.body \in Bodies /\ w.parts \in Nat
    BY <1>10 DEF TypeOK, SendPart, Sending, Worker, Pending
  <2>2. worker' \in [Senders -> Worker \cup {NoJob}]
    BY <1>10, <2>1 DEF TypeOK, SendPart, Worker
  <2>3. <<w.job.key[2], w.job.body, w.parts + 1>> \in Identities \X Bodies \X Nat
    BY <2>1 DEF TypeOK, Keys
  <2> QED
    BY <1>10, <2>2, <2>3 DEF TypeOK, SendPart, storeVars, postVars
<1>11. ASSUME NEW s \in Senders, NEW r \in Results, SendFails(s, r) PROVE TypeOK'
  <2>1. worker[s] \in Worker /\ Attempted(worker[s].attempts) \in 0..DirectAttempts
    BY <1>11 DEF TypeOK, SendFails, Sending, Worker, Attempted
  <2>2. worker' \in [Senders -> Worker \cup {NoJob}]
    BY <1>11, <2>1, Zenon DEF TypeOK, SendFails, Worker
  <2> QED
    BY <1>11, <2>2 DEF TypeOK, SendFails, storeVars, postVars, sendVars
<1>12. ASSUME NEW s \in Senders, RecordDelivery(s) PROVE TypeOK'
  <2> DEFINE w == worker[s]
  <2>1. w \in Worker /\ w.job.key \in Keys /\ w.job.body \in Bodies
    BY <1>12 DEF TypeOK, RecordDelivery, HasResult, Sending, Worker, Pending
  <2>2. Recorded(w) \in Row
    BY <2>1 DEF TypeOK, Recorded, Row, RowStates, Worker
  <2>3. worker' \in [Senders -> Worker \cup {NoJob}]
    BY <1>12, <2>1 DEF TypeOK, RecordDelivery, Worker
  <2>4. <<w.job.body, w.job.key[2]>> \in Bodies \X Identities
    BY <2>1 DEF TypeOK, Keys
  <2>5. AwayAfter(w) \subseteq members
    BY DEF AwayAfter, TypeOK
  <2>6. rows' = [rows EXCEPT ![w.job.key] = Recorded(w)] /\ away' = AwayAfter(w)
    BY <1>12 DEF RecordDelivery
  <2> QED
    BY <1>12, <2>1, <2>2, <2>3, <2>4, <2>5, <2>6 DEF TypeOK, RecordDelivery, postVars, sendVars
<1>13. ASSUME NEW s \in Senders, RecordFails(s) PROVE TypeOK'
  <2>1. worker[s] \in Worker
    BY <1>13 DEF TypeOK, RecordFails, HasResult, Sending
  <2>2. worker' \in [Senders -> Worker \cup {NoJob}]
    BY <1>13, <2>1, Zenon DEF TypeOK, RecordFails, Worker
  <2> QED
    BY <1>13, <2>2 DEF TypeOK, RecordFails, storeVars, postVars, sendVars
<1>14. ASSUME NEW s \in Senders, NEW evict \in BOOLEAN, Finish(s, evict) PROVE TypeOK'
  <2>1. worker' \in [Senders -> Worker \cup {NoJob}]
    BY <1>14 DEF TypeOK, Finish
  <2>2. since' \in Nat /\ finished' \in [Keys -> Nat]
    BY <1>14 DEF TypeOK, Finish
  <2> QED
    BY <1>14, <2>1, <2>2 DEF TypeOK, Finish, storeVars, postVars, sendVars
<1>15. ASSUME NEW k \in Keys, RetryDue(k) PROVE TypeOK'
  BY <1>15, ZenonT(30) DEF TypeOK, RetryDue, groupVars, postVars, sendVars, Row
<1>16. ASSUME NEW m \in Identities, AwayExpires(m) PROVE TypeOK'
  BY <1>16 DEF TypeOK, AwayExpires, groupVars, postVars, sendVars
<1>17. ASSUME NEW b \in Bodies, Age(b) PROVE TypeOK'
  BY <1>17 DEF TypeOK, Age, groupVars, postVars, sendVars
<1>18. CASE Crash
  BY <1>18 DEF TypeOK, Crash, storeVars, postVars, sendVars
<1>19. CASE UNCHANGED vars
  BY <1>19 DEF TypeOK, vars, storeVars, groupVars, postVars, sendVars
<1> QED
  BY <1>1, <1>2, <1>3, <1>4, <1>5, <1>6, <1>7, <1>8, <1>9, <1>10, <1>11, <1>12, <1>13,
     <1>14, <1>15, <1>16, <1>17, <1>18, <1>19
     DEF Next, HubStep, Round, SenderStep, Attempt, Clock

-----------------------------------------------------------------------------
(* The senders and the round. *)

\* A sender's step within an attempt: its job stays, and no other sender moves.
Advances(s) ==
    SendPart(s) \/ (\E r \in Results : SendFails(s, r)) \/ RecordDelivery(s) \/ RecordFails(s)

\* What a sender at work holds is of its type.
LEMMA WorkerType ==
  ASSUME TypeOK, NEW s \in Busy
  PROVE  /\ s \in Senders /\ worker[s] \in Worker /\ worker[s].job \in Pending
         /\ Key(s) \in Keys /\ worker[s].job.body \in Bodies /\ worker[s].parts \in Nat
  BY Zenon DEF TypeOK, Busy, Worker, Pending, Key

\* A sender that gets on with its attempt keeps its job and touches no other
\* sender and nothing of the scheduler's.
LEMMA AdvanceFrame ==
  ASSUME TypeOK, NEW s \in Senders, Advances(s)
  PROVE  /\ s \in Busy /\ Busy' = Busy
         /\ \A t \in Busy : worker'[t].job = worker[t].job /\ Key(t)' = Key(t)
         /\ \A t \in Senders : t # s => worker'[t] = worker[t]
         /\ UNCHANGED <<message, pc, due, inFlight, since, finished, posts, given, promised>>
<1>1. worker[s] # NoJob /\ worker[s] \in Worker
  BY Zenon DEF Advances, SendPart, SendFails, RecordDelivery, RecordFails, HasResult, Sending, TypeOK
<1>2. /\ \A t \in Senders : t # s => worker'[t] = worker[t]
      /\ worker'[s] \in Worker /\ worker'[s].job = worker[s].job
  <2> DEFINE Goal == /\ \A t \in Senders : t # s => worker'[t] = worker[t]
                     /\ worker'[s] \in Worker /\ worker'[s].job = worker[s].job
  <2>1. CASE SendPart(s)
    BY <2>1, <1>1 DEF SendPart, Worker, TypeOK
  <2>2. ASSUME NEW r \in Results, SendFails(s, r) PROVE Goal
    <3>1. Attempted(worker[s].attempts) \in 0..DirectAttempts
      BY <1>1, ConstantsOK DEF Attempted, Worker
    <3> QED
      BY <2>2, <1>1, <3>1, Zenon DEF SendFails, Worker, TypeOK
  <2>3. CASE RecordDelivery(s)
    BY <2>3, <1>1 DEF RecordDelivery, Worker, TypeOK
  <2>4. CASE RecordFails(s)
    BY <2>4, <1>1 DEF RecordFails, Worker, TypeOK
  <2> QED
    BY <2>1, <2>2, <2>3, <2>4 DEF Advances
<1>4. worker'[s] # NoJob
  BY <1>2, NoJobIsNoWorker
<1>5. UNCHANGED <<message, pc, due, inFlight, since, finished, posts, given, promised>>
  BY Zenon DEF Advances, SendPart, SendFails, RecordDelivery, RecordFails, storeVars, postVars
<1> QED
  BY <1>1, <1>2, <1>4, <1>5 DEF Busy, Key

\* Steps that move neither a sender nor inFlight.
Elsewhere ==
    \/ HubStep \/ Clock \/ TakeSeq \/ EndRound
    \/ \E ks \in SUBSET QueuedKeys : DueDeliveries(ks)
    \/ \E d \in due : SkipBusy(d)
    \/ UNCHANGED vars

\* Steps that are no sender's and dispatch nothing leave the attempts alone.
LEMMA ElsewhereFrame == Elsewhere => UNCHANGED <<inFlight, worker, sent, resent, gaveUp, faults>>
  BY DEF Elsewhere, HubStep, Clock, TakeSeq, EndRound, DueDeliveries, SkipBusy, Post, DeleteMessages,
     Maintain, AddMember, RemoveMember, RetryDue, AwayExpires, Age, vars, groupVars, storeVars, sendVars

\* Dispatch adds the key to inFlight and the bookkeeping in sender() takes it
\* out, so no two senders ever hold the same row.
LEMMA InFlightStep == TypeOK /\ InFlightOK /\ [Next]_vars => InFlightOK'
<1> SUFFICES ASSUME TypeOK, InFlightOK, [Next]_vars PROVE InFlightOK'
  OBVIOUS
<1>1. CASE Elsewhere
  BY <1>1, ElsewhereFrame DEF InFlightOK, Busy, Key
<1>2. ASSUME NEW s \in Senders, Advances(s) PROVE InFlightOK'
  BY <1>2, AdvanceFrame DEF InFlightOK
<1>3. ASSUME NEW d \in due, NEW s \in Senders, NEW p \in BOOLEAN, Dispatch(d, s, p) PROVE InFlightOK'
  <2>1. \A t \in Senders : worker'[t] = IF t = s THEN Begin(d, p) ELSE worker[t]
    BY <1>3 DEF Dispatch, TypeOK
  <2>2. Begin(d, p) \in Worker /\ Begin(d, p).job = d
    BY DEF Begin, Worker, Pending, Row, Results, TypeOK
  <2>3. Busy' = Busy \cup {s} /\ s \notin Busy
    BY <1>3, <2>1, <2>2, NoJobIsNoWorker DEF Busy, Dispatch
  <2>4. Key(s)' = d.key /\ \A t \in Busy : Key(t)' = Key(t)
    BY <2>1, <2>2, <2>3 DEF Key, Busy
  <2>5. inFlight' = inFlight \cup {d.key} /\ d.key \notin inFlight
    BY <1>3 DEF Dispatch, IsBusy
  <2> QED
    BY <2>3, <2>4, <2>5 DEF InFlightOK
<1>4. ASSUME NEW s \in Senders, NEW evict \in BOOLEAN, Finish(s, evict) PROVE InFlightOK'
  <2>1. \A t \in Senders : worker'[t] = IF t = s THEN NoJob ELSE worker[t]
    BY <1>4 DEF Finish, TypeOK
  <2>2. Busy' = Busy \ {s} /\ s \in Busy
    BY <1>4, <2>1 DEF Busy, Finish
  <2>3. \A t \in Busy' : Key(t)' = Key(t)
    BY <2>1, <2>2 DEF Key, Busy
  <2>4. inFlight' = inFlight \ {Key(s)}
    BY <1>4 DEF Finish, Key
  <2> QED
    BY <2>2, <2>3, <2>4 DEF InFlightOK
<1>5. CASE Crash
  BY <1>5 DEF Crash, InFlightOK, Busy
<1> QED
  BY <1>1, <1>2, <1>3, <1>4, <1>5 DEF Next, Elsewhere, Round, SenderStep, Attempt, Advances

\* There are no more attempts under way than senders.
LEMMA BusyFinite ==
  ASSUME TypeOK
  PROVE  /\ IsFiniteSet(Busy) /\ Cardinality(Busy) \in Nat /\ Cardinality(Senders) \in Nat
         /\ Cardinality(Busy) <= Cardinality(Senders)
  BY ConstantsOK, FS_Subset, FS_CardinalityType DEF Busy

\* The keys of the deliveries table, in a bounded run, are finitely many.
LEMMA KeysFinite == IsFiniteSet(Keys)
<1>1. IsFiniteSet(Ids)
  BY ConstantsOK, FS_Interval DEF Ids
<1> QED
  BY <1>1, ConstantsOK, FS_Product DEF Keys

\* The snapshot is no larger than the rows it was read from.
LEMMA SnapshotSize ==
  ASSUME NEW ks \in SUBSET QueuedKeys, DueDeliveries(ks)
  PROVE  IsFiniteSet(due') /\ Cardinality(due') \in Nat /\ Cardinality(due') <= Limit
<1> DEFINE live == {k \in ks : message[k[1]] # NoBody}
           f == [k \in live |-> PendingOf(k)]
<1>1. IsFiniteSet(ks) /\ Cardinality(ks) \in Nat /\ Cardinality(ks) <= Limit
  BY KeysFinite, FS_Subset, FS_CardinalityType, Zenon DEF QueuedKeys, DueDeliveries
<1>2. IsFiniteSet(live) /\ Cardinality(live) \in Nat /\ Cardinality(live) <= Cardinality(ks)
  BY <1>1, FS_Subset, FS_CardinalityType
<1>3. due' = {PendingOf(k) : k \in live}
  BY DEF DueDeliveries
<1>4. f \in Surjection(live, due')
  BY <1>3 DEF Surjection
<1>5. IsFiniteSet(due') /\ Cardinality(due') <= Cardinality(live)
  BY <1>2, <1>4, FS_Surjection
<1>6. Cardinality(due') \in Nat
  BY <1>5, FS_CardinalityType
<1> QED
  BY <1>1, <1>2, <1>5, <1>6, ConstantsOK

\* Within a round the finish counter stays within the window, so no stamp of
\* this round is ever evicted.
LEMMA StampsKept ==
  ASSUME TypeOK, RoundOK, NEW s \in Senders, NEW evict \in BOOLEAN, Finish(s, evict), pc # "wait"
  PROVE  /\ since' = since + 1
         /\ finished' = [finished EXCEPT ![Key(s)] = since + 1]
<1>1. s \in Busy
  BY DEF Finish, Busy
<1>2. Cardinality(Busy) > 0
  BY <1>1, BusyFinite, FS_EmptySet
<1>3. Cardinality(due) \in Nat
  BY FS_CardinalityType, Zenon DEF RoundOK
<1>4. since + 1 <= Window
  <2>1. since + Cardinality(Busy) + Cardinality(due) <= Cardinality(Senders) + Limit /\ since \in Nat
    BY Zenon DEF RoundOK, TypeOK
  <2>2. Cardinality(Busy) \in Nat /\ Cardinality(Senders) \in Nat
    BY BusyFinite, Zenon
  <2> QED BY <1>2, <1>3, <2>1, <2>2, ConstantsOK, WindowCoversRound
<1>5. since' = since + 1
  BY DEF Finish
<1> DEFINE stamped == [finished EXCEPT ![Key(s)] = since + 1]
<1>6. stamped \in [Keys -> Nat]
  <2>1. since + 1 \in Nat /\ finished \in [Keys -> Nat]
    BY DEF TypeOK
  <2> QED
    BY <2>1, Zenon
<1>7. \A k \in Keys : ~(stamped[k] + Window < since + 1)
  BY <1>4, <1>6, ConstantsOK DEF TypeOK
<1>8. finished' = [k \in Keys |-> IF evict /\ stamped[k] + Window < since + 1 THEN 0 ELSE stamped[k]]
  BY <1>5 DEF Finish, Key
<1> QED
  BY <1>5, <1>6, <1>7, <1>8, Zenon

\* Within a round the finish counter stays below the window that sender()
\* keeps, so no finish of this round is evicted.
LEMMA RoundStep == TypeOK /\ InFlightOK /\ RoundOK /\ [Next]_vars => RoundOK'
<1> SUFFICES ASSUME TypeOK, InFlightOK, RoundOK, [Next]_vars PROVE RoundOK'
  OBVIOUS
<1> DEFINE B == Cardinality(Busy)
           D == Cardinality(due)
<1>a. B \in Nat /\ D \in Nat /\ Cardinality(Senders) \in Nat /\ B <= Cardinality(Senders) /\ IsFiniteSet(Busy)
  BY BusyFinite, FS_CardinalityType DEF RoundOK
<1>b. since \in Nat /\ Limit \in Nat
  BY ConstantsOK DEF TypeOK
<1>1. CASE HubStep \/ Clock \/ UNCHANGED vars
  <2>1. UNCHANGED groupVars
    BY <1>1 DEF HubStep, Clock, Post, DeleteMessages, Maintain, AddMember, RemoveMember,
       RetryDue, AwayExpires, Age, vars
  <2> QED
    BY <2>1 DEF RoundOK, groupVars, Busy
<1>2. CASE TakeSeq
  <2>1. UNCHANGED <<due, worker, since, finished>> /\ pc = "wait" /\ pc' = "snapshot" /\ Busy' = Busy
    BY <1>2 DEF TakeSeq, Busy
  <2> QED
    BY <2>1, <1>a, <1>b DEF RoundOK
<1>3. ASSUME NEW ks \in SUBSET QueuedKeys, DueDeliveries(ks) PROVE RoundOK'
  <2>1. UNCHANGED <<worker, since, finished>> /\ pc = "snapshot" /\ pc' = "round" /\ Busy' = Busy
    BY <1>3 DEF DueDeliveries, Busy
  <2> QED
    BY <2>1, <1>3, <1>a, <1>b, SnapshotSize DEF RoundOK
<1>4. ASSUME NEW d \in due, SkipBusy(d) PROVE RoundOK'
  <2>1. UNCHANGED <<pc, worker, since, finished>> /\ pc = "round" /\ due' = due \ {d} /\ Busy' = Busy
    BY <1>4 DEF SkipBusy, Busy
  <2>2. IsFiniteSet(due') /\ Cardinality(due') = D - 1
    BY <2>1, FS_RemoveElement DEF RoundOK
  <2> QED
    BY <2>1, <2>2, <1>a, <1>b DEF RoundOK
<1>5. ASSUME NEW d \in due, NEW s \in Senders, NEW p \in BOOLEAN, Dispatch(d, s, p) PROVE RoundOK'
  <2>1. UNCHANGED <<pc, since, finished>> /\ pc = "round" /\ due' = due \ {d}
    BY <1>5 DEF Dispatch
  <2>2. IsFiniteSet(due') /\ Cardinality(due') = D - 1
    BY <2>1, FS_RemoveElement DEF RoundOK
  <2>3. Busy' = Busy \cup {s} /\ s \notin Busy
    <3>1. Begin(d, p) \in Worker
      BY DEF Begin, Worker, Pending, Row, Results, TypeOK
    <3> QED
      BY <1>5, <3>1, NoJobIsNoWorker DEF Busy, Dispatch, TypeOK
  <2>4. Cardinality(Busy') = B + 1
    BY <2>3, <1>a, FS_AddElement, Zenon
  <2> QED
    BY <2>1, <2>2, <2>4, <1>a, <1>b DEF RoundOK
<1>6. CASE EndRound
  <2>1. due' = {} /\ pc' = "wait" /\ since' = 0 /\ (\A k \in Keys : finished'[k] = 0) /\ Busy' = Busy
    BY <1>6 DEF EndRound, Busy
  <2> QED
    BY <2>1, <1>a, <1>b, FS_EmptySet DEF RoundOK
<1>7. ASSUME NEW s \in Senders, Advances(s) PROVE RoundOK'
  BY <1>7, AdvanceFrame DEF RoundOK
<1>8. ASSUME NEW s \in Senders, NEW evict \in BOOLEAN, Finish(s, evict) PROVE RoundOK'
  <2>1. UNCHANGED <<pc, due>>
    BY <1>8 DEF Finish
  <2>2. Busy' = Busy \ {s} /\ s \in Busy
    BY <1>8 DEF Finish, Busy, TypeOK
  <2>3. Cardinality(Busy') = B - 1
    BY <2>2, <1>a, FS_RemoveElement, Zenon
  <2>4. CASE pc = "wait"
    <3>1. UNCHANGED <<since, finished>>
      BY <1>8, <2>4, Zenon DEF Finish
    <3> QED
      BY <3>1, <2>1, <2>3, <1>a, <1>b DEF RoundOK
  <2>5. CASE pc # "wait"
    <3>1. since' = since + 1
      BY <1>8, <2>5, StampsKept, Zenon
    <3> QED
      BY <3>1, <2>1, <2>3, <2>5, <1>a, <1>b DEF RoundOK
  <2> QED
    BY <2>4, <2>5
<1>9. CASE Crash
  <2>1. due' = {} /\ pc' = "wait" /\ since' = 0 /\ (\A k \in Keys : finished'[k] = 0) /\ Busy' = {}
    BY <1>9 DEF Crash, Busy
  <2> QED
    BY <2>1, <1>a, <1>b, FS_EmptySet DEF RoundOK
<1> QED
  BY <1>1, <1>2, <1>3, <1>4, <1>5, <1>6, <1>7, <1>8, <1>9, Zenon
     DEF Next, Round, SenderStep, Attempt, Advances

-----------------------------------------------------------------------------
(* Message IDs. *)

\* Rows, snapshots and attempts keep agreeing on the IDs messages were given.
LEMMA GivenStep == TypeOK /\ InFlightOK /\ GivenOK /\ [Next]_vars => GivenOK'
<1> SUFFICES ASSUME TypeOK, InFlightOK, GivenOK, [Next]_vars PROVE GivenOK'
  OBVIOUS
<1> USE ConstantsOK
<1>0. \A k \in Keys : k[1] \in Ids /\ k[2] \in Identities
  BY Zenon DEF Keys
<1>1. ASSUME NEW i \in Ids, NEW to \in SUBSET members, Post(i, to) PROVE GivenOK'
  <2>1. /\ posts \in Nat /\ posts + 1 \in Bodies /\ posts' = posts + 1
        /\ given' = [given EXCEPT ![posts + 1] = i]
        /\ message' = [message EXCEPT ![i] = posts + 1]
        /\ UNCHANGED <<due, worker, sent>> /\ Busy' = Busy
    BY <1>1 DEF Post, TypeOK, Bodies, groupVars, sendVars, Busy
  <2>2. \A b \in Bodies : Posted(b) => Posted(b)' /\ given'[b] = given[b]
    BY <2>1 DEF Posted, TypeOK, Bodies
  <2>3. \E b \in Bodies : b = posts + 1 /\ Posted(b)' /\ given'[b] = i
    BY <2>1 DEF Posted, TypeOK
  <2>4. \A b \in Bodies : Posted(b)' => Posted(b) \/ b = posts + 1
    BY <2>1 DEF Posted, Bodies
  <2>5. \A b \in Bodies : Posted(b)' <=> given'[b] # 0
    <3>1. \A b \in Bodies : given'[b] = IF b = posts + 1 THEN i ELSE given[b]
      BY <2>1, Zenon DEF TypeOK
    <3>2. \A b \in Bodies : Posted(b) <=> given[b] # 0
      BY Zenon DEF GivenOK
    <3> QED
      BY <3>1, <3>2, <2>1 DEF Ids, Posted, Bodies
  <2>6. \A j \in Ids : message'[j] # NoBody => message'[j] \in Bodies /\ message'[j] <= posts' /\ given'[message'[j]] = j
    <3>1. \A j \in Ids : message'[j] = IF j = i THEN posts + 1 ELSE message[j]
      BY <2>1, Zenon DEF TypeOK
    <3>2. \A j \in Ids : message[j] # NoBody => message[j] \in Bodies /\ Posted(message[j]) /\ given[message[j]] = j
      BY Zenon DEF GivenOK, Posted
    <3>3. posts + 1 \in Bodies /\ posts + 1 <= posts' /\ given'[posts + 1] = i
      BY <2>3, Zenon DEF Posted
    <3>4. \A b \in Bodies : Posted(b) => b <= posts' /\ given'[b] = given[b]
      BY <2>2, Zenon DEF Posted
    <3>5. ASSUME NEW j \in Ids, message'[j] # NoBody
          PROVE  message'[j] \in Bodies /\ message'[j] <= posts' /\ given'[message'[j]] = j
      <4>1. CASE j = i
        BY <3>1, <3>3, <4>1, Zenon
      <4>2. CASE j # i
        <5>1. message'[j] = message[j]
          BY <3>1, <4>2, Zenon
        <5> QED BY <3>2, <3>4, <3>5, <5>1, Zenon
      <4> QED BY <4>1, <4>2, Zenon
    <3> QED BY <3>5, Zenon
  <2>7. \A k \in Keys : rows'[k].state # "none" => \E b \in Bodies : Posted(b)' /\ given'[b] = k[1]
    <3>1. \A k \in Keys : rows'[k] = IF k[1] = i /\ k[2] \in to THEN NewRow ELSE rows[k]
      BY <1>1 DEF Post
    <3>2. ASSUME NEW k \in Keys, k[1] # i, rows'[k].state # "none"
          PROVE  \E b \in Bodies : Posted(b)' /\ given'[b] = k[1]
      <4>1. rows[k].state # "none"
        BY <3>1, <3>2
      <4>2. PICK b \in Bodies : Posted(b) /\ given[b] = k[1]
        BY <4>1, Zenon DEF GivenOK
      <4> QED
        BY <4>2, <2>2, Zenon
    <3> QED
      BY <3>2, <2>3, Zenon
  <2>8. \A d \in due' : Posted(d.body)' /\ given'[d.body] = d.key[1]
    BY <2>1, <2>2, Zenon DEF GivenOK, Posted
  <2>9. \A s \in Busy' : /\ worker'[s].job.body \in Bodies /\ worker'[s].job.body <= posts'
                         /\ given'[worker'[s].job.body] = Key(s)'[1]
    BY <2>1, <2>2 DEF GivenOK, Posted, Key
  <2>10. \A x \in sent' : x[2] <= posts'
    <3>1. \A x \in sent : x[2] \in Bodies
      BY Zenon DEF TypeOK
    <3> QED
      BY <2>1, <3>1 DEF GivenOK, Bodies
  <2>11. \A p \in promised' : p[1] <= posts'
    <3>1. \A p \in promised : p[1] \in Bodies
      BY DEF TypeOK
    <3>2. promised' = promised \cup ({posts + 1} \X to)
      BY <1>1, Zenon DEF Post
    <3> QED
      BY <2>1, <3>1, <3>2 DEF GivenOK, Bodies
  <2> QED
    BY <2>5, <2>6, <2>7, <2>8, <2>9, <2>10, <2>11, Zenon DEF GivenOK, Posted
<1>2. ASSUME UNCHANGED <<posts, given, sent, due, worker>>,
             promised' \subseteq promised,
             \A i \in Ids : message'[i] \in {NoBody, message[i]},
             \A k \in Keys : rows[k].state = "none" => rows'[k].state = "none"
      PROVE GivenOK'
  <2>1. \A b : Posted(b)' = Posted(b)
    BY <1>2 DEF Posted
  <2>2. Busy' = Busy /\ \A s \in Busy : Key(s)' = Key(s)
    BY <1>2 DEF Busy, Key
  <2> QED
    BY <1>2, <2>2, Zenon DEF GivenOK, Posted, Key
<1>3. ASSUME HubStep, ~\E i \in Ids, to \in SUBSET members : Post(i, to) PROVE GivenOK'
  <2>1. UNCHANGED <<posts, given, sent, due, worker>> /\ promised' \subseteq promised
    BY <1>3, Zenon
       DEF HubStep, DeleteMessages, Maintain, AddMember, RemoveMember, postVars, sendVars, groupVars
  <2>2. \A i \in Ids : message'[i] \in {NoBody, message[i]}
    BY <1>3, ZenonT(30) DEF HubStep, DeleteMessages, Maintain, AddMember, RemoveMember
  <2>3. \A k \in Keys : rows[k].state = "none" => rows'[k].state = "none"
    BY <1>3 DEF HubStep, DeleteMessages, Maintain, AddMember, RemoveMember, NoRow
  <2> QED
    BY <1>2, <2>1, <2>2, <2>3, Zenon
<1>4. CASE Clock
  <2>1. UNCHANGED <<posts, given, sent, due, worker, promised, message>>
    BY <1>4 DEF Clock, RetryDue, AwayExpires, Age, groupVars, postVars, sendVars
  <2>2. \A k \in Keys : rows'[k].state = rows[k].state
    BY <1>4 DEF Clock, RetryDue, AwayExpires, Age, TypeOK, Row
  <2> QED
    BY <1>2, <2>1, <2>2
<1>5. CASE TakeSeq \/ UNCHANGED vars
  <2>1. UNCHANGED <<posts, given, sent, due, worker, promised, message, rows>>
    BY <1>5, Zenon DEF TakeSeq, vars, groupVars, postVars, sendVars, storeVars
  <2> QED
    BY <1>2, <2>1
<1>6. ASSUME UNCHANGED <<message, rows, posts, given, promised, sent>>,
             \A d \in due' : d \in due \/ (Posted(d.body) /\ given[d.body] = d.key[1]),
             \A s \in Senders : worker'[s] = NoJob \/ worker'[s] = worker[s]
                \/ (Posted(worker'[s].job.body) /\ given[worker'[s].job.body] = worker'[s].job.key[1])
      PROVE GivenOK'
  <2>1. \A b : Posted(b)' = Posted(b)
    BY <1>6, Zenon DEF Posted
  <2>2. \A s \in Busy' : s \in Senders /\ worker'[s] # NoJob
    BY Zenon DEF Busy
  <2>3. \A s \in Busy' : /\ worker'[s].job.body \in Bodies /\ worker'[s].job.body <= posts'
                         /\ given'[worker'[s].job.body] = Key(s)'[1]
    BY <1>6, <2>2, Zenon DEF GivenOK, Key, Busy, Posted
  <2>4. \A d \in due' : Posted(d.body)' /\ given'[d.body] = d.key[1]
    BY <1>6, <2>1, Zenon DEF GivenOK
  <2> QED
    BY <1>6, <2>1, <2>3, <2>4, ZenonT(30) DEF GivenOK, Posted
<1>7. ASSUME NEW ks \in SUBSET QueuedKeys, DueDeliveries(ks) PROVE GivenOK'
  <2>1. UNCHANGED <<message, rows, posts, given, promised, sent, worker>>
    BY <1>7, Zenon DEF DueDeliveries, storeVars, postVars, sendVars
  <2>2. ASSUME NEW d \in due' PROVE Posted(d.body) /\ given[d.body] = d.key[1]
    <3>1. PICK k \in Keys : d = PendingOf(k) /\ message[k[1]] # NoBody
      BY <1>7, Zenon DEF DueDeliveries, QueuedKeys
    <3> QED
      BY <3>1, <1>0, Zenon DEF GivenOK, PendingOf
  <2> QED
    BY <2>1, <2>2, <1>6, Zenon
<1>8. ASSUME NEW d \in due, SkipBusy(d) PROVE GivenOK'
  <2>1. UNCHANGED <<message, rows, posts, given, promised, sent, worker>> /\ due' \subseteq due
    BY <1>8, Zenon DEF SkipBusy, storeVars, postVars, sendVars
  <2> QED
    BY <2>1, <1>6
<1>9. ASSUME NEW d \in due, NEW s \in Senders, NEW p \in BOOLEAN, Dispatch(d, s, p) PROVE GivenOK'
  <2>1. UNCHANGED <<message, rows, posts, given, promised, sent>> /\ due' \subseteq due
    BY <1>9, Zenon DEF Dispatch, storeVars, postVars, sendVars
  <2>2. worker'[s].job = d /\ \A t \in Senders : t # s => worker'[t] = worker[t]
    BY <1>9, Zenon DEF Dispatch, Begin, TypeOK
  <2>3. Posted(d.body) /\ given[d.body] = d.key[1]
    BY Zenon DEF GivenOK
  <2> QED
    BY <2>1, <2>2, <2>3, <1>6, Zenon
<1>10. CASE EndRound \/ Crash
  <2>1. UNCHANGED <<message, rows, posts, given, promised, sent>> /\ due' = {}
    BY <1>10 DEF EndRound, Crash, storeVars, postVars, sendVars
  <2>2. \A s \in Senders : worker'[s] = NoJob \/ worker'[s] = worker[s]
    BY <1>10, Zenon DEF EndRound, Crash
  <2> QED
    BY <2>1, <2>2, <1>6, Zenon
<1>11. ASSUME NEW s \in Senders, NEW evict \in BOOLEAN, Finish(s, evict) PROVE GivenOK'
  <2>1. UNCHANGED <<message, rows, posts, given, promised, sent, due>>
    BY <1>11 DEF Finish, storeVars, postVars, sendVars
  <2>2. \A t \in Senders : worker'[t] = NoJob \/ worker'[t] = worker[t]
    BY <1>11, Zenon DEF Finish, TypeOK
  <2> QED
    BY <2>1, <2>2, <1>6, Zenon
<1>12. ASSUME NEW s \in Senders, Advances(s) PROVE GivenOK'
  <2>1. UNCHANGED <<message, posts, given, promised, due>>
    BY <1>12, Zenon
       DEF Advances, SendPart, SendFails, RecordDelivery, RecordFails, storeVars, postVars, sendVars
  <2>2. Busy' = Busy /\ s \in Busy /\ \A t \in Busy : worker'[t].job = worker[t].job
    BY <1>12, AdvanceFrame, Zenon DEF Busy, Elsewhere
  <2>3. \A b : Posted(b)' = Posted(b)
    BY <2>1, Zenon DEF Posted
  <2>4. \A k \in Keys : rows'[k] = rows[k] \/ k = Key(s)
    BY <1>12, Zenon
       DEF Advances, SendPart, SendFails, RecordDelivery, RecordFails, storeVars, Key, TypeOK
  <2>5. \A x \in sent' : x \in sent \/ x[2] = worker[s].job.body
    <3>1. CASE SendPart(s)
      BY <3>1 DEF SendPart
    <3>2. CASE ~SendPart(s)
      BY <1>12, <3>2, Zenon DEF Advances, SendFails, RecordDelivery, RecordFails, sendVars
    <3> QED
      BY <3>1, <3>2
  <2>6. Posted(worker[s].job.body) /\ given[worker[s].job.body] = Key(s)[1]
    BY <2>2, Zenon DEF GivenOK
  <2>7. /\ \A b \in Bodies : Posted(b)' <=> given'[b] # 0
        /\ \A i \in Ids : message'[i] # NoBody => Posted(message[i])' /\ given'[message'[i]] = i
        /\ \A d \in due' : Posted(d.body)' /\ given'[d.body] = d.key[1]
        /\ \A p \in promised' : p[1] <= posts'
    BY <2>1, <2>3, Zenon DEF GivenOK
  <2>8. \A k \in Keys : rows'[k].state # "none" => \E b \in Bodies : Posted(b)' /\ given'[b] = k[1]
    <3>1. PICK p \in Bodies : Posted(p) /\ given[p] = Key(s)[1]
      BY <2>6 DEF Posted
    <3>2. Posted(p)' /\ given'[p] = Key(s)[1]
      BY <2>1, <2>3, <3>1, Zenon
    <3>3. \A k \in Keys : rows[k].state # "none" => \E b \in Bodies : Posted(b)' /\ given'[b] = k[1]
      BY <2>1, <2>3, Zenon DEF GivenOK
    <3> QED
      BY <2>4, <3>2, <3>3
  <2>9. \A t \in Busy' : Posted(worker[t].job.body)' /\ given'[worker'[t].job.body] = Key(t)'[1]
    BY <2>1, <2>2, <2>3, Zenon DEF GivenOK, Key
  <2>10. \A x \in sent' : x[2] <= posts'
    BY <2>1, <2>5, <2>6, Zenon DEF GivenOK, Posted
  <2> QED
    BY <2>7, <2>8, <2>9, <2>10, Zenon DEF GivenOK
<1> QED
  BY <1>1, <1>3, <1>4, <1>5, <1>7, <1>8, <1>9, <1>10, <1>11, <1>12
     DEF Next, Round, SenderStep, Attempt, Advances

\* Only a post gives an ID.
LEMMA GivenFrame ==
  [Next]_vars => \/ UNCHANGED <<posts, given>>
                 \/ \E i \in Ids, to \in SUBSET members : Post(i, to)
  BY Zenon DEF Next, HubStep, Round, SenderStep, Attempt, Clock, DeleteMessages, Maintain, AddMember,
     RemoveMember, TakeSeq, DueDeliveries, SkipBusy, Dispatch, EndRound, SendPart, SendFails,
     RecordDelivery, RecordFails, Finish, RetryDue, AwayExpires, Age, Crash, vars, postVars

\* An ID given twice was given twice for good.
LEMMA ReusedStays == TypeOK /\ [Next]_vars /\ Reused => Reused'
<1> SUFFICES ASSUME TypeOK, [Next]_vars, Reused PROVE Reused'
  OBVIOUS
<1>1. PICK b \in Bodies, c \in Bodies : b < c /\ c <= posts /\ given[b] = given[c]
  BY DEF Reused
<1>2. posts' >= posts /\ given'[b] = given[b] /\ given'[c] = given[c]
  <2>0. posts \in 0..MaxPosts /\ given \in [Bodies -> Ids \cup {0}]
    BY Zenon DEF TypeOK
  <2>1. CASE UNCHANGED <<posts, given>>
    <3>1. posts >= posts
      BY <2>0, ConstantsOK
    <3> QED BY <2>1, <3>1, Zenon
  <2>2. ASSUME NEW i \in Ids, NEW to \in SUBSET members, Post(i, to)
        PROVE posts' >= posts /\ given'[b] = given[b] /\ given'[c] = given[c]
    <3>1. posts' = posts + 1 /\ given' = [given EXCEPT ![posts + 1] = i]
      BY <2>2, Zenon DEF Post
    <3>2. posts' >= posts /\ b # posts + 1 /\ c # posts + 1
      BY <1>1, <2>0, <3>1, ConstantsOK DEF Bodies
    <3> QED BY <2>0, <3>1, <3>2, Zenon
  <2> QED
    BY <2>1, <2>2, GivenFrame, Zenon
<1>3. posts \in Nat /\ posts' \in Nat
  BY TypeStep, ConstantsOK DEF TypeOK
<1> QED
  BY <1>1, <1>2, <1>3, ConstantsOK DEF Reused, Bodies

\* Unless an ID was given twice, it tells which message it is of.
LEMMA GivenOnce ==
  ASSUME TypeOK, ~Reused, NEW b, NEW c, Posted(b), Posted(c), given[b] = given[c]
  PROVE  b = c
  BY ConstantsOK DEF Reused, Posted, Bodies, TypeOK

\* Unless an ID is given twice, nothing mentions the ID of a new message yet.
LEMMA FreshId ==
  ASSUME TypeOK, GivenOK, NEW i \in Ids, NEW to \in SUBSET members, Post(i, to), ~Reused'
  PROVE  /\ \A b \in Bodies : Posted(b) => given[b] # i
         /\ \A k \in Keys : k[1] = i => rows[k].state = "none"
         /\ \A d \in due : d.key[1] # i
         /\ \A s \in Busy : Key(s)[1] # i
         /\ message[i] = NoBody
<1>1. ASSUME NEW b \in Bodies, Posted(b), given[b] = i PROVE FALSE
  <2>1. posts + 1 \in Bodies /\ b < posts + 1 /\ posts' = posts + 1
    BY <1>1, ConstantsOK DEF Post, TypeOK, Posted, Bodies
  <2>2. given'[posts + 1] = i /\ given'[b] = i
    BY <2>1, <1>1 DEF Post, TypeOK, Bodies
  <2> QED
    BY <2>1, <2>2 DEF Reused, Bodies
<1>2. \A b \in Bodies : Posted(b) => given[b] # i
  BY <1>1
<1>3. \A b : Posted(b) => b \in Bodies
  BY Zenon DEF Posted
<1>4. \A k \in Keys : k[1] = i => rows[k].state = "none"
  BY <1>2, ZenonT(30) DEF GivenOK
<1>5. (\A d \in due : d.key[1] # i) /\ \A s \in Busy : Key(s)[1] # i
  BY <1>2, <1>3, ZenonT(30) DEF GivenOK
<1>6. message[i] = NoBody
  BY <1>2, <1>3, Zenon DEF GivenOK
<1> QED
  BY <1>2, <1>4, <1>5, <1>6, Zenon

-----------------------------------------------------------------------------
(* An attempt works on the row as it is. *)

Current == DueIsCurrent /\ WorkIsCurrent

\* The busy check keeps the snapshot and the attempts in step with the rows.
LEMMA CurrentStep ==
  TypeOK /\ InFlightOK /\ RoundOK /\ GivenOK /\ Current /\ ~Reused' /\ [Next]_vars => Current'
<1> SUFFICES ASSUME TypeOK, InFlightOK, RoundOK, GivenOK, Current, ~Reused', [Next]_vars
             PROVE  Current'
  BY Zenon
<1>0. /\ \A d \in due : d.key \in Keys
      /\ \A s \in Busy : worker[s] \in Worker /\ Key(s) \in Keys /\ Key(s) \in inFlight
      /\ \A s \in Senders : Attempting(s) => s \in Busy
  BY DEF TypeOK, Pending, Worker, Busy, Key, InFlightOK, Attempting
<1>1. ASSUME UNCHANGED <<due, worker, inFlight, finished>>,
             \A k \in Keys : \/ rows'[k] = rows[k]
                             \/ rows'[k].state = "none"
                             \/ rows[k].state = "queued" /\ ~rows[k].due
                             \/ /\ \A d \in due : d.key # k
                                /\ \A s \in Busy : Key(s) # k
      PROVE Current'
  <2>1. DueIsCurrent'
    BY <1>1, <1>0, Zenon DEF Current, DueIsCurrent, Fresh, IsBusy
  <2>2. WorkIsCurrent'
    BY <1>1, <1>0, Zenon DEF Current, WorkIsCurrent, Fresh, Attempting, Key
  <2> QED
    BY <2>1, <2>2, Zenon DEF Current
<1>2. ASSUME NEW i \in Ids, NEW to \in SUBSET members, Post(i, to) PROVE Current'
  <2>1. UNCHANGED <<due, worker, inFlight, finished>> /\ \A k \in Keys : k[1] # i => rows'[k] = rows[k]
    BY <1>2, Zenon DEF Post, groupVars
  <2>2. (\A d \in due : d.key[1] # i) /\ (\A s \in Busy : Key(s)[1] # i)
    BY <1>2, FreshId, Zenon
  <2> QED
    BY <2>1, <2>2, <1>1, Zenon
<1>3. ASSUME HubStep, ~\E i \in Ids, to \in SUBSET members : Post(i, to) PROVE Current'
  <2>1. UNCHANGED <<due, worker, inFlight, finished>>
    BY <1>3, Zenon DEF HubStep, DeleteMessages, Maintain, AddMember, RemoveMember, groupVars
  <2>2. \A k \in Keys : rows'[k] = rows[k] \/ rows'[k].state = "none"
    <3>1. \A k \in Keys : rows'[k] = rows[k] \/ rows'[k] = NoRow
      BY <1>3, Zenon DEF HubStep, DeleteMessages, Maintain, AddMember, RemoveMember
    <3> QED
      BY <3>1, RowTypes, Zenon
  <2> QED
    BY <2>1, <2>2, <1>1, Zenon
<1>4. CASE Clock \/ TakeSeq \/ UNCHANGED vars
  <2>1. UNCHANGED <<due, worker, inFlight, finished>>
    BY <1>4 DEF Clock, RetryDue, AwayExpires, Age, TakeSeq, vars, groupVars
  <2>2. \A k \in Keys : rows'[k] = rows[k] \/ (rows[k].state = "queued" /\ ~rows[k].due)
    BY <1>4, Zenon DEF Clock, RetryDue, AwayExpires, Age, TakeSeq, vars, storeVars, TypeOK
  <2> QED
    BY <2>1, <2>2, <1>1
<1>5. ASSUME NEW ks \in SUBSET QueuedKeys, DueDeliveries(ks) PROVE Current'
  <2>1. UNCHANGED <<rows, worker>>
    BY <1>5, Zenon DEF DueDeliveries, storeVars
  <2>2. \A d \in due' : Fresh(d) /\ rows[d.key] = d.row
    <3>1. \A d \in due' : \E k \in ks : d = PendingOf(k) /\ rows[k].state = "queued" /\ rows[k].due
      BY <1>5, Zenon DEF DueDeliveries, QueuedKeys
    <3> QED
      BY <3>1 DEF PendingOf, Fresh
  <2>3. WorkIsCurrent'
    BY <2>1, Zenon DEF Current, WorkIsCurrent, Attempting, Key
  <2> QED
    BY <2>1, <2>2, <2>3, Zenon DEF Current, DueIsCurrent
<1>6. ASSUME NEW d \in due, SkipBusy(d) PROVE Current'
  BY <1>6, Zenon DEF SkipBusy, Current, DueIsCurrent, WorkIsCurrent, Attempting, Key, IsBusy, storeVars
<1>7. ASSUME NEW d \in due, NEW s \in Senders, NEW p \in BOOLEAN, Dispatch(d, s, p) PROVE Current'
  <2>1. UNCHANGED <<rows, finished>> /\ due' \subseteq due /\ inFlight \subseteq inFlight'
    BY <1>7, Zenon DEF Dispatch, storeVars
  <2>2. worker'[s].job = d /\ \A t \in Senders : t # s => worker'[t] = worker[t]
    BY <1>7, Zenon DEF Dispatch, Begin, TypeOK
  <2>3. Fresh(d) /\ (rows[d.key].state = "none" \/ rows[d.key] = d.row)
    BY <1>7, Zenon DEF Dispatch, Current, DueIsCurrent
  <2>4. DueIsCurrent'
    BY <2>1, Zenon DEF Current, DueIsCurrent, IsBusy
  <2>5. WorkIsCurrent'
    BY <2>1, <2>2, <2>3, Zenon DEF Current, WorkIsCurrent, Attempting, Key
  <2> QED
    BY <2>4, <2>5 DEF Current
<1>8. CASE EndRound \/ Crash
  <2>1. UNCHANGED rows /\ due' = {}
    BY <1>8 DEF EndRound, Crash, storeVars
  <2>2. \A s \in Senders : worker'[s] = NoJob \/ worker'[s] = worker[s]
    BY <1>8, Zenon DEF EndRound, Crash
  <2> QED
    BY <2>1, <2>2, Zenon DEF Current, DueIsCurrent, WorkIsCurrent, Attempting, Key
<1>9. ASSUME NEW s \in Senders, Advances(s) PROVE Current'
  <2>1. /\ UNCHANGED <<due, inFlight, finished>> /\ s \in Busy /\ Busy' = Busy
        /\ \A t \in Senders : t # s => worker'[t] = worker[t]
        /\ worker'[s].job = worker[s].job
    BY <1>9, AdvanceFrame, Zenon
  <2>2. \A k \in Keys : k # Key(s) => rows'[k] = rows[k]
    BY <1>9, Zenon
       DEF Advances, SendPart, SendFails, RecordDelivery, RecordFails, storeVars, Key, TypeOK
  <2>3. Attempting(s)' => Attempting(s) /\ rows' = rows
    <3>1. worker[s] \in Worker
      BY <2>1, <1>0, Zenon
    <3>2. CASE SendPart(s) \/ \E r \in Results : SendFails(s, r)
      BY <3>2, <3>1, Zenon DEF SendPart, SendFails, storeVars, Attempting, Sending
    <3>3. CASE RecordDelivery(s) \/ RecordFails(s)
      <4>1. worker'[s].phase = "done"
        BY <3>3, <3>1, Zenon DEF RecordDelivery, RecordFails, TypeOK, Worker
      <4> QED
        BY <4>1 DEF Attempting
    <3> QED
      BY <1>9, <3>2, <3>3, Zenon DEF Advances
  <2>4. \A t \in Busy : t # s => Key(t) # Key(s)
    BY <2>1, Zenon DEF InFlightOK
  <2>5. DueIsCurrent'
    BY <2>1, <2>2, <1>0, Zenon DEF Current, DueIsCurrent, IsBusy
  <2>6. WorkIsCurrent'
    <3>1. ASSUME NEW t \in Senders, Attempting(t)', t # s
          PROVE  /\ Fresh(worker[t].job)
                 /\ rows'[Key(t)].state = "none" \/ rows'[Key(t)] = worker[t].job.row
      <4>1. Attempting(t) /\ t \in Busy
        BY <3>1, <2>1, ZenonT(30) DEF Attempting, Busy
      <4> QED
        BY <4>1, <3>1, <2>2, <2>4, <1>0, Zenon DEF Current, WorkIsCurrent
    <3>2. ASSUME Attempting(s)'
          PROVE  /\ Fresh(worker[s].job)
                 /\ rows'[Key(s)].state = "none" \/ rows'[Key(s)] = worker[s].job.row
      BY <3>2, <2>3 DEF Current, WorkIsCurrent
    <3> QED
      BY <3>1, <3>2, <2>1, Zenon DEF WorkIsCurrent, Key
  <2> QED
    BY <2>5, <2>6, Zenon DEF Current
<1>10. ASSUME NEW s \in Senders, NEW evict \in BOOLEAN, Finish(s, evict) PROVE Current'
  <2>1. /\ UNCHANGED <<rows, due, pc>> /\ s \in Busy
        /\ \A t \in Senders : worker'[t] = IF t = s THEN NoJob ELSE worker[t]
        /\ inFlight' = inFlight \ {Key(s)}
    BY <1>10, Zenon DEF Finish, storeVars, TypeOK, Key, Busy
  <2>2. WorkIsCurrent'
    BY <2>1, Zenon DEF Current, WorkIsCurrent, Attempting, Key
  <2>3. ASSUME due # {}
        PROVE  /\ \A k \in Keys : k # Key(s) => finished'[k] = finished[k]
               /\ finished'[Key(s)] > 0
    <3>1. pc # "wait"
      BY <2>3 DEF RoundOK
    <3>2. finished' = [finished EXCEPT ![Key(s)] = since + 1]
      BY <3>1, <1>10, StampsKept, Zenon
    <3>3. Key(s) \in Keys /\ finished \in [Keys -> Nat] /\ since + 1 > 0
      BY <2>1, <1>0 DEF TypeOK
    <3> QED
      BY <3>2, <3>3
  <2>4. DueIsCurrent'
    BY <2>1, <2>3, <1>0, Zenon DEF Current, DueIsCurrent, IsBusy
  <2> QED
    BY <2>2, <2>4, Zenon DEF Current
<1> QED
  BY <1>2, <1>3, <1>4, <1>5, <1>6, <1>7, <1>8, <1>9, <1>10
     DEF Next, Round, SenderStep, Attempt, Advances

-----------------------------------------------------------------------------
(* Parts counted as done, and parts confirmed. *)

\* Steps of the hub that store nothing new.
Cancels == \/ \E ids \in SUBSET Ids : DeleteMessages(ids)
           \/ \E cutoff \in 0..MaxPosts, stale \in SUBSET Keys : Maintain(cutoff, stale)
           \/ \E m \in Identities : AddMember(m) \/ RemoveMember(m)

\* Deleting, pruning, joining and leaving only take rows away.
LEMMA CancelFrame ==
  ASSUME Cancels
  PROVE  /\ UNCHANGED <<due, inFlight, finished, worker, sent, resent, posts, given, gaveUp, faults>>
         /\ promised' \subseteq promised
         /\ \A i \in Ids : message'[i] \in {NoBody, message[i]}
         /\ \A k \in Keys : rows'[k] = rows[k] \/ rows'[k].state = "none"
<1>1. /\ UNCHANGED <<due, inFlight, finished, worker, sent, resent, posts, given, gaveUp, faults>>
      /\ promised' \subseteq promised
  BY Zenon DEF Cancels, DeleteMessages, Maintain, AddMember, RemoveMember, groupVars, sendVars, postVars
<1>2. \A i \in Ids : message'[i] \in {NoBody, message[i]}
  BY DEF Cancels, DeleteMessages, Maintain, AddMember, RemoveMember
<1>3. \A k \in Keys : rows'[k] = rows[k] \/ rows'[k] = NoRow
  BY Zenon DEF Cancels, DeleteMessages, Maintain, AddMember, RemoveMember
<1> QED
  BY <1>1, <1>2, <1>3, RowTypes, Zenon

\* The clock changes only when a row is due, not what it says.
LEMMA ClockFrame ==
  ASSUME TypeOK, Clock \/ TakeSeq \/ UNCHANGED vars
  PROVE  /\ UNCHANGED <<due, inFlight, finished, worker, sent, resent, posts, given, gaveUp, faults,
                        promised, message>>
         /\ \A k \in Keys : rows'[k].state = rows[k].state /\ rows'[k].parts = rows[k].parts
<1>1. UNCHANGED <<due, inFlight, finished, worker, sent, resent, posts, given, gaveUp, faults,
                  promised, message>>
  BY DEF Clock, RetryDue, AwayExpires, Age, TakeSeq, vars, groupVars, storeVars, sendVars, postVars
<1>2. \A k \in Keys : rows'[k].state = rows[k].state /\ rows'[k].parts = rows[k].parts
  BY DEF Clock, RetryDue, AwayExpires, Age, TakeSeq, vars, storeVars, TypeOK, Row
<1> QED
  BY <1>1, <1>2, Zenon

\* The message under a worker's ID, if there is one, is the one it is sending.
LEMMA SameBody ==
  ASSUME TypeOK, GivenOK, ~Reused, NEW s \in Busy, message[Key(s)[1]] # NoBody, Key(s) \in Keys
  PROVE  message[Key(s)[1]] = worker[s].job.body
<1>1. Key(s)[1] \in Ids
  BY Zenon DEF Keys
<1>2. Posted(message[Key(s)[1]]) /\ given[message[Key(s)[1]]] = Key(s)[1]
  BY <1>1, Zenon DEF GivenOK
<1>3. Posted(worker[s].job.body) /\ given[worker[s].job.body] = Key(s)[1]
  BY Zenon DEF GivenOK
<1> QED
  BY <1>2, <1>3, GivenOnce

\* The types of what senders, the snapshot and the table refer to.
LEMMA WorkerKeys ==
  ASSUME TypeOK, InFlightOK
  PROVE  /\ \A s \in Busy : s \in Senders /\ worker[s] \in Worker /\ Key(s) \in Keys /\ Key(s) \in inFlight
         /\ \A s \in Busy : worker[s].parts \in Nat /\ worker[s].job.body \in Bodies
         /\ \A s \in Senders : Attempting(s) => s \in Busy
         /\ \A d \in due : d.key \in Keys /\ d.row.parts \in Nat /\ d.body \in Bodies
         /\ \A k \in Keys : k[1] \in Ids /\ k[2] \in Identities /\ k = <<k[1], k[2]>>
         /\ \A k \in Keys : rows[k] \in Row /\ rows[k].parts \in Nat
<1>1. \A s \in Busy : s \in Senders /\ worker[s] \in Worker
  BY Zenon DEF Busy, TypeOK
<1>2. \A s \in Busy : worker[s].parts \in Nat /\ worker[s].job.body \in Bodies /\ Key(s) \in Keys
  BY <1>1, Zenon DEF Worker, Pending, Key
<1>3. \A d \in due : d.key \in Keys /\ d.row.parts \in Nat /\ d.body \in Bodies
  BY DEF TypeOK, Pending, Row
<1>4. \A k \in Keys : rows[k] \in Row /\ rows[k].parts \in Nat
  BY DEF TypeOK, Row
<1>5. \A k \in Keys : k[1] \in Ids /\ k[2] \in Identities /\ k = <<k[1], k[2]>>
  BY DEF Keys
<1> QED
  BY <1>1, <1>2, <1>3, <1>4, <1>5 DEF InFlightOK, Attempting, Busy

\* What each step of a sender does to the parts it has counted.
LEMMA SendPartEffect ==
  ASSUME TypeOK, InFlightOK, NEW s \in Senders, SendPart(s)
  PROVE  /\ worker'[s].parts = worker[s].parts + 1
         /\ sent' = sent \cup {<<Key(s)[2], worker[s].job.body, worker[s].parts + 1>>}
         /\ resent' = (resent \/ <<Key(s)[2], worker[s].job.body, worker[s].parts + 1>> \in sent)
         /\ Attempting(s) /\ Attempting(s)'
         /\ UNCHANGED <<rows, gaveUp, faults>>
<1>1. worker[s] \in Worker
  BY DEF SendPart, Sending, TypeOK
<1>2. /\ worker'[s].parts = worker[s].parts + 1 /\ worker'[s].phase = worker[s].phase
      /\ worker'[s] \in Worker
  BY <1>1 DEF SendPart, TypeOK, Worker
<1>3. worker'[s] # NoJob
  BY <1>2, NoJobIsNoWorker
<1>4. /\ sent' = sent \cup {<<Key(s)[2], worker[s].job.body, worker[s].parts + 1>>}
      /\ resent' = (resent \/ <<Key(s)[2], worker[s].job.body, worker[s].parts + 1>> \in sent)
      /\ UNCHANGED <<rows, gaveUp, faults>>
  BY Zenon DEF SendPart, Key, storeVars
<1> QED
  BY <1>2, <1>3, <1>4 DEF SendPart, Sending, Attempting

\* A failed send leaves the parts that got through counted.
LEMMA SendFailsEffect ==
  ASSUME TypeOK, InFlightOK, NEW s \in Senders, NEW r \in Results, SendFails(s, r)
  PROVE  /\ worker'[s].parts = worker[s].parts
         /\ Attempting(s) /\ Attempting(s)'
         /\ UNCHANGED <<rows, sent, resent, gaveUp, faults>>
<1>1. worker[s] \in Worker
  BY DEF SendFails, Sending, TypeOK
<1>2. worker'[s].parts = worker[s].parts /\ worker'[s].phase = "failed"
  BY <1>1 DEF SendFails, TypeOK, Worker
<1>3. worker'[s] # NoJob
  <2>1. s \in Busy'
    <3>1. Advances(s)
      BY Zenon DEF Advances
    <3> QED
      BY <3>1, AdvanceFrame
  <2> QED
    BY <2>1, Zenon DEF Busy
<1> QED
  BY <1>2, <1>3 DEF SendFails, Sending, Attempting, storeVars, sendVars

\* RecordDelivery ends the attempt and writes its row, or fails and writes none.
LEMMA RecordEffect ==
  ASSUME TypeOK, InFlightOK, NEW s \in Senders, RecordDelivery(s) \/ RecordFails(s)
  PROVE  /\ worker'[s].parts = worker[s].parts
         /\ Attempting(s) /\ ~Attempting(s)'
         /\ UNCHANGED <<sent, resent>>
         /\ RecordFails(s) => UNCHANGED <<rows, gaveUp>> /\ faults' = faults + 1
         /\ RecordDelivery(s) => faults' = faults /\ rows' = [rows EXCEPT ![Key(s)] = Recorded(worker[s])]
<1>1. worker[s] \in Worker
  BY DEF RecordDelivery, RecordFails, HasResult, TypeOK
<1>2. worker'[s].parts = worker[s].parts /\ worker'[s].phase = "done"
  BY <1>1, ZenonT(30) DEF RecordDelivery, RecordFails, TypeOK, Worker
<1> QED
  BY <1>2 DEF RecordDelivery, RecordFails, HasResult, Sending, Attempting, storeVars, sendVars, Key

\* parts_done never counts a part that was not confirmed.
LEMMA DoneStep ==
  TypeOK /\ InFlightOK /\ GivenOK /\ DoneIsConfirmed /\ ~Reused /\ ~Reused' /\ [Next]_vars
    => DoneIsConfirmed'
<1> SUFFICES ASSUME TypeOK, InFlightOK, GivenOK, DoneIsConfirmed, ~Reused, ~Reused', [Next]_vars
             PROVE  DoneIsConfirmed'
  OBVIOUS
<1>0. TypeOK'
  BY TypeStep, Zenon
<1> DEFINE DueDone == \A d \in due : Confirmed(d.key[2], d.body, d.row.parts)
           WorkDone == \A s \in Busy : Confirmed(Key(s)[2], worker[s].job.body, worker[s].parts)
           RowDone(k) == rows[k].state # "none" /\ message[k[1]] # NoBody =>
                            Confirmed(k[2], message[k[1]], rows[k].parts)
<1>1. ASSUME NEW i \in Ids, NEW to \in SUBSET members, Post(i, to) PROVE DoneIsConfirmed'
  <2>1. UNCHANGED <<due, worker, sent>>
    BY <1>1, Zenon DEF Post, groupVars, sendVars
  <2>2. DueDone' /\ WorkDone'
    BY <2>1, Zenon DEF DoneIsConfirmed, Confirmed, Busy, Key
  <2>3. ASSUME NEW k \in Keys, k[1] = i PROVE RowDone(k)'
    <3>1. rows'[k] = NewRow \/ rows'[k].state = "none"
      BY <1>1, <2>3, FreshId, Zenon DEF Post
    <3>2. CASE rows'[k] = NewRow
      <4>1. rows'[k].parts = 0
        BY <3>2, RowTypes
      <4> QED
        BY <4>1 DEF Confirmed
    <3> QED
      BY <3>1, <3>2, Zenon
  <2>4. ASSUME NEW k \in Keys, k[1] # i PROVE RowDone(k)'
    <3>1. rows'[k] = rows[k] /\ message'[k[1]] = message[k[1]]
      BY <1>1, <2>4, WorkerKeys, Zenon DEF Post, TypeOK
    <3> QED
      BY <3>1, <2>1, Zenon DEF DoneIsConfirmed, Confirmed
  <2> QED
    BY <2>2, <2>3, <2>4, Zenon DEF DoneIsConfirmed
<1>2. CASE Cancels
  <2>1. UNCHANGED <<due, worker, sent>>
    BY <1>2, CancelFrame, Zenon
  <2>2. DueDone' /\ WorkDone'
    BY <2>1, Zenon DEF DoneIsConfirmed, Confirmed, Busy, Key
  <2>3. ASSUME NEW k \in Keys PROVE RowDone(k)'
    <3>1. rows'[k] = rows[k] \/ rows'[k].state = "none"
      BY <1>2, CancelFrame, Zenon
    <3>2. message'[k[1]] \in {NoBody, message[k[1]]}
      BY <1>2, CancelFrame, WorkerKeys, Zenon
    <3> QED
      BY <3>1, <3>2, <2>1, Zenon DEF DoneIsConfirmed, Confirmed
  <2> QED
    BY <2>2, <2>3, Zenon DEF DoneIsConfirmed
<1>3. CASE Clock \/ TakeSeq \/ UNCHANGED vars
  <2>1. UNCHANGED <<due, worker, sent, message>>
    BY <1>3, ClockFrame, Zenon
  <2>2. DueDone' /\ WorkDone'
    BY <2>1, Zenon DEF DoneIsConfirmed, Confirmed, Busy, Key
  <2>3. ASSUME NEW k \in Keys PROVE RowDone(k)'
    <3>1. rows'[k].state = rows[k].state /\ rows'[k].parts = rows[k].parts
      BY <1>3, ClockFrame, Zenon
    <3> QED
      BY <3>1, <2>1, Zenon DEF DoneIsConfirmed, Confirmed
  <2> QED
    BY <2>2, <2>3 DEF DoneIsConfirmed
<1>4. ASSUME UNCHANGED <<rows, message, sent>>, DueDone', WorkDone' PROVE DoneIsConfirmed'
  BY <1>4, Zenon DEF DoneIsConfirmed, Confirmed
<1>5. ASSUME NEW ks \in SUBSET QueuedKeys, DueDeliveries(ks) PROVE DoneIsConfirmed'
  <2>1. UNCHANGED <<rows, message, sent, worker>>
    BY <1>5, Zenon DEF DueDeliveries, storeVars, sendVars
  <2>2. WorkDone'
    BY <2>1, Zenon DEF DoneIsConfirmed, Confirmed, Busy, Key
  <2>3. ASSUME NEW d \in due' PROVE Confirmed(d.key[2], d.body, d.row.parts)
    <3>1. PICK k \in Keys : d = PendingOf(k) /\ message[k[1]] # NoBody /\ rows[k].state = "queued"
      BY <1>5, ZenonT(30) DEF DueDeliveries, QueuedKeys
    <3> QED
      BY <3>1, Zenon DEF DoneIsConfirmed, PendingOf
  <2> QED
    BY <2>1, <2>2, <2>3, <1>4, Zenon DEF Confirmed
<1>6. ASSUME NEW d \in due, SkipBusy(d) PROVE DoneIsConfirmed'
  <2>1. UNCHANGED <<rows, message, sent, worker>> /\ due' \subseteq due
    BY <1>6, Zenon DEF SkipBusy, storeVars, sendVars
  <2> QED
    BY <2>1, Zenon DEF DoneIsConfirmed, Confirmed, Busy, Key
<1>7. ASSUME NEW d \in due, NEW s \in Senders, NEW p \in BOOLEAN, Dispatch(d, s, p)
      PROVE  DoneIsConfirmed'
  <2>1. UNCHANGED <<rows, message, sent>> /\ due' \subseteq due
    BY <1>7, Zenon DEF Dispatch, storeVars, sendVars
  <2>2. /\ worker'[s].job = d /\ worker'[s].parts = d.row.parts
        /\ \A t \in Senders : t # s => worker'[t] = worker[t]
    BY <1>7, Zenon DEF Dispatch, Begin, TypeOK
  <2>3. WorkDone'
    BY <2>1, <2>2, Zenon DEF DoneIsConfirmed, Confirmed, Busy, Key
  <2>4. DueDone'
    BY <2>1, Zenon DEF DoneIsConfirmed, Confirmed
  <2> QED
    BY <2>1, <2>3, <2>4, <1>4, Zenon
<1>8. ASSUME \/ EndRound \/ Crash
             \/ \E s \in Senders, evict \in BOOLEAN : Finish(s, evict)
      PROVE DoneIsConfirmed'
  <2>1. UNCHANGED <<rows, message, sent>> /\ due' \subseteq due
    BY <1>8, Zenon DEF EndRound, Crash, Finish, storeVars, sendVars
  <2>2. \A s \in Senders : worker'[s] = NoJob \/ worker'[s] = worker[s]
    BY <1>8, Zenon DEF EndRound, Crash, Finish, TypeOK
  <2>3. WorkDone'
    BY <2>1, <2>2, Zenon DEF DoneIsConfirmed, Confirmed, Busy, Key
  <2>4. DueDone'
    BY <2>1, Zenon DEF DoneIsConfirmed, Confirmed
  <2> QED
    BY <2>1, <2>3, <2>4, <1>4, Zenon
<1>9. ASSUME NEW s \in Senders, Advances(s) PROVE DoneIsConfirmed'
  <2>1. /\ UNCHANGED <<message, due>> /\ s \in Busy /\ Busy' = Busy
        /\ \A t \in Busy : worker'[t].job = worker[t].job /\ Key(t)' = Key(t)
        /\ \A t \in Senders : t # s => worker'[t] = worker[t]
    BY <1>9, AdvanceFrame, Zenon
  <2>2. /\ \A x \in sent : x \in sent'
        /\ \A p \in 1..worker'[s].parts : <<Key(s)[2], worker[s].job.body, p>> \in sent'
    <3>1. \A p \in 1..worker[s].parts : <<Key(s)[2], worker[s].job.body, p>> \in sent
      BY <2>1, Zenon DEF DoneIsConfirmed, Confirmed
    <3>2. CASE SendPart(s)
      <4>1. worker[s].parts \in Nat
        BY <2>1, WorkerKeys
      <4>2. \A p \in 1..(worker[s].parts + 1) : p \in 1..worker[s].parts \/ p = worker[s].parts + 1
        BY <4>1
      <4>3. /\ worker'[s].parts = worker[s].parts + 1
            /\ sent' = sent \cup {<<Key(s)[2], worker[s].job.body, worker[s].parts + 1>>}
        BY <3>2, SendPartEffect, Zenon
      <4> QED
        BY <3>1, <4>2, <4>3, Zenon
    <3>3. CASE \E r \in Results : SendFails(s, r)
      BY <3>1, <3>3, SendFailsEffect, Zenon
    <3>4. CASE RecordDelivery(s) \/ RecordFails(s)
      BY <3>1, <3>4, RecordEffect, Zenon
    <3> QED
      BY <1>9, <3>2, <3>3, <3>4, Zenon DEF Advances
  <2>3. DueDone'
    BY <2>1, <2>2, Zenon DEF DoneIsConfirmed, Confirmed
  <2>4. WorkDone'
    <3>1. ASSUME NEW t \in Busy
          PROVE  \A p \in 1..worker'[t].parts : <<Key(t)[2], worker[t].job.body, p>> \in sent'
      <4>1. CASE t # s
        BY <4>1, <2>1, <2>2, WorkerKeys, Zenon DEF DoneIsConfirmed, Confirmed
      <4> QED
        BY <4>1, <2>2, Zenon
    <3> QED
      BY <3>1, <2>1, Zenon DEF Confirmed
  <2>5. ASSUME NEW k \in Keys, rows'[k] = rows[k] PROVE RowDone(k)'
    BY <2>5, <2>1, <2>2, Zenon DEF DoneIsConfirmed, Confirmed
  <2>6. ASSUME NEW k \in Keys, rows'[k] # rows[k] PROVE RowDone(k)'
    <3>1. RecordDelivery(s)
      BY <1>9, <2>6, SendPartEffect, SendFailsEffect, RecordEffect, Zenon DEF Advances
    <3>2. k = Key(s) /\ rows'[k].parts = worker[s].parts /\ worker'[s].parts = worker[s].parts
      <4>1. /\ rows' = [rows EXCEPT ![Key(s)] = Recorded(worker[s])]
            /\ worker'[s].parts = worker[s].parts
        BY <3>1, RecordEffect, Zenon
      <4>2. k = Key(s) /\ rows'[k] = Recorded(worker[s])
        BY <4>1, <2>6, Zenon DEF TypeOK
      <4>3. Recorded(worker[s]).parts = worker[s].parts
        BY Zenon DEF Recorded
      <4> QED
        BY <4>1, <4>2, <4>3, Zenon
    <3>3. message[k[1]] # NoBody => message[k[1]] = worker[s].job.body
      BY <3>2, <2>1, SameBody, Zenon
    <3> QED
      BY <3>2, <3>3, <2>1, <2>2, Zenon DEF Confirmed
  <2> QED
    BY <2>3, <2>4, <2>5, <2>6, Zenon DEF DoneIsConfirmed
<1> QED
  BY <1>1, <1>2, <1>3, <1>5, <1>6, <1>7, <1>8, <1>9
     DEF Next, HubStep, Cancels, Round, SenderStep, Attempt, Advances

\* The number of the next post is above the last one's.
LEMMA NextPost == \A n \in Nat : ~(n + 1 <= n)
  OBVIOUS

\* Without faults, parts_done counts every part that was confirmed.
LEMMA CountStep ==
  /\ TypeOK /\ InFlightOK /\ RoundOK /\ GivenOK /\ ConfirmedIsDone
  /\ ~Reused /\ ~Reused' /\ faults' = 0 /\ [Next]_vars
  => ConfirmedIsDone'
<1> SUFFICES ASSUME TypeOK, InFlightOK, RoundOK, GivenOK, ConfirmedIsDone,
                    ~Reused, ~Reused', faults' = 0, [Next]_vars
             PROVE  ConfirmedIsDone'
  BY Zenon
<1> DEFINE DueCounted == \A d \in due : ~IsBusy(d.key) => Counted(d.key[2], d.body, d.row.parts)
           WorkCounted == \A s \in Senders : Attempting(s) =>
                              Counted(Key(s)[2], worker[s].job.body, worker[s].parts)
           RowCounted(k) == rows[k].state # "none" /\ message[k[1]] # NoBody /\ ~Working(k) =>
                              Counted(k[2], message[k[1]], rows[k].parts)
<1>1. ASSUME UNCHANGED <<due, inFlight, finished, worker, sent>>
      PROVE  DueCounted' /\ WorkCounted' /\ \A k \in Keys : Working(k)' = Working(k)
  BY <1>1, Zenon DEF ConfirmedIsDone, Counted, IsBusy, Attempting, Key, Working
<1>2. ASSUME NEW i \in Ids, NEW to \in SUBSET members, Post(i, to) PROVE ConfirmedIsDone'
  <2>1. UNCHANGED <<due, inFlight, finished, worker, sent>>
    BY <1>2, Zenon DEF Post, groupVars, sendVars
  <2>2. ASSUME NEW k \in Keys, k[1] = i PROVE RowCounted(k)'
    <3>1. message'[k[1]] = posts + 1 /\ posts \in Nat
      BY <1>2, <2>2, ConstantsOK DEF Post, TypeOK
    <3>2. \A p \in Nat : <<k[2], posts + 1, p>> \notin sent
      <4>1. \A x \in sent : x[2] <= posts
        BY Zenon DEF GivenOK
      <4>2. posts \in Nat
        BY <3>1, Zenon
      <4>3. ~(posts + 1 <= posts)
        BY <4>2, NextPost, Zenon
      <4> QED
        BY <4>1, <4>3, Zenon
    <3> QED
      BY <3>1, <3>2, <2>1, Zenon DEF Counted
  <2>3. ASSUME NEW k \in Keys, k[1] # i PROVE RowCounted(k)'
    <3>1. rows'[k] = rows[k] /\ message'[k[1]] = message[k[1]]
      BY <1>2, <2>3, WorkerKeys, Zenon DEF Post, TypeOK
    <3> QED
      BY <3>1, <2>1, <1>1, Zenon DEF ConfirmedIsDone, Counted
  <2> QED
    BY <2>1, <2>2, <2>3, <1>1, Zenon DEF ConfirmedIsDone
<1>3. CASE Cancels
  <2>1. UNCHANGED <<due, inFlight, finished, worker, sent>>
    BY <1>3, CancelFrame, Zenon
  <2>2. ASSUME NEW k \in Keys PROVE RowCounted(k)'
    <3>1. rows'[k] = rows[k] \/ rows'[k].state = "none"
      BY <1>3, CancelFrame, Zenon
    <3>2. message'[k[1]] \in {NoBody, message[k[1]]}
      BY <1>3, CancelFrame, WorkerKeys, Zenon
    <3> QED
      BY <3>1, <3>2, <2>1, <1>1, Zenon DEF ConfirmedIsDone, Counted
  <2> QED
    BY <2>1, <2>2, <1>1, Zenon DEF ConfirmedIsDone
<1>4. CASE Clock \/ TakeSeq \/ UNCHANGED vars
  <2>1. UNCHANGED <<due, inFlight, finished, worker, sent, message>>
    BY <1>4, ClockFrame, Zenon
  <2>2. ASSUME NEW k \in Keys PROVE RowCounted(k)'
    <3>1. rows'[k].state = rows[k].state /\ rows'[k].parts = rows[k].parts
      BY <1>4, ClockFrame, Zenon
    <3> QED
      BY <3>1, <2>1, <1>1, Zenon DEF ConfirmedIsDone, Counted
  <2> QED
    BY <2>1, <2>2, <1>1, Zenon DEF ConfirmedIsDone
<1>5. ASSUME UNCHANGED <<rows, message, sent>>, DueCounted', WorkCounted',
             \A k \in Keys : Working(k) => Working(k)'
      PROVE  ConfirmedIsDone'
  BY <1>5, Zenon DEF ConfirmedIsDone, Counted
<1>6. ASSUME NEW ks \in SUBSET QueuedKeys, DueDeliveries(ks) PROVE ConfirmedIsDone'
  <2>1. UNCHANGED <<rows, message, sent, worker, inFlight, finished>>
    BY <1>6, Zenon DEF DueDeliveries, storeVars, sendVars
  <2>2. WorkCounted' /\ \A k \in Keys : Working(k)' = Working(k)
    BY <2>1, Zenon DEF ConfirmedIsDone, Counted, Attempting, Key, Working
  <2>3. ASSUME NEW d \in due', ~IsBusy(d.key) PROVE Counted(d.key[2], d.body, d.row.parts)
    <3>1. PICK k \in Keys : d = PendingOf(k) /\ message[k[1]] # NoBody /\ rows[k].state = "queued"
      BY <1>6, Zenon DEF DueDeliveries, QueuedKeys
    <3>2. d.key = k /\ d.body = message[k[1]] /\ d.row = rows[k]
      BY <3>1, Zenon DEF PendingOf
    <3>3. ~Working(k)
      BY <2>3, <3>2, WorkerKeys, Zenon DEF Working, IsBusy
    <3> QED
      BY <3>1, <3>2, <3>3, Zenon DEF ConfirmedIsDone
  <2>4. DueCounted'
    BY <2>1, <2>3, Zenon DEF Counted, IsBusy
  <2> QED
    BY <2>1, <2>2, <2>4, <1>5, Zenon
<1>7. ASSUME NEW d \in due, SkipBusy(d) PROVE ConfirmedIsDone'
  <2>1. UNCHANGED <<rows, message, sent, worker, inFlight, finished>> /\ due' \subseteq due
    BY <1>7, Zenon DEF SkipBusy, storeVars, sendVars
  <2>2. WorkCounted' /\ \A k \in Keys : Working(k)' = Working(k)
    BY <2>1, Zenon DEF ConfirmedIsDone, Counted, Attempting, Key, Working
  <2>3. DueCounted'
    BY <2>1, Zenon DEF ConfirmedIsDone, Counted, IsBusy
  <2> QED
    BY <2>1, <2>2, <2>3, <1>5, Zenon
<1>8. ASSUME NEW d \in due, NEW s \in Senders, NEW p \in BOOLEAN, Dispatch(d, s, p)
      PROVE  ConfirmedIsDone'
  <2>1. UNCHANGED <<rows, message, sent, finished>> /\ due' \subseteq due /\ inFlight \subseteq inFlight'
    BY <1>8, Zenon DEF Dispatch, storeVars, sendVars
  <2>2. /\ worker'[s].job = d /\ worker'[s].parts = d.row.parts /\ worker[s] = NoJob
        /\ \A t \in Senders : t # s => worker'[t] = worker[t]
    BY <1>8, Zenon DEF Dispatch, Begin, TypeOK
  <2>3. Counted(d.key[2], d.body, d.row.parts)
    BY <1>8, Zenon DEF Dispatch, ConfirmedIsDone
  <2>4. WorkCounted'
    BY <2>1, <2>2, <2>3, Zenon DEF ConfirmedIsDone, Counted, Attempting, Key
  <2>5. DueCounted'
    BY <2>1, Zenon DEF ConfirmedIsDone, Counted, IsBusy
  <2>6. \A k \in Keys : Working(k) => Working(k)'
    BY <2>2, Zenon DEF Working, Attempting, Key
  <2> QED
    BY <2>1, <2>4, <2>5, <2>6, <1>5, Zenon
<1>9. CASE EndRound
  <2>1. UNCHANGED <<rows, message, sent, worker>> /\ due' = {}
    BY <1>9, Zenon DEF EndRound, storeVars, sendVars
  <2>2. WorkCounted' /\ \A k \in Keys : Working(k)' = Working(k)
    BY <2>1, Zenon DEF ConfirmedIsDone, Counted, Attempting, Key, Working
  <2> QED
    BY <2>1, <2>2, <1>5, Zenon
<1>10. ASSUME NEW s \in Senders, NEW evict \in BOOLEAN, Finish(s, evict) PROVE ConfirmedIsDone'
  <2>1. /\ UNCHANGED <<rows, message, sent, due, pc>> /\ s \in Busy /\ ~Attempting(s)
        /\ \A t \in Senders : worker'[t] = IF t = s THEN NoJob ELSE worker[t]
        /\ inFlight' = inFlight \ {Key(s)}
    BY <1>10, Zenon DEF Finish, storeVars, sendVars, TypeOK, Key, Busy, Attempting
  <2>2. WorkCounted'
    BY <2>1, Zenon DEF ConfirmedIsDone, Counted, Attempting, Key
  <2>3. \A k \in Keys : Working(k) => Working(k)'
    BY <2>1, Zenon DEF Working, Attempting, Key
  <2>4. ASSUME NEW d \in due, ~(d.key \in inFlight' \/ finished'[d.key] > 0)
        PROVE  ~IsBusy(d.key)
    <3>1. pc # "wait"
      BY <2>4, Zenon DEF RoundOK
    <3>2. finished' = [finished EXCEPT ![Key(s)] = since + 1]
      BY <3>1, <1>10, StampsKept, Zenon
    <3>3. d.key # Key(s)
      <4>0. Key(s) \in Keys /\ finished \in [Keys -> Nat] /\ since \in Nat
        BY <2>1, WorkerKeys, Zenon DEF TypeOK
      <4>1. Key(s) \in Keys /\ finished \in [Keys -> Nat] /\ since + 1 > 0
        BY <4>0
      <4>2. finished'[Key(s)] > 0
        BY <4>1, <3>2
      <4> QED
        BY <4>2, <2>4, Zenon
    <3> QED
      BY <3>2, <3>3, <2>1, <2>4, WorkerKeys, Zenon DEF TypeOK, IsBusy
  <2>5. DueCounted'
    BY <2>1, <2>4, Zenon DEF ConfirmedIsDone, Counted, IsBusy
  <2> QED
    BY <2>1, <2>2, <2>3, <2>5, <1>5, Zenon
<1>11. ASSUME NEW s \in Senders, \E r \in Results : SendFails(s, r) PROVE ConfirmedIsDone'
  <2>1. /\ UNCHANGED <<message, due, inFlight, finished>>
        /\ \A t \in Busy : worker'[t].job = worker[t].job /\ Key(t)' = Key(t)
        /\ \A t \in Senders : t # s => worker'[t] = worker[t]
    BY <1>11, AdvanceFrame, Zenon DEF Advances
  <2>2. worker'[s].parts = worker[s].parts /\ Attempting(s) /\ Attempting(s)' /\ UNCHANGED <<rows, sent>>
    BY <1>11, SendFailsEffect, Zenon
  <2>3. \A t \in Senders : /\ Attempting(t)' = Attempting(t)
                           /\ Attempting(t) => /\ Key(t)' = Key(t) /\ worker'[t].parts = worker[t].parts
                                               /\ worker'[t].job = worker[t].job
    BY <2>1, <2>2, WorkerKeys, Zenon DEF Attempting
  <2>4. WorkCounted' /\ \A k \in Keys : Working(k) => Working(k)'
    BY <2>2, <2>3, Zenon DEF ConfirmedIsDone, Counted, Working
  <2>5. DueCounted'
    BY <2>1, <2>2, Zenon DEF ConfirmedIsDone, Counted, IsBusy
  <2> QED
    BY <2>1, <2>2, <2>4, <2>5, <1>5, Zenon
<1>12. ASSUME NEW s \in Senders, SendPart(s) PROVE ConfirmedIsDone'
  <2>1. /\ UNCHANGED <<message, due, inFlight, finished>> /\ s \in Busy
        /\ \A t \in Busy : worker'[t].job = worker[t].job /\ Key(t)' = Key(t)
        /\ \A t \in Senders : t # s => worker'[t] = worker[t]
    BY <1>12, AdvanceFrame, Zenon DEF Advances
  <2>2. /\ worker'[s].parts = worker[s].parts + 1 /\ Attempting(s) /\ Attempting(s)' /\ UNCHANGED rows
        /\ sent' = sent \cup {<<Key(s)[2], worker[s].job.body, worker[s].parts + 1>>}
    BY <1>12, SendPartEffect, Zenon
  <2>3. \A t \in Senders : /\ Attempting(t)' = Attempting(t)
                           /\ Attempting(t) => t \in Busy /\ Key(t)' = Key(t) /\ worker'[t].job = worker[t].job
    BY <2>1, <2>2, WorkerKeys, Zenon DEF Attempting
  <2>4. ASSUME NEW k \in Keys, NEW b \in Bodies, Posted(b), given[b] = k[1],
               k[2] = Key(s)[2], b = worker[s].job.body
        PROVE  k = Key(s)
    <3>1. k[1] = Key(s)[1] /\ k[2] = Key(s)[2] /\ Key(s) \in Keys
      BY <2>4, <2>1, WorkerKeys, Zenon DEF GivenOK
    <3> QED BY <3>1 DEF Keys
  <2>5. ASSUME NEW m, NEW b, NEW n, Counted(m, b, n), m # Key(s)[2] \/ b # worker[s].job.body
        PROVE  \A p \in Nat : <<m, b, p>> \in sent' => p <= n
    BY <2>5, <2>2, Zenon DEF Counted
  <2>6. ASSUME NEW t \in Senders, Attempting(t)
        PROVE  \A p \in Nat : <<Key(t)[2], worker[t].job.body, p>> \in sent' => p <= worker'[t].parts
    <3>1. Counted(Key(t)[2], worker[t].job.body, worker[t].parts) /\ t \in Busy
      BY <2>6, <2>3, Zenon DEF ConfirmedIsDone
    <3>2. CASE t = s
      <4>1. worker[s].parts \in Nat
        BY <2>1, WorkerKeys, Zenon
      <4> QED
        <5>1. \A p \in Nat : <<Key(s)[2], worker[s].job.body, p>> \in sent => p <= worker[s].parts
          BY <3>1, <3>2, Zenon DEF Counted
        <5>2. \A p \in Nat : <<Key(s)[2], worker[s].job.body, p>> \in sent'
                               => p <= worker[s].parts \/ p = worker[s].parts + 1
          BY <5>1, <2>2, Zenon
        <5>3. \A p \in Nat : <<Key(s)[2], worker[s].job.body, p>> \in sent' => p <= worker[s].parts + 1
          BY <5>2, <4>1
        <5> QED
          BY <5>3, <3>2, <2>2, Zenon
    <3>3. CASE t # s
      <4>1. Key(t) # Key(s) /\ Key(t) \in Keys /\ worker[t].job.body \in Bodies
        BY <3>3, <3>1, <2>1, WorkerKeys, Zenon DEF InFlightOK
      <4>2. Posted(worker[t].job.body) /\ given[worker[t].job.body] = Key(t)[1]
        BY <3>1, Zenon DEF GivenOK
      <4> QED
        BY <4>1, <4>2, <3>1, <3>3, <2>1, <2>4, <2>5, Zenon
    <3> QED
      BY <3>2, <3>3, Zenon
  <2>7. WorkCounted'
    BY <2>3, <2>6, Zenon DEF Counted
  <2>8. ASSUME NEW d \in due, ~IsBusy(d.key)
        PROVE  \A p \in Nat : <<d.key[2], d.body, p>> \in sent' => p <= d.row.parts
    <3>1. Counted(d.key[2], d.body, d.row.parts)
      BY <2>8, Zenon DEF ConfirmedIsDone
    <3>2. d.key \in Keys /\ d.body \in Bodies /\ Posted(d.body) /\ given[d.body] = d.key[1]
      BY WorkerKeys, Zenon DEF GivenOK
    <3>3. d.key # Key(s)
      BY <2>8, <2>1, WorkerKeys, Zenon DEF IsBusy
    <3> QED
      BY <3>1, <3>2, <3>3, <2>4, <2>5, Zenon
  <2>9. DueCounted'
    BY <2>1, <2>8, Zenon DEF Counted, IsBusy
  <2>10. \A k \in Keys : Working(k)' = Working(k)
    BY <2>3, Zenon DEF Working
  <2>11. ASSUME NEW k \in Keys PROVE RowCounted(k)'
    <3>1. SUFFICES ASSUME rows[k].state # "none", message[k[1]] # NoBody, ~Working(k)
                   PROVE  \A p \in Nat : <<k[2], message[k[1]], p>> \in sent' => p <= rows[k].parts
      BY <2>1, <2>2, <2>10, Zenon DEF Counted
    <3>2. Counted(k[2], message[k[1]], rows[k].parts)
      BY <3>1, Zenon DEF ConfirmedIsDone
    <3>3. message[k[1]] \in Bodies /\ Posted(message[k[1]]) /\ given[message[k[1]]] = k[1]
      BY <3>1, WorkerKeys, Zenon DEF GivenOK, Posted
    <3>4. k # Key(s)
      BY <3>1, <2>2, Zenon DEF Working
    <3> QED
      BY <3>2, <3>3, <3>4, <2>4, <2>5, Zenon
  <2> QED
    BY <2>7, <2>9, <2>11, Zenon DEF ConfirmedIsDone
<1>13. ASSUME NEW s \in Senders, RecordDelivery(s) PROVE ConfirmedIsDone'
  <2>1. /\ UNCHANGED <<message, due, inFlight, finished>> /\ s \in Busy
        /\ \A t \in Busy : worker'[t].job = worker[t].job /\ Key(t)' = Key(t)
        /\ \A t \in Senders : t # s => worker'[t] = worker[t]
    BY <1>13, AdvanceFrame, Zenon DEF Advances
  <2>2. /\ Attempting(s) /\ ~Attempting(s)' /\ UNCHANGED sent
        /\ rows' = [rows EXCEPT ![Key(s)] = Recorded(worker[s])]
    BY <1>13, RecordEffect, Zenon
  <2>3. \A t \in Senders : Attempting(t)' => /\ Attempting(t) /\ Key(t)' = Key(t)
                                             /\ worker'[t] = worker[t]
    BY <2>1, <2>2, WorkerKeys, Zenon DEF Attempting, Key
  <2>4. WorkCounted'
    BY <2>2, <2>3, Zenon DEF ConfirmedIsDone, Counted
  <2>5. DueCounted'
    BY <2>1, <2>2, Zenon DEF ConfirmedIsDone, Counted, IsBusy
  <2>6. ASSUME NEW k \in Keys, k # Key(s) PROVE RowCounted(k)'
    <3>1. rows'[k] = rows[k]
      BY <2>2, <2>6 DEF TypeOK
    <3>2. Working(k) => Working(k)'
      <4>1. \A t \in Senders : Attempting(t) /\ t # s => Attempting(t)' /\ Key(t)' = Key(t)
        BY <2>1, Zenon DEF Attempting, Key
      <4> QED
        BY <4>1, <2>6, Zenon DEF Working
    <3> QED
      BY <3>1, <3>2, <2>1, <2>2, Zenon DEF ConfirmedIsDone, Counted
  <2>7. ASSUME NEW k \in Keys, k = Key(s) PROVE RowCounted(k)'
    <3>1. rows'[k].parts = worker[s].parts
      BY <2>2, <2>7, Zenon DEF TypeOK, Recorded
    <3>2. message[k[1]] # NoBody => message[k[1]] = worker[s].job.body
      BY <2>7, <2>1, SameBody, Zenon
    <3>3. Counted(k[2], worker[s].job.body, worker[s].parts)
      BY <2>7, <2>2, Zenon DEF ConfirmedIsDone
    <3> QED
      BY <3>1, <3>2, <3>3, <2>1, <2>2, Zenon DEF Counted
  <2> QED
    BY <2>4, <2>5, <2>6, <2>7, Zenon DEF ConfirmedIsDone
<1>f. faults' # faults + 1
  <2>1. faults \in 0..MaxFaults
    BY Zenon DEF TypeOK
  <2>2. faults + 1 # 0
    BY <2>1, ConstantsOK
  <2> QED BY <2>2, Zenon
<1>14. ASSUME NEW s \in Senders, RecordFails(s) PROVE FALSE
  BY <1>f, <1>14, Zenon DEF RecordFails
<1>15. CASE Crash
  BY <1>f, <1>15, Zenon DEF Crash
<1> QED
  BY <1>2, <1>3, <1>4, <1>6, <1>7, <1>8, <1>9, <1>10, <1>11, <1>12, <1>13, <1>14, <1>15, Zenon
     DEF Next, HubStep, Cancels, Round, SenderStep, Attempt
=============================================================================
