--------------------------- MODULE DeliveryProofs ---------------------------
(***************************************************************************)
(* The theorems about Delivery, for every set of identities and senders    *)
(* and every value of the bounds; and that it implements Promise.          *)
(*                                                                         *)
(* The refinement needs one thing more than the invariant: nothing is sent *)
(* any more of what was given up on (Over).  Then a part that is confirmed *)
(* belongs to a delivery that is still open, and an attempt whose outcome  *)
(* is recorded too.  All other steps cancel, or forget what lingered.      *)
(***************************************************************************)
EXTENDS DeliveryCurrent, DeliveryRefines

-----------------------------------------------------------------------------
(* The last two parts of the invariant. *)

\* So no step sends a confirmed part again, unless a fault came before.
LEMMA SentOnceStep == Inv /\ [Next]_vars => PartsSentOnce'
<1>0. Inv /\ [Next]_vars => faults' \in Nat
  BY TypeStep, ConstantsOK DEF Inv, TypeOK
<1> SUFFICES ASSUME Inv, [Next]_vars, ~Reused', faults' = 0, resent' PROVE FALSE
  BY <1>0 DEF PartsSentOnce
<1>1. TypeOK /\ InFlightOK /\ GivenOK /\ ~Reused
  BY ReusedStays DEF Inv
<1>2. faults = 0
  <2>1. faults \in Nat
    BY <1>1, ConstantsOK DEF TypeOK
  <2>2. faults' = faults \/ faults' = faults + 1
    BY Zenon DEF Next, HubStep, Round, SenderStep, Attempt, Clock, Post, DeleteMessages, Maintain,
       AddMember, RemoveMember, TakeSeq, DueDeliveries, SkipBusy, Dispatch, EndRound, SendPart,
       SendFails, RecordDelivery, RecordFails, Finish, RetryDue, AwayExpires, Age, Crash, vars
  <2> QED
    BY <2>1, <2>2
<1>3. ~resent /\ ConfirmedIsDone
  BY <1>1, <1>2 DEF Inv, PartsSentOnce
<1>4. PICK s \in Senders : SendPart(s)
  BY <1>3, Zenon DEF Next, HubStep, Round, SenderStep, Attempt, Clock, Post, DeleteMessages, Maintain,
     AddMember, RemoveMember, TakeSeq, DueDeliveries, SkipBusy, Dispatch, EndRound,
     SendFails, RecordDelivery, RecordFails, Finish, RetryDue, AwayExpires, Age, Crash, vars, sendVars
<1>5. <<Key(s)[2], worker[s].job.body, worker[s].parts + 1>> \in sent /\ Attempting(s)
  BY <1>1, <1>3, <1>4, SendPartEffect, Zenon
<1>6. worker[s].parts \in Nat
  BY <1>1, <1>5, WorkerKeys
<1>7. Counted(Key(s)[2], worker[s].job.body, worker[s].parts)
  BY <1>3, <1>5 DEF ConfirmedIsDone
<1>8. worker[s].parts + 1 \in Nat /\ ~(worker[s].parts + 1 <= worker[s].parts)
  BY <1>6
<1> QED
  BY <1>5, <1>7, <1>8, Zenon DEF Counted

\* No step loses a delivery that post promised.
LEMMA LostStep == Inv /\ [Next]_vars => NoDeliveryLost'
<1> SUFFICES ASSUME Inv, [Next]_vars, ~Reused',
                    NEW i \in Ids, NEW m \in Identities,
                    message'[i] # NoBody, <<message'[i], m>> \in promised'
             PROVE  Kept(i, m)'
  BY DEF NoDeliveryLost
<1>1. TypeOK /\ InFlightOK /\ GivenOK /\ ~Reused /\ DoneIsConfirmed
  BY ReusedStays DEF Inv
<1>2. message[i] # NoBody /\ <<message[i], m>> \in promised => Kept(i, m)
  BY <1>1 DEF Inv, NoDeliveryLost
<1>3. <<i, m>> \in Keys /\ <<i, m>>[1] = i /\ <<i, m>>[2] = m
  BY DEF Keys
<1> DEFINE k == <<i, m>>
<1>4. ASSUME message'[i] = message[i], promised' \subseteq promised,
             \A x \in sent : x \in sent', \A x \in gaveUp : x \in gaveUp',
             rows[k].state = "queued" => rows'[k].state = "queued"
      PROVE  Kept(i, m)'
  BY <1>2, <1>4 DEF Kept
<1>5. ASSUME NEW j \in Ids, NEW to \in SUBSET members, Post(j, to) PROVE Kept(i, m)'
  <2>1. /\ UNCHANGED <<sent, gaveUp>> /\ promised' = promised \cup ({posts + 1} \X to)
        /\ message' = [message EXCEPT ![j] = posts + 1]
        /\ rows'[k] = IF i = j /\ m \in to THEN NewRow ELSE rows[k]
    BY <1>5, <1>3, Zenon DEF Post, sendVars
  <2>2. posts \in Nat /\ \A p \in promised : p[1] <= posts
    BY <1>1, ConstantsOK DEF TypeOK, GivenOK
  <2>3. CASE i = j
    <3>1. <<posts + 1, m>> \in promised'
      BY <2>1, <2>3, <1>1, Zenon DEF TypeOK
    <3>2. <<posts + 1, m>> \notin promised
      BY <2>2
    <3>3. m \in to
      BY <3>1, <3>2, <2>1
    <3>4. rows'[k].state = "queued"
      BY <3>3, <2>1, <2>3 DEF NewRow
    <3> QED
      BY <3>4 DEF Kept
  <2>4. CASE i # j
    <3>1. message'[i] = message[i] /\ rows'[k] = rows[k] /\ message[i] \in Bodies
      BY <2>1, <2>4, <1>1, Zenon DEF TypeOK
    <3>2. message[i] <= posts
      BY <1>1, <3>1 DEF GivenOK, Posted
    <3>3. <<message[i], m>> \in promised
      BY <3>1, <3>2, <2>1, <2>2 DEF Bodies
    <3> QED
      BY <3>1, <3>3, <2>1, <1>2 DEF Kept
  <2> QED
    BY <2>3, <2>4
<1>6. CASE Cancels
  <2>1. UNCHANGED <<sent, gaveUp>> /\ promised' \subseteq promised /\ message'[i] = message[i]
    BY <1>6, CancelFrame
  <2>2. rows[k].state = "queued" => rows'[k].state = "queued"
    <3>1. CASE \E ids \in SUBSET Ids : DeleteMessages(ids)
      BY <3>1, <1>3 DEF DeleteMessages
    <3>2. ASSUME NEW cutoff \in 0..MaxPosts, NEW stale \in SUBSET Keys, Maintain(cutoff, stale)
          PROVE  rows[k].state = "queued" => rows'[k].state = "queued"
      <4>1. rows[k].state = "queued" => k \notin stale
        BY <3>2 DEF Maintain, Final
      <4>2. ~(message[i] # NoBody /\ message[i] <= cutoff)
        BY <3>2 DEF Maintain
      <4> QED
        BY <3>2, <4>1, <4>2, <1>3, Zenon DEF Maintain
    <3>3. ASSUME NEW n \in Identities, AddMember(n) \/ RemoveMember(n)
          PROVE  rows[k].state = "queued" => rows'[k].state = "queued"
      BY <3>3, <1>3 DEF AddMember, RemoveMember
    <3> QED
      BY <1>6, <3>1, <3>2, <3>3, Zenon DEF Cancels
  <2> QED
    BY <2>1, <2>2, <1>4
<1>7. CASE Clock \/ TakeSeq \/ UNCHANGED vars
  <2>1. UNCHANGED <<sent, gaveUp, promised, message>> /\ rows'[k].state = rows[k].state
    BY <1>7, <1>1, <1>3, ClockFrame, Zenon
  <2> QED
    BY <2>1, <1>4, Zenon
<1>8. ASSUME UNCHANGED <<message, rows, sent, gaveUp, promised>> PROVE Kept(i, m)'
  BY <1>8, <1>4
<1>9. CASE \/ \E ks \in SUBSET QueuedKeys : DueDeliveries(ks)
           \/ \E d \in due : SkipBusy(d) \/ \E s \in Senders, p \in BOOLEAN : Dispatch(d, s, p)
           \/ EndRound \/ Crash
           \/ \E s \in Senders : RecordFails(s) \/ \E evict \in BOOLEAN : Finish(s, evict)
           \/ \E s \in Senders, r \in Results : SendFails(s, r)
  <2>1. UNCHANGED <<message, rows, sent, gaveUp, promised>>
    BY <1>9, Zenon
       DEF DueDeliveries, SkipBusy, Dispatch, EndRound, Crash, RecordFails, Finish, SendFails,
       storeVars, sendVars
  <2> QED
    BY <2>1, <1>8, Zenon
<1>10. ASSUME NEW s \in Senders, SendPart(s) PROVE Kept(i, m)'
  <2>1. UNCHANGED <<message, rows, gaveUp, promised>> /\ \A x \in sent : x \in sent'
    BY <1>10, <1>1, SendPartEffect, AdvanceFrame, Zenon DEF Advances
  <2> QED
    BY <2>1, <1>4, Zenon
<1>11. ASSUME NEW s \in Senders, RecordDelivery(s) PROVE Kept(i, m)'
  <2>1. /\ UNCHANGED <<message, promised, sent>> /\ s \in Busy
        /\ rows' = [rows EXCEPT ![Key(s)] = Recorded(worker[s])]
    BY <1>11, <1>1, RecordEffect, AdvanceFrame DEF Advances
  <2>2. gaveUp' = IF worker[s].result = "gaveUp"
                  THEN gaveUp \cup {<<worker[s].job.body, Key(s)[2]>>} ELSE gaveUp
    BY <1>11 DEF RecordDelivery, Key
  <2>3. CASE k # Key(s)
    <3>1. rows'[k] = rows[k]
      BY <2>1, <2>3, <1>1, <1>3, Zenon DEF TypeOK
    <3> QED
      BY <3>1, <2>1, <2>2, <1>4
  <2>4. CASE k = Key(s)
    <3>1. message[i] = worker[s].job.body /\ m = Key(s)[2]
      BY <2>1, <2>4, <1>1, <1>3, SameBody, Zenon
    <3>2. rows'[k].state = Recorded(worker[s]).state
      BY <2>1, <2>4, <1>1, <1>3, Zenon DEF TypeOK
    <3>3. CASE worker[s].phase = "sending"
      <4>1. worker[s].parts >= Parts[message[i]] /\ worker[s].parts \in Nat
        BY <1>11, <3>1, <3>3, <2>1, <1>1, WorkerKeys, Zenon DEF RecordDelivery, HasResult, AllSent
      <4>2. Parts[message[i]] \in Nat
        BY <3>1, <2>1, <1>1, WorkerKeys, ConstantsOK, Zenon
      <4>3. \A p \in 1..worker[s].parts : <<m, message[i], p>> \in sent
        BY <3>1, <2>1, <1>1, Zenon DEF DoneIsConfirmed, Confirmed
      <4>4. \A p \in 1..Parts[message[i]] : <<m, message[i], p>> \in sent
        BY <4>1, <4>2, <4>3
      <4> QED
        BY <4>4, <2>1, Zenon DEF Kept
    <3>4. CASE worker[s].phase # "sending" /\ worker[s].result = "gaveUp"
      BY <3>4, <3>1, <2>1, <2>2, Zenon DEF Kept
    <3>5. CASE worker[s].phase # "sending" /\ worker[s].result # "gaveUp"
      BY <3>5, <3>2 DEF Recorded, Kept
    <3> QED
      BY <3>3, <3>4, <3>5, Zenon
  <2> QED
    BY <2>3, <2>4, Zenon
<1> QED
  BY <1>5, <1>6, <1>7, <1>9, <1>10, <1>11 DEF Next, HubStep, Cancels, Round, SenderStep, Attempt

-----------------------------------------------------------------------------
(* The theorems. *)

\* The invariant holds before the first post.
LEMMA InvInit == Init => Inv
<1> SUFFICES ASSUME Init PROVE Inv
  OBVIOUS
<1>1. TypeOK
  BY TypeInit
<1>2. Busy = {}
  BY DEF Init, Busy
<1>3. InFlightOK
  BY <1>2 DEF Init, InFlightOK
<1>4. RoundOK
  <2>1. Cardinality(Busy) = 0 /\ Cardinality(due) = 0 /\ IsFiniteSet(due)
    BY <1>2, FS_EmptySet DEF Init
  <2>2. Cardinality(Senders) \in Nat
    BY <1>1, BusyFinite, Zenon
  <2> QED
    BY <2>1, <2>2, ConstantsOK DEF Init, RoundOK
<1>5. GivenOK
  BY <1>2 DEF Init, GivenOK, Posted, Bodies, NoRow
<1>6. DueIsCurrent /\ WorkIsCurrent /\ DoneIsConfirmed /\ ConfirmedIsDone
  <2>1. \A s \in Senders : ~Attempting(s)
    BY DEF Init, Attempting
  <2>2. \A k \in Keys : rows[k].state = "none"
    BY DEF Init, NoRow
  <2> QED
    BY <1>2, <2>1, <2>2 DEF Init, DueIsCurrent, WorkIsCurrent, DoneIsConfirmed, ConfirmedIsDone
<1>7. PartsSentOnce
  BY Zenon DEF Init, PartsSentOnce
<1>8. NoDeliveryLost
  BY DEF Init, NoDeliveryLost
<1> QED
  BY <1>1, <1>3, <1>4, <1>5, <1>6, <1>7, <1>8, Zenon DEF Inv

\* Every step keeps the invariant.
LEMMA InvStep == Inv /\ [Next]_vars => Inv'
<1> SUFFICES ASSUME Inv, [Next]_vars PROVE Inv'
  OBVIOUS
<1>1. TypeOK' /\ InFlightOK' /\ RoundOK' /\ GivenOK'
  BY TypeStep, InFlightStep, RoundStep, GivenStep DEF Inv
<1>2. ~Reused' => ~Reused
  BY ReusedStays DEF Inv
<1>3. ~Reused' => DueIsCurrent' /\ WorkIsCurrent' /\ DoneIsConfirmed'
  BY <1>2, CurrentStep, DoneStep DEF Inv, Current
<1>4. faults' = 0 => faults = 0
  <2>1. faults \in Nat
    BY ConstantsOK DEF Inv, TypeOK
  <2>2. faults' = faults \/ faults' = faults + 1
    BY Zenon DEF Next, HubStep, Round, SenderStep, Attempt, Clock, Post, DeleteMessages, Maintain,
       AddMember, RemoveMember, TakeSeq, DueDeliveries, SkipBusy, Dispatch, EndRound, SendPart,
       SendFails, RecordDelivery, RecordFails, Finish, RetryDue, AwayExpires, Age, Crash, vars
  <2> QED
    BY <2>1, <2>2
<1>5. ~Reused' /\ faults' = 0 => ConfirmedIsDone'
  BY <1>2, <1>4, CountStep DEF Inv
<1> QED
  BY <1>1, <1>3, <1>5, SentOnceStep, LostStep DEF Inv

\* The strengthened invariant holds in every reachable state.
THEOREM Invariance == Spec => []Inv
  BY InvInit, InvStep, PTL DEF Spec

\* Every variable keeps its type, whatever the senders, the hub and the clock do.
THEOREM TypeCorrect == Spec => []TypeOK
<1>1. Inv => TypeOK
  BY Zenon DEF Inv
<1> QED
  BY <1>1, Invariance, PTL

\* schedule never hands a sender a row that an earlier attempt has changed: for
\* any number of senders and any Limit that the finished map's window covers.
THEOREM NoStaleAttempt == Spec => []AttemptIsCurrent
<1>1. Inv => AttemptIsCurrent
  BY DEF Inv, WorkIsCurrent, AttemptIsCurrent, Key
<1> QED
  BY <1>1, Invariance, PTL

\* Without a crash or a failed write, no part that was confirmed is sent again.
THEOREM SentOnce == Spec => []PartsSentOnce
<1>1. Inv => PartsSentOnce
  BY DEF Inv
<1> QED
  BY <1>1, Invariance, PTL

\* A delivery that post promised is queued, confirmed or given up on: crashes,
\* failed writes and late attempts lose none.
THEOREM NothingLost == Spec => []NoDeliveryLost
<1>1. Inv => NoDeliveryLost
  BY DEF Inv
<1> QED
  BY <1>1, Invariance, PTL

\* RecordDelivery never puts a finished row back in the queue.
THEOREM FinalStays == Spec => FinalIsFinal
<1>1. Inv /\ [Next]_vars =>
        [\A k \in Keys : rows[k].state \in Final /\ rows'[k].state = "queued" => Reused']_vars
  <2> SUFFICES ASSUME Inv, [Next]_vars, ~Reused', NEW k \in Keys,
                      rows[k].state \in Final, rows'[k].state = "queued"
               PROVE  FALSE
    OBVIOUS
  <2>1. TypeOK /\ InFlightOK /\ GivenOK /\ ~Reused /\ WorkIsCurrent
    BY ReusedStays DEF Inv
  <2>2. rows[k].state # "queued" /\ rows[k].state # "none" /\ rows' # rows
    BY Zenon DEF Final
  <2>3. ASSUME NEW i \in Ids, NEW to \in SUBSET members, Post(i, to) PROVE FALSE
    BY <2>1, <2>2, <2>3, FreshId, Zenon DEF Post
  <2>4. CASE Cancels
    BY <2>2, <2>4, CancelFrame
  <2>5. CASE Clock \/ TakeSeq \/ UNCHANGED vars
    BY <2>1, <2>2, <2>5, ClockFrame
  <2>6. CASE \/ \E ks \in SUBSET QueuedKeys : DueDeliveries(ks)
             \/ \E d \in due : SkipBusy(d) \/ \E s \in Senders, p \in BOOLEAN : Dispatch(d, s, p)
             \/ EndRound \/ Crash
             \/ \E s \in Senders : \/ RecordFails(s) \/ SendPart(s)
                                   \/ \E evict \in BOOLEAN : Finish(s, evict)
             \/ \E s \in Senders, r \in Results : SendFails(s, r)
    BY <2>2, <2>6, Zenon DEF DueDeliveries, SkipBusy, Dispatch, EndRound, Crash, RecordFails, SendPart,
       Finish, SendFails, storeVars
  <2>7. ASSUME NEW s \in Senders, RecordDelivery(s) PROVE FALSE
    <3>1. Attempting(s) /\ rows' = [rows EXCEPT ![Key(s)] = Recorded(worker[s])]
      BY <2>1, <2>7, RecordEffect, Zenon
    <3>2. k = Key(s)
      BY <3>1, <2>1, <2>2, Zenon DEF TypeOK
    <3> QED
      BY <3>1, <3>2, <2>1, <2>2, Zenon DEF WorkIsCurrent, Fresh
  <2> QED
    BY <2>3, <2>4, <2>5, <2>6, <2>7, Zenon DEF Next, HubStep, Cancels, Round, SenderStep, Attempt
<1> QED
  BY <1>1, Invariance, PTL DEF Spec, FinalIsFinal

-----------------------------------------------------------------------------
(* What was given up on stays so. *)

\* An attempt at the delivery p: of the same message to the same member.
IsOf(j, p) == j.body = p[1] /\ j.key[2] = p[2]

\* No attempt is made at a delivery recorded as failed, and none will be: its row
\* is not queued, and this round will skip it.
Over(p) ==
    /\ \A s \in Senders : Attempting(s) => ~IsOf(worker[s].job, p)
    /\ \A j \in due : IsOf(j, p) => IsBusy(j.key)
    /\ rows[<<given[p[1]], p[2]>>].state # "queued"
GaveUpOK ==
    /\ \A s \in Busy : worker[s].phase = "sending" => worker[s].result = "none"
    /\ \A p \in gaveUp : Posted(p[1])
    /\ ~Reused => \A p \in gaveUp : Over(p)

PromiseInv == Inv /\ GaveUpOK

\* The rows of two deliveries of messages whose IDs differ are not one row.
LEMMA OneRowEach ==
  ASSUME TypeOK, ~Reused, NEW b, NEW c, Posted(b), Posted(c), NEW m, NEW n,
         <<given[b], m>> = <<given[c], n>>
  PROVE  b = c /\ m = n
<1>1. given[b] = given[c] /\ m = n
  OBVIOUS
<1> QED
  BY <1>1, GivenOnce

\* A sender's row, and that of a snapshot's entry, is its delivery's.
LEMMA RowOf ==
  ASSUME TypeOK, InFlightOK, GivenOK
  PROVE  /\ \A s \in Busy : Key(s) = <<given[worker[s].job.body], Key(s)[2]>>
         /\ \A j \in due : j.key = <<given[j.body], j.key[2]>>
<1>1. \A k \in Keys : k = <<k[1], k[2]>>
  BY DEF Keys
<1>2. (\A s \in Busy : Key(s) \in Keys) /\ \A j \in due : j.key \in Keys
  BY WorkerKeys, Zenon
<1> QED
  BY <1>1, <1>2 DEF GivenOK

\* The steps that record nothing and start nothing leave what is over.
LEMMA OverFrame ==
  ASSUME NEW p, Over(p),
         \A s \in Senders : Attempting(s)' => Attempting(s) /\ worker'[s].job = worker[s].job,
         due' \subseteq due,
         \A j \in due' : IsBusy(j.key) => IsBusy(j.key)',
         given'[p[1]] = given[p[1]],
         rows'[<<given[p[1]], p[2]>>].state = "queued" =>
             rows[<<given[p[1]], p[2]>>].state = "queued"
  PROVE  Over(p)'
<1>1. ASSUME NEW s \in Senders, Attempting(s)' PROVE ~IsOf(worker'[s].job, p)
  BY <1>1, Zenon DEF Over
<1>2. ASSUME NEW j \in due', IsOf(j, p) PROVE IsBusy(j.key)'
  BY <1>2, Zenon DEF Over
<1> QED
  BY <1>1, <1>2, Zenon DEF Over, IsOf

\* A sender has no result until its send has failed.
LEMMA ResultStep ==
  ASSUME Inv, [Next]_vars, \A s \in Busy : worker[s].phase = "sending" => worker[s].result = "none"
  PROVE  \A s \in Busy' : worker'[s].phase = "sending" => worker'[s].result = "none"
<1> DEFINE Goal == \A s \in Busy' : worker'[s].phase = "sending" => worker'[s].result = "none"
<1>0. TypeOK /\ InFlightOK
  BY DEF Inv
<1>1. CASE Elsewhere
  BY <1>1, ElsewhereFrame, Zenon DEF Busy
<1>2. ASSUME NEW s \in Senders, Advances(s) PROVE Goal
  <2>1. s \in Busy /\ Busy' = Busy /\ \A t \in Senders : t # s => worker'[t] = worker[t]
    BY <1>2, <1>0, AdvanceFrame, Zenon
  <2>2. worker[s] \in Worker
    BY <2>1, <1>0, WorkerType, Zenon
  <2>3. worker'[s].phase = "sending" => worker'[s].result = "none"
    <3>1. CASE SendPart(s)
      BY <3>1, <2>1, <2>2, <1>0, Zenon DEF SendPart, TypeOK, Worker
    <3>2. ASSUME NEW r \in Results, SendFails(s, r) PROVE worker'[s].phase = "failed"
      BY <3>2, <2>2, <1>0, Zenon DEF SendFails, TypeOK, Worker
    <3>3. CASE RecordDelivery(s) \/ RecordFails(s)
      <4>1. worker'[s].phase = "done"
        BY <3>3, <2>2, <1>0 DEF RecordDelivery, RecordFails, TypeOK, Worker
      <4> QED BY <4>1, Zenon
    <3> QED BY <1>2, <3>1, <3>2, <3>3, Zenon DEF Advances
  <2> QED BY <2>1, <2>3, Zenon DEF Busy
<1>3. ASSUME NEW d \in due, NEW s \in Senders, NEW p \in BOOLEAN, Dispatch(d, s, p) PROVE Goal
  <2>1. \A t \in Senders : worker'[t] = IF t = s THEN Begin(d, p) ELSE worker[t]
    BY <1>3, <1>0, Zenon DEF Dispatch, TypeOK
  <2>2. Begin(d, p).phase = "sending" => Begin(d, p).result = "none"
    BY Zenon DEF Begin
  <2> QED BY <2>1, <2>2, Zenon DEF Busy
<1>4. ASSUME NEW s \in Senders, NEW evict \in BOOLEAN, Finish(s, evict) PROVE Goal
  <2>1. \A t \in Senders : worker'[t] = IF t = s THEN NoJob ELSE worker[t]
    BY <1>4, <1>0, Zenon DEF Finish, TypeOK
  <2> QED BY <2>1, Zenon DEF Busy
<1>5. CASE Crash
  BY <1>5 DEF Crash, Busy
<1> QED
  BY <1>1, <1>2, <1>3, <1>4, <1>5, Zenon
     DEF Next, Round, SenderStep, Attempt, Advances, Elsewhere

\* Only messages that were posted are given up on.
LEMMA GaveUpPostedStep ==
  ASSUME Inv, [Next]_vars, \A p \in gaveUp : Posted(p[1])
  PROVE  \A p \in gaveUp' : Posted(p[1])'
<1>1. TypeOK /\ InFlightOK /\ GivenOK /\ posts \in Nat /\ posts' \in Nat
  BY TypeStep, ConstantsOK DEF Inv, TypeOK
<1>2. posts' >= posts
  <2>1. ASSUME NEW i \in Ids, NEW to \in SUBSET members, Post(i, to) PROVE posts' >= posts
    <3>1. posts' = posts + 1
      BY <2>1, Zenon DEF Post
    <3> QED BY <3>1, <1>1
  <2>2. CASE posts' = posts
    BY <2>2, <1>1
  <2> QED BY <2>1, <2>2, GivenFrame, Zenon
<1>3. \A b : Posted(b) => Posted(b)'
  BY <1>1, <1>2 DEF Posted, Bodies
<1>4. ASSUME NEW s \in Senders, RecordDelivery(s) PROVE \A p \in gaveUp' : Posted(p[1])
  <2>1. s \in Busy
    BY <1>4, <1>1, AdvanceFrame, ZenonT(30) DEF Advances
  <2>2. Posted(worker[s].job.body)
    BY <2>1, <1>1 DEF GivenOK
  <2>3. \A p \in gaveUp' : p \in gaveUp \/ p = <<worker[s].job.body, Key(s)[2]>>
    BY <1>4 DEF RecordDelivery, Key
  <2> QED BY <2>2, <2>3
<1>5. CASE ~\E s \in Senders : RecordDelivery(s)
  <2>1. gaveUp' = gaveUp
    BY <1>5, Zenon
       DEF Next, HubStep, Round, SenderStep, Attempt, Clock, Post, DeleteMessages, Maintain,
       AddMember, RemoveMember, TakeSeq, DueDeliveries, SkipBusy, Dispatch, EndRound, SendPart,
       SendFails, RecordFails, Finish, RetryDue, AwayExpires, Age, Crash, vars
  <2> QED BY <2>1, <1>3, Zenon
<1> QED BY <1>3, <1>4, <1>5, Zenon

\* No step takes up again what was given up on: the busy check covers the rest of
\* a round, and no later snapshot lists the row.
LEMMA OverStep ==
  ASSUME PromiseInv, [Next]_vars, ~Reused'
  PROVE  \A p \in gaveUp' : Over(p)'
<1>1. TypeOK /\ InFlightOK /\ RoundOK /\ GivenOK /\ ~Reused
  BY ReusedStays, Zenon DEF PromiseInv, Inv
<1>2. \A p \in gaveUp : Over(p) /\ Posted(p[1]) /\ p = <<p[1], p[2]>> /\ p[2] \in Identities
  BY <1>1 DEF PromiseInv, GaveUpOK, TypeOK
<1>3. \A p \in gaveUp : given[p[1]] \in Ids /\ <<given[p[1]], p[2]>> \in Keys
  BY <1>1, <1>2, Zenon DEF GivenOK, TypeOK, Posted, Keys
<1> DEFINE Goal == \A p \in gaveUp' : Over(p)'
<1>4. ASSUME UNCHANGED <<due, inFlight, finished, worker, given, gaveUp>>,
             \A k \in Keys : rows'[k].state = "queued" => rows[k].state = "queued"
      PROVE  Goal
  <2>1. \A s \in Senders : Attempting(s)' => Attempting(s) /\ worker'[s].job = worker[s].job
    BY <1>4 DEF Attempting
  <2>2. \A j \in due' : IsBusy(j.key) => IsBusy(j.key)'
    BY <1>4 DEF IsBusy
  <2> QED BY <1>4, <2>1, <2>2, <1>2, <1>3, OverFrame, Zenon
<1>5. ASSUME NEW i \in Ids, NEW to \in SUBSET members, Post(i, to) PROVE Goal
  <2>1. UNCHANGED <<due, inFlight, finished, worker, gaveUp>>
    BY <1>5 DEF Post, groupVars
  <2>2. ASSUME NEW p \in gaveUp
        PROVE  given'[p[1]] = given[p[1]] /\ rows'[<<given[p[1]], p[2]>>] = rows[<<given[p[1]], p[2]>>]
    <3>1. p[1] # posts + 1 /\ p[1] \in Bodies
      BY <1>2, <1>1, ConstantsOK DEF Posted, TypeOK, Bodies
    <3>2. given'[p[1]] = given[p[1]]
      BY <1>5, <3>1, <1>1, Zenon DEF Post, TypeOK
    <3>3. given[p[1]] # i
      BY <1>5, <1>1, <1>2, <3>1, FreshId, Zenon
    <3> QED BY <1>5, <3>2, <3>3, <1>3, Zenon DEF Post
  <2>3. \A s \in Senders : Attempting(s)' => Attempting(s) /\ worker'[s].job = worker[s].job
    BY <2>1 DEF Attempting
  <2>4. \A j \in due' : IsBusy(j.key) => IsBusy(j.key)'
    BY <2>1, Zenon DEF IsBusy
  <2> QED BY <2>1, <2>2, <2>3, <2>4, <1>2, OverFrame, Zenon
<1>6. CASE Cancels
  <2>1. \A k \in Keys : rows'[k].state = "queued" => rows[k].state = "queued"
    BY <1>6, CancelFrame, Zenon
  <2> QED BY <1>6, <2>1, <1>4, CancelFrame, Zenon
<1>7. CASE Clock \/ TakeSeq \/ UNCHANGED vars
  BY <1>7, <1>1, <1>4, ClockFrame, Zenon
<1>8. ASSUME NEW ks \in SUBSET QueuedKeys, DueDeliveries(ks) PROVE Goal
  <2>1. UNCHANGED <<rows, worker, given, gaveUp>>
    BY <1>8, Zenon DEF DueDeliveries, storeVars, postVars
  <2>2. ASSUME NEW p \in gaveUp, NEW j \in due', IsOf(j, p) PROVE FALSE
    <3>1. PICK k \in QueuedKeys : message[k[1]] # NoBody /\ j = PendingOf(k)
      BY <1>8, Zenon DEF DueDeliveries
    <3>2. k \in Keys /\ rows[k].state = "queued" /\ k = <<k[1], k[2]>> /\ k[1] \in Ids
      BY DEF QueuedKeys, Keys
    <3>3. p[1] = message[k[1]] /\ p[2] = k[2]
      BY <2>2, <3>1, Zenon DEF IsOf, PendingOf
    <3>4. given[p[1]] = k[1]
      BY <3>1, <3>2, <3>3, <1>1, Zenon DEF GivenOK
    <3> QED BY <3>2, <3>3, <3>4, <1>2, Zenon DEF Over
  <2>3. \A p \in gaveUp : \A s \in Senders : Attempting(s)' => ~IsOf(worker'[s].job, p)
    BY <2>1, <1>2, Zenon DEF Over, Attempting
  <2>4. \A p \in gaveUp : rows'[<<given'[p[1]], p[2]>>].state # "queued"
    BY <2>1, <1>2 DEF Over
  <2> QED BY <2>1, <2>2, <2>3, <2>4, Zenon DEF Over, IsOf
<1>9. ASSUME NEW d \in due, SkipBusy(d) PROVE Goal
  <2>1. UNCHANGED <<rows, worker, given, gaveUp, inFlight, finished>> /\ due' \subseteq due
    BY <1>9 DEF SkipBusy, storeVars, postVars
  <2>2. \A s \in Senders : Attempting(s)' => Attempting(s) /\ worker'[s].job = worker[s].job
    BY <2>1 DEF Attempting
  <2>3. \A j \in due' : IsBusy(j.key) => IsBusy(j.key)'
    BY <2>1, Zenon DEF IsBusy
  <2> QED BY <2>1, <2>2, <2>3, <1>2, OverFrame, Zenon
<1>10. ASSUME NEW d \in due, NEW s \in Senders, NEW x \in BOOLEAN, Dispatch(d, s, x) PROVE Goal
  <2>1. /\ UNCHANGED <<rows, given, gaveUp, finished>> /\ due' \subseteq due /\ ~IsBusy(d.key)
        /\ inFlight \subseteq inFlight'
    BY <1>10, Zenon DEF Dispatch, storeVars, postVars
  <2>2. worker'[s].job = d /\ \A t \in Senders : t # s => worker'[t] = worker[t]
    BY <1>10, <1>1, Zenon DEF Dispatch, Begin, TypeOK
  <2>3. ASSUME NEW p \in gaveUp, NEW t \in Senders, Attempting(t)' PROVE ~IsOf(worker'[t].job, p)
    <3>1. CASE t = s
      BY <3>1, <2>1, <2>2, <1>2, Zenon DEF Over
    <3>2. CASE t # s
      BY <3>2, <2>2, <2>3, <1>2, Zenon DEF Over, Attempting
    <3> QED BY <3>1, <3>2, Zenon
  <2>4. ASSUME NEW p \in gaveUp, NEW j \in due', IsOf(j, p) PROVE IsBusy(j.key)'
    BY <2>4, <2>1, <1>2, Zenon DEF Over, IsBusy
  <2>5. \A p \in gaveUp : rows'[<<given'[p[1]], p[2]>>].state # "queued"
    BY <2>1, <1>2 DEF Over
  <2> QED BY <2>1, <2>3, <2>4, <2>5, Zenon DEF Over, IsOf
<1>11. CASE EndRound \/ Crash
  <2>1. UNCHANGED <<rows, given, gaveUp>> /\ due' = {}
    BY <1>11 DEF EndRound, Crash, storeVars, postVars
  <2>2. \A s \in Senders : Attempting(s)' => Attempting(s) /\ worker'[s].job = worker[s].job
    BY <1>11 DEF EndRound, Crash, Attempting
  <2> QED BY <2>1, <2>2, <1>2, OverFrame, Zenon
<1>12. ASSUME NEW s \in Senders, NEW evict \in BOOLEAN, Finish(s, evict) PROVE Goal
  <2>1. /\ UNCHANGED <<rows, given, gaveUp, due, pc>> /\ s \in Busy
        /\ \A t \in Senders : worker'[t] = IF t = s THEN NoJob ELSE worker[t]
        /\ inFlight' = inFlight \ {Key(s)}
    BY <1>12, <1>1, Zenon DEF Finish, storeVars, postVars, TypeOK, Key, Busy
  <2>2. \A t \in Senders : Attempting(t)' => Attempting(t) /\ worker'[t].job = worker[t].job
    BY <2>1 DEF Attempting
  <2>3. ASSUME NEW j \in due', IsBusy(j.key) PROVE IsBusy(j.key)'
    <3>1. pc # "wait"
      BY <2>1, <2>3, <1>1, Zenon DEF RoundOK
    <3>2. finished' = [finished EXCEPT ![Key(s)] = since + 1]
      BY <3>1, <1>12, <1>1, StampsKept, Zenon
    <3>3. j.key \in Keys /\ Key(s) \in Keys
      BY <2>1, <1>1, WorkerKeys, Zenon
    <3>4. finished'[Key(s)] > 0 /\ \A k \in Keys : k # Key(s) => finished'[k] = finished[k]
      BY <3>2, <3>3, <1>1 DEF TypeOK
    <3> QED BY <2>3, <2>1, <3>3, <3>4, Zenon DEF IsBusy
  <2> QED BY <2>1, <2>2, <2>3, <1>2, OverFrame, Zenon
<1>13. ASSUME NEW s \in Senders, Advances(s), UNCHANGED <<rows, gaveUp>> PROVE Goal
  <2>1. /\ UNCHANGED <<due, inFlight, finished, given>> /\ s \in Busy
        /\ \A t \in Senders : t # s => worker'[t] = worker[t]
        /\ worker'[s].job = worker[s].job
    BY <1>13, <1>1, AdvanceFrame, Zenon
  <2>2. Attempting(s)
    <3>1. CASE SendPart(s)
      BY <3>1, <1>1, SendPartEffect, Zenon
    <3>2. ASSUME NEW r \in Results, SendFails(s, r) PROVE Attempting(s)
      BY <3>2, <1>1, SendFailsEffect, Zenon
    <3>3. CASE RecordDelivery(s) \/ RecordFails(s)
      BY <3>3, <1>1, RecordEffect
    <3> QED BY <1>13, <3>1, <3>2, <3>3, Zenon DEF Advances
  <2>3. \A t \in Senders : Attempting(t)' => Attempting(t) /\ worker'[t].job = worker[t].job
    BY <2>1, <2>2, Zenon DEF Attempting
  <2>4. \A j \in due' : IsBusy(j.key) => IsBusy(j.key)'
    BY <2>1, Zenon DEF IsBusy
  <2> QED BY <1>13, <2>1, <2>3, <2>4, <1>2, OverFrame, Zenon
<1>14. ASSUME NEW s \in Senders, RecordDelivery(s) PROVE Goal
  <2>1. /\ UNCHANGED <<due, inFlight, finished, given>> /\ s \in Busy
        /\ \A t \in Senders : t # s => worker'[t] = worker[t]
        /\ worker'[s].job = worker[s].job
    BY <1>14, <1>1, AdvanceFrame, Zenon DEF Advances
  <2>2. /\ Attempting(s) /\ ~Attempting(s)'
        /\ rows' = [rows EXCEPT ![Key(s)] = Recorded(worker[s])]
    BY <1>14, <1>1, RecordEffect
  <2>3. gaveUp' = IF worker[s].result = "gaveUp"
                  THEN gaveUp \cup {<<worker[s].job.body, Key(s)[2]>>} ELSE gaveUp
    BY <1>14, Zenon DEF RecordDelivery, Key
  <2>4. /\ Key(s) = <<given[worker[s].job.body], Key(s)[2]>> /\ Key(s) \in Keys
        /\ Posted(worker[s].job.body)
    BY <2>1, <1>1, RowOf, WorkerKeys, Zenon DEF GivenOK
  <2>5. \A t \in Senders : Attempting(t)' => t # s /\ Attempting(t) /\ worker'[t].job = worker[t].job
    BY <2>1, <2>2, Zenon DEF Attempting
  <2>6. \A j \in due' : IsBusy(j.key) => IsBusy(j.key)'
    BY <2>1 DEF IsBusy
  <2>7. ASSUME NEW p \in gaveUp PROVE Over(p)'
    <3>1. <<given[p[1]], p[2]>> # Key(s)
      <4>1. ASSUME <<given[p[1]], p[2]>> = Key(s) PROVE FALSE
        <5>0. /\ <<given[p[1]], p[2]>> = <<given[worker[s].job.body], Key(s)[2]>>
              /\ TypeOK /\ ~Reused /\ Posted(p[1]) /\ Posted(worker[s].job.body)
          BY <4>1, <2>4, <1>1, <1>2, Zenon
        <5>1. p[1] = worker[s].job.body /\ p[2] = Key(s)[2]
          BY <5>0, OneRowEach
        <5> QED BY <5>1, <2>2, <1>2, Zenon DEF Over, IsOf, Key
      <4> QED BY <4>1, Zenon
    <3>2. rows'[<<given[p[1]], p[2]>>] = rows[<<given[p[1]], p[2]>>]
      BY <3>1, <2>2, <1>3, <1>1, Zenon DEF TypeOK
    <3> QED BY <3>2, <2>1, <2>5, <2>6, <1>2, OverFrame, Zenon
  <2>8. PICK b, m : b = worker[s].job.body /\ m = Key(s)[2]
    BY Zenon
  <2>9. ASSUME worker[s].result = "gaveUp" PROVE Over(<<b, m>>)'
    <3>1. Key(s) = <<given[b], m>>
      BY <2>8, <2>4, Zenon
    <3>2. worker[s].phase # "sending"
      BY <2>9, <2>1, Zenon DEF PromiseInv, GaveUpOK
    <3>3. rows'[<<given'[b], m>>].state # "queued"
      <4>1. rows'[Key(s)] = Recorded(worker[s])
        BY <2>2, <2>4, <1>1, Zenon DEF TypeOK
      <4>2. Recorded(worker[s]).state = "failed"
        BY <2>9, <3>2, Zenon DEF Recorded
      <4> QED BY <4>1, <4>2, <3>1, <2>1, Zenon
    <3>4. ASSUME NEW t \in Senders, Attempting(t)', IsOf(worker'[t].job, <<b, m>>) PROVE FALSE
      <4>1. t # s /\ t \in Busy /\ worker[t].job.body = b /\ Key(t)[2] = m
        BY <3>4, <2>5, Zenon DEF IsOf, Key, Busy, Attempting
      <4>2. Key(t) = Key(s)
        BY <4>1, <3>1, <1>1, RowOf, Zenon
      <4> QED BY <4>1, <4>2, <2>1, <1>1, Zenon DEF InFlightOK
    <3>5. ASSUME NEW j \in due', IsOf(j, <<b, m>>) PROVE IsBusy(j.key)'
      <4>1. j.key = Key(s)
        BY <3>5, <3>1, <2>1, <1>1, RowOf, Zenon DEF IsOf
      <4>2. Key(s) \in inFlight
        BY <2>1, <1>1, WorkerKeys, Zenon
      <4> QED BY <4>1, <4>2, <2>1, Zenon DEF IsBusy
    <3> QED BY <3>3, <3>4, <3>5, Zenon DEF Over, IsOf
  <2>10. \A p \in gaveUp' : p \in gaveUp \/ (worker[s].result = "gaveUp" /\ p = <<b, m>>)
    BY <2>3, <2>8, Zenon
  <2> QED BY <2>7, <2>9, <2>10, Zenon
<1>15. CASE \E s \in Senders : SendPart(s) \/ (\E r \in Results : SendFails(s, r)) \/ RecordFails(s)
  <2>1. UNCHANGED <<rows, gaveUp>>
    BY <1>15, Zenon DEF SendPart, SendFails, RecordFails, storeVars
  <2> QED BY <1>15, <2>1, <1>13, Zenon DEF Advances
<1> QED
  BY <1>5, <1>6, <1>7, <1>8, <1>9, <1>10, <1>11, <1>12, <1>14, <1>15, Zenon
     DEF Next, HubStep, Cancels, Round, SenderStep, Attempt

\* Giving up is final, in every reachable state.
LEMMA PromiseInvariant == Spec => []PromiseInv
<1>1. Init => PromiseInv
  <2>1. Init => GaveUpOK
    BY Zenon DEF Init, GaveUpOK, Busy
  <2> QED BY <2>1, InvInit, Zenon DEF PromiseInv
<1>2. PromiseInv /\ [Next]_vars => PromiseInv'
  <2> SUFFICES ASSUME PromiseInv, [Next]_vars PROVE PromiseInv'
    OBVIOUS
  <2>1. Inv' BY InvStep, Zenon DEF PromiseInv
  <2>2. \A s \in Busy' : worker'[s].phase = "sending" => worker'[s].result = "none"
    BY ResultStep, Zenon DEF PromiseInv, GaveUpOK
  <2>3. \A p \in gaveUp' : Posted(p[1])'
    BY GaveUpPostedStep DEF PromiseInv, GaveUpOK
  <2>4. ~Reused' => \A p \in gaveUp' : Over(p)'
    BY OverStep, Zenon
  <2> QED BY <2>1, <2>2, <2>3, <2>4, Zenon DEF PromiseInv, GaveUpOK
<1> QED BY <1>1, <1>2, PTL DEF Spec

-----------------------------------------------------------------------------
(* Delivery implements Promise. *)

\* Promise's variables, as DeliveryRefines maps them.
Owed == promised \ Settled
Lingering == {d \in Deliveries \ (promised \cup Settled) : InHand(d)}
Failed == gaveUp \ Arrived

\* A step that promises nothing, sends nothing and records nothing as failed, and
\* takes up no delivery that was not in hand, cancels or forgets.
LEMMA MapsToCancel ==
  ASSUME UNCHANGED <<sent, gaveUp>>, promised' \subseteq promised,
         \A d \in Deliveries : InHand(d)' => InHand(d)
  PROVE  P!PromiseNext
<1>1. Arrived' = Arrived /\ Settled' = Settled /\ Failed' = Failed
  BY DEF Arrived, Settled, Failed, Deliveries
<1> DEFINE ds == Owed \ promised'
<1>2. ds \in SUBSET Owed /\ Owed' = Owed \ ds
  BY <1>1, Zenon DEF Owed
<1>3. Lingering' \in SUBSET (Lingering \cup ds)
  <2> SUFFICES ASSUME NEW d \in Lingering' PROVE d \in Lingering \cup ds
    OBVIOUS
  <2>1. d \in Deliveries /\ d \notin promised' /\ d \notin Settled /\ InHand(d)
    BY <1>1, Zenon DEF Lingering, Deliveries
  <2> QED BY <2>1 DEF Lingering, Owed
<1>4. P!Cancel(ds, Lingering')
  BY <1>1, <1>2, <1>3, Zenon DEF P!Cancel, Owed, Lingering, Failed
<1> QED
  BY <1>2, <1>3, <1>4, Zenon DEF P!PromiseNext, Owed, Lingering

\* The deliveries of a new message are owed: nothing was known of them before.
LEMMA MapsToOwe ==
  ASSUME PromiseInv, ~Reused', NEW i \in Ids, NEW to \in SUBSET members, Post(i, to)
  PROVE  P!PromiseNext
<1>1. TypeOK /\ GivenOK /\ posts \in Nat /\ posts + 1 \in Bodies /\ to \subseteq Identities
  <2>1. TypeOK /\ GivenOK
    BY Zenon DEF PromiseInv, Inv
  <2>2. posts \in 0..MaxPosts /\ members \subseteq Identities /\ posts < MaxPosts /\ MaxPosts \in Nat
    BY <2>1, ConstantsOK DEF TypeOK, Post
  <2> QED
    BY <2>1, <2>2 DEF Bodies
<1>2. /\ UNCHANGED <<sent, gaveUp, due, worker>> /\ promised' = promised \cup ({posts + 1} \X to)
      /\ given' = [given EXCEPT ![posts + 1] = i]
      /\ rows' = [k \in Keys |-> IF k[1] = i /\ k[2] \in to THEN NewRow ELSE rows[k]]
  BY Zenon DEF Post, sendVars, groupVars
<1>3. Arrived' = Arrived /\ Settled' = Settled /\ Failed' = Failed
  BY <1>2 DEF Arrived, Settled, Failed, Deliveries
<1> DEFINE ds == {posts + 1} \X to
<1>4. ds \in SUBSET Deliveries
  BY <1>1, Zenon DEF Deliveries
<1>5. given[posts + 1] = 0
  <2>1. ~Posted(posts + 1)
    BY <1>1 DEF Posted
  <2> QED BY <2>1, <1>1, Zenon DEF GivenOK
<1>6. ASSUME NEW d \in Deliveries, d[1] = posts + 1
      PROVE  d \notin Settled /\ d \notin promised /\ ~InHand(d)
  <2>0. ~(d[1] <= posts)
    BY <1>6, <1>1
  <2>1. d \notin Arrived
    <3>1. 1 \in 1..Parts[d[1]]
      <4>1. Parts[d[1]] \in Nat \ {0}
        BY <1>6, <1>1, ConstantsOK, Zenon
      <4> QED BY <4>1
    <3>2. <<d[2], d[1], 1>> \notin sent
      <4>1. \A x \in sent : x[2] <= posts
        BY <1>1 DEF GivenOK
      <4> QED BY <4>1, <2>0, ZenonT(30)
    <3> QED BY <3>1, <3>2, Zenon DEF Arrived
  <2>2. d \notin gaveUp /\ d \notin promised
    <3>1. \A p \in promised : p[1] <= posts
      BY <1>1, Zenon DEF GivenOK
    <3>2. \A p \in gaveUp : p[1] <= posts
      BY Zenon DEF PromiseInv, GaveUpOK, Posted
    <3> QED BY <3>1, <3>2, <2>0, Zenon
  <2>3. ~InHand(d)
    <3>1. \A s \in Senders : worker[s] # NoJob => worker[s].job.body # d[1]
      BY <2>0, <1>1, Zenon DEF GivenOK, Busy, Posted
    <3>2. \A j \in due : j.body # d[1]
      BY <2>0, <1>1, Zenon DEF GivenOK, Posted
    <3> QED BY <3>1, <3>2, <1>5, <1>6, Zenon DEF InHand
  <2> QED BY <2>1, <2>2, <2>3, Zenon DEF Settled
<1>7. ASSUME NEW d \in Deliveries, d \notin ds PROVE InHand(d)' <=> InHand(d)
  <2>0. d[1] \in Bodies /\ d[2] \in Identities /\ d = <<d[1], d[2]>>
    BY DEF Deliveries
  <2>1. CASE d[1] = posts + 1
    <3>1. given'[d[1]] = i /\ d[2] \notin to
      BY <2>1, <2>0, <1>7, <1>2, <1>1, Zenon DEF TypeOK
    <3>2. <<i, d[2]>> \in Keys /\ <<i, d[2]>>[1] = i /\ <<i, d[2]>>[2] = d[2]
      BY <2>0, Zenon DEF Keys
    <3>3. rows'[<<i, d[2]>>] = rows[<<i, d[2]>>] /\ rows[<<i, d[2]>>].state = "none"
      BY <3>1, <3>2, <1>2, <1>1, FreshId, Zenon
    <3>4. ~InHand(d)
      BY <1>6, <2>1, Zenon
    <3>5. ~InHand(d)'
      BY <3>1, <3>3, <3>4, <1>2, Zenon DEF InHand
    <3> QED BY <3>4, <3>5, Zenon
  <2>2. CASE d[1] # posts + 1
    <3>1. given'[d[1]] = given[d[1]]
      BY <2>2, <2>0, <1>2, <1>1, Zenon DEF TypeOK
    <3>2. ASSUME given[d[1]] # 0
          PROVE  rows'[<<given[d[1]], d[2]>>] = rows[<<given[d[1]], d[2]>>]
      <4>1. Posted(d[1]) /\ given[d[1]] \in Ids
        BY <3>2, <2>0, <1>1, Zenon DEF GivenOK, TypeOK
      <4>2. given[d[1]] # i
        BY <4>1, <2>0, <1>1, FreshId, Zenon
      <4>3. <<given[d[1]], d[2]>> \in Keys /\ <<given[d[1]], d[2]>>[1] # i
        BY <4>1, <4>2, <2>0, Zenon DEF Keys
      <4> QED BY <4>3, <1>2, Zenon
    <3> QED BY <3>1, <3>2, <1>2, Zenon DEF InHand
  <2> QED BY <2>1, <2>2, Zenon
<1>8. ds \cap (Owed \cup Lingering \cup Arrived \cup Failed) = {}
  <2>1. \A d \in ds : d \in Deliveries /\ d[1] = posts + 1
    BY <1>4, Zenon
  <2> QED BY <2>1, <1>6, Zenon DEF Owed, Lingering, Settled, Failed
<1>9. Owed' = Owed \cup ds
  BY <1>2, <1>3, <1>4, <1>6, Zenon DEF Owed
<1>10. Lingering' = Lingering
  <2>1. ASSUME NEW d \in Deliveries PROVE d \in Lingering' <=> d \in Lingering
    <3>1. CASE d \in ds
      <4>1. d[1] = posts + 1
        BY <3>1, Zenon
      <4> QED BY <3>1, <4>1, <1>2, <1>6, Zenon DEF Lingering
    <3>2. CASE d \notin ds
      BY <3>2, <1>2, <1>3, <1>7, Zenon DEF Lingering, Deliveries
    <3> QED BY <3>1, <3>2, Zenon
  <2> QED BY <2>1 DEF Lingering, Deliveries
<1>11. P!Owe(ds)
  BY <1>3, <1>8, <1>9, <1>10, Zenon DEF P!Owe, P!Open, Owed, Lingering, Failed
<1> QED
  BY <1>4, <1>11, Zenon DEF P!PromiseNext

\* What a sender is at is in hand, and neither settled as failed nor unknown.
LEMMA AttemptIsOpen ==
  ASSUME PromiseInv, ~Reused, NEW s \in Senders, Attempting(s),
         NEW d, d = <<worker[s].job.body, Key(s)[2]>>, d \notin Arrived
  PROVE  d \in Deliveries /\ d \notin Settled /\ d \in Owed \cup Lingering
<1>1. TypeOK /\ InFlightOK /\ s \in Busy
  BY Zenon DEF PromiseInv, Inv, Attempting, Busy
<1>2. d \in Deliveries /\ d[1] = worker[s].job.body /\ d[2] = Key(s)[2]
  BY <1>1, WorkerKeys, Zenon DEF Deliveries
<1>3. d \notin gaveUp
  BY <1>2, Zenon DEF PromiseInv, GaveUpOK, Over, IsOf, Key
<1>4. InHand(d)
  BY <1>1, <1>2, Zenon DEF InHand, Key, Busy
<1> QED
  BY <1>2, <1>3, <1>4, Zenon DEF Settled, Owed, Lingering

\* The confirmation of the last part is the arrival; that of another, nothing.
LEMMA MapsToArrive ==
  ASSUME PromiseInv, ~Reused, NEW s \in Senders, SendPart(s)
  PROVE  P!PromiseNext
<1>1. TypeOK /\ InFlightOK
  BY Zenon DEF PromiseInv, Inv
<1>2. /\ sent' = sent \cup {<<Key(s)[2], worker[s].job.body, worker[s].parts + 1>>}
      /\ Attempting(s) /\ UNCHANGED <<rows, gaveUp>>
  BY <1>1, SendPartEffect, Zenon
<1>3. /\ UNCHANGED <<due, given, promised>>
      /\ \A t \in Senders : (worker'[t] # NoJob) <=> (worker[t] # NoJob)
      /\ \A t \in Senders : worker[t] # NoJob => worker'[t].job = worker[t].job
  BY <1>1, AdvanceFrame, Zenon DEF Advances, Busy
<1>4. \A d \in Deliveries : InHand(d)' <=> InHand(d)
  BY <1>2, <1>3, Zenon DEF InHand
<1> DEFINE e == <<worker[s].job.body, Key(s)[2]>>
<1>5. \A d \in Deliveries : d # e => (d \in Arrived' <=> d \in Arrived)
  <2> SUFFICES ASSUME NEW d \in Deliveries, d # e PROVE d \in Arrived' <=> d \in Arrived
    OBVIOUS
  <2>1. d = <<d[1], d[2]>>
    BY DEF Deliveries
  <2>2. \A p : <<d[2], d[1], p>> \in sent' <=> <<d[2], d[1], p>> \in sent
    BY <2>1, <1>2, Zenon
  <2> QED BY <2>2, Zenon DEF Arrived, Deliveries
<1>6. Arrived \subseteq Arrived'
  BY <1>2, Zenon DEF Arrived, Deliveries
<1>7. CASE e \in Arrived \/ e \notin Arrived'
  <2>1. Arrived' = Arrived
    BY <1>5, <1>6, <1>7, Zenon DEF Arrived, Deliveries
  <2>2. Owed' = Owed /\ Lingering' = Lingering /\ Failed' = Failed
    BY <2>1, <1>2, <1>3, <1>4, Zenon DEF Owed, Lingering, Failed, Settled, Deliveries
  <2>3. P!Cancel({}, Lingering)
    BY <2>1, <2>2 DEF P!Cancel, Owed, Lingering, Failed
  <2>4. {} \in SUBSET Owed /\ Lingering \in SUBSET (Lingering \cup {})
    BY Zenon
  <2> QED BY <2>3, <2>4, Zenon DEF P!PromiseNext, Owed, Lingering
<1>8. CASE e \notin Arrived /\ e \in Arrived'
  <2>1. e \in Deliveries /\ e \notin Settled /\ e \in Owed \cup Lingering
    BY <1>2, <1>8, AttemptIsOpen, Zenon
  <2>2. Arrived' = Arrived \cup {e}
    BY <1>5, <1>6, <1>8, <2>1, Zenon DEF Arrived, Deliveries
  <2>3. Settled' = Settled \cup {e} /\ Failed' = Failed
    BY <2>1, <2>2, <1>2, Zenon DEF Settled, Failed
  <2>4. Owed' = Owed \ {e}
    BY <2>3, <1>3, Zenon DEF Owed
  <2>5. Lingering' = Lingering \ {e}
    BY <2>3, <1>3, <1>4, Zenon DEF Lingering, Deliveries
  <2>6. P!Arrive(e)
    BY <2>1, <2>2, <2>3, <2>4, <2>5, Zenon DEF P!Arrive, P!Open, Owed, Lingering, Failed
  <2> QED BY <2>1, <2>6, Zenon DEF P!PromiseNext
<1> QED BY <1>7, <1>8, Zenon

\* The record of an attempt gives up on its delivery, or leaves it in hand.
LEMMA MapsToGiveUp ==
  ASSUME PromiseInv, ~Reused, NEW s \in Senders, RecordDelivery(s)
  PROVE  P!PromiseNext
<1>1. TypeOK /\ InFlightOK /\ GivenOK
  BY Zenon DEF PromiseInv, Inv
<1>2. /\ UNCHANGED sent /\ Attempting(s)
      /\ rows' = [rows EXCEPT ![Key(s)] = Recorded(worker[s])]
  BY <1>1, RecordEffect, Zenon
<1>3. /\ UNCHANGED <<due, given, promised>> /\ s \in Busy
      /\ \A t \in Senders : (worker'[t] # NoJob) <=> (worker[t] # NoJob)
      /\ \A t \in Senders : worker[t] # NoJob => worker'[t].job = worker[t].job
  BY <1>1, AdvanceFrame, Zenon DEF Advances, Busy
<1>4. PICK e : e = <<worker[s].job.body, Key(s)[2]>>
  BY Zenon
<1>5. gaveUp' = IF worker[s].result = "gaveUp" THEN gaveUp \cup {e} ELSE gaveUp
  BY <1>4 DEF RecordDelivery, Key
<1>6. /\ Key(s) = <<given[e[1]], e[2]>> /\ Key(s) \in Keys /\ Posted(e[1])
      /\ e \in Deliveries /\ InHand(e)
  BY <1>1, <1>3, <1>4, RowOf, WorkerKeys, Zenon DEF GivenOK, Deliveries, InHand, Busy, Key
<1>7. ASSUME NEW d \in Deliveries, d # e PROVE InHand(d)' <=> InHand(d)
  <2>0. d[1] \in Bodies /\ d[2] \in Identities /\ d = <<d[1], d[2]>>
    BY DEF Deliveries
  <2>1. ASSUME given[d[1]] # 0
        PROVE  rows'[<<given[d[1]], d[2]>>] = rows[<<given[d[1]], d[2]>>]
    <3>1. Posted(d[1]) /\ <<given[d[1]], d[2]>> \in Keys
      BY <2>1, <2>0, <1>1, Zenon DEF GivenOK, TypeOK, Keys
    <3>2. <<given[d[1]], d[2]>> # Key(s)
      <4>1. ASSUME <<given[d[1]], d[2]>> = Key(s) PROVE FALSE
        <5>1. d[1] = e[1] /\ d[2] = e[2]
          BY <4>1, <3>1, <1>1, <1>6, OneRowEach
        <5> QED BY <5>1, <2>0, <1>4, <1>7, Zenon
      <4> QED BY <4>1, Zenon
    <3> QED BY <3>1, <3>2, <1>1, <1>2, Zenon DEF TypeOK
  <2> QED BY <2>1, <1>3, Zenon DEF InHand
<1>8. Arrived' = Arrived
  BY <1>2, Zenon DEF Arrived, Deliveries
<1>9. CASE worker[s].result # "gaveUp"
  <2>1. \A d \in Deliveries : InHand(d)' => InHand(d)
    BY <1>6, <1>7, Zenon
  <2> QED BY <2>1, <1>2, <1>3, <1>5, <1>9, MapsToCancel, Zenon
<1>10. CASE worker[s].result = "gaveUp" /\ e \in Arrived
  <2>1. Settled' = Settled /\ Failed' = Failed
    BY <1>5, <1>8, <1>10, Zenon DEF Settled, Failed
  <2>2. Owed' = Owed
    BY <2>1, <1>3, Zenon DEF Owed
  <2>3. Lingering' = Lingering
    <3>1. e \in Settled
      BY <1>10, Zenon DEF Settled
    <3> QED BY <3>1, <2>1, <1>3, <1>7, Zenon DEF Lingering, Deliveries
  <2>4. P!Cancel({}, Lingering)
    BY <1>8, <2>1, <2>2, <2>3, Zenon DEF P!Cancel, Owed, Lingering, Failed
  <2>5. {} \in SUBSET Owed /\ Lingering \in SUBSET (Lingering \cup {})
    OBVIOUS
  <2> QED BY <2>4, <2>5 DEF P!PromiseNext, Owed, Lingering
<1>11. CASE worker[s].result = "gaveUp" /\ e \notin Arrived
  <2>1. e \notin Settled /\ e \in Owed \cup Lingering
    BY <1>2, <1>4, <1>11, AttemptIsOpen, Zenon
  <2>2. Settled' = Settled \cup {e} /\ Failed' = Failed \cup {e}
    BY <1>5, <1>8, <1>11, Zenon DEF Settled, Failed
  <2>3. Owed' = Owed \ {e}
    BY <2>2, <1>3, Zenon DEF Owed
  <2>4. Lingering' = Lingering \ {e}
    BY <2>2, <1>3, <1>7, Zenon DEF Lingering, Deliveries
  <2>5. P!GiveUp(e)
    BY <1>8, <2>1, <2>2, <2>3, <2>4, Zenon DEF P!GiveUp, P!Open, Owed, Lingering, Failed
  <2> QED BY <1>6, <2>5, Zenon DEF P!PromiseNext
<1> QED BY <1>9, <1>10, <1>11, Zenon

\* The steps that only shorten the list of what is in hand.
LEMMA MapsToForget ==
  ASSUME UNCHANGED <<sent, gaveUp, promised, rows, given>>,
         \A s \in Senders : worker'[s] # NoJob =>
             \/ worker[s] # NoJob /\ worker'[s].job = worker[s].job
             \/ worker'[s].job \in due,
         due' \subseteq due
  PROVE  P!PromiseNext
<1>1. \A d \in Deliveries : InHand(d)' => InHand(d)
  BY Zenon DEF InHand
<1> QED BY <1>1, MapsToCancel, Zenon

\* Every step of the queue is one of Promise's, while no ID is given twice.
LEMMA MapsStep ==
  ASSUME PromiseInv, [Next]_vars, ~Reused'
  PROVE  P!PromiseNext
<1>1. TypeOK /\ InFlightOK /\ RoundOK /\ GivenOK /\ ~Reused
  BY ReusedStays DEF PromiseInv, Inv
<1>2. \A d \in Deliveries : given[d[1]] # 0 => <<given[d[1]], d[2]>> \in Keys
  BY <1>1, Zenon DEF Deliveries, TypeOK, Keys
<1>3. CASE Cancels
  <2>1. \A d \in Deliveries : InHand(d)' => InHand(d)
    BY <1>2, <1>3, CancelFrame, Zenon DEF InHand
  <2> QED BY <2>1, <1>3, CancelFrame, MapsToCancel, Zenon
<1>4. CASE Clock \/ TakeSeq \/ UNCHANGED vars
  <2>1. \A d \in Deliveries : InHand(d)' => InHand(d)
    BY <1>1, <1>2, <1>4, ClockFrame, Zenon DEF InHand
  <2> QED BY <2>1, <1>1, <1>4, ClockFrame, MapsToCancel, Zenon
<1>5. ASSUME NEW ks \in SUBSET QueuedKeys, DueDeliveries(ks) PROVE P!PromiseNext
  <2>1. UNCHANGED <<sent, gaveUp, promised, rows, given, worker>>
    BY <1>5, Zenon DEF DueDeliveries, storeVars, postVars, sendVars
  <2>2. ASSUME NEW d \in Deliveries, NEW j \in due', j.body = d[1], j.key[2] = d[2] PROVE InHand(d)
    <3>1. PICK k \in QueuedKeys : message[k[1]] # NoBody /\ j = PendingOf(k)
      BY <1>5, Zenon DEF DueDeliveries
    <3>2. k \in Keys /\ rows[k].state = "queued" /\ k = <<k[1], k[2]>> /\ k[1] \in Ids /\ k[1] # 0
      BY DEF QueuedKeys, Keys, Ids
    <3>3. d[1] = message[k[1]] /\ d[2] = k[2]
      BY <2>2, <3>1, Zenon DEF PendingOf
    <3>4. given[d[1]] = k[1]
      BY <3>1, <3>2, <3>3, <1>1, Zenon DEF GivenOK
    <3> QED BY <3>2, <3>3, <3>4, Zenon DEF InHand
  <2>3. \A d \in Deliveries : InHand(d)' => InHand(d)
    BY <2>1, <2>2, Zenon DEF InHand
  <2> QED BY <2>1, <2>3, MapsToCancel, Zenon
<1>6. CASE \/ \E d \in due : SkipBusy(d) \/ \E s \in Senders, p \in BOOLEAN : Dispatch(d, s, p)
           \/ EndRound \/ Crash \/ \E s \in Senders, evict \in BOOLEAN : Finish(s, evict)
  <2>1. UNCHANGED <<sent, gaveUp, promised, rows, given>> /\ due' \subseteq due
    BY <1>6, Zenon DEF SkipBusy, Dispatch, EndRound, Crash, Finish, storeVars, sendVars, postVars
  <2>2. \A s \in Senders : worker'[s] # NoJob =>
            \/ worker[s] # NoJob /\ worker'[s].job = worker[s].job
            \/ worker'[s].job \in due
    <3>1. ASSUME NEW d \in due, NEW t \in Senders, NEW p \in BOOLEAN, Dispatch(d, t, p)
          PROVE  \A s \in Senders : worker'[s] = worker[s] \/ worker'[s].job \in due
      BY <3>1, <1>1, Zenon DEF Dispatch, Begin, TypeOK
    <3>2. ASSUME NEW t \in Senders, NEW evict \in BOOLEAN, Finish(t, evict)
          PROVE  \A s \in Senders : worker'[s] = worker[s] \/ worker'[s] = NoJob
      BY <3>2, <1>1, Zenon DEF Finish, TypeOK
    <3>3. CASE (\E d \in due : SkipBusy(d)) \/ EndRound \/ Crash
      BY <3>3, Zenon DEF SkipBusy, EndRound, Crash
    <3> QED BY <1>6, <3>1, <3>2, <3>3, Zenon
  <2> QED BY <2>1, <2>2, MapsToForget, Zenon
<1>7. ASSUME NEW s \in Senders, RecordFails(s) \/ \E r \in Results : SendFails(s, r)
      PROVE  P!PromiseNext
  <2>1. UNCHANGED <<sent, gaveUp, rows>>
    BY <1>7, Zenon DEF RecordFails, SendFails, storeVars, sendVars
  <2>2. /\ UNCHANGED <<due, given, promised>> /\ Busy' = Busy
        /\ \A t \in Busy : worker'[t].job = worker[t].job
    BY <1>1, <1>7, AdvanceFrame, Zenon DEF Advances
  <2> QED BY <2>1, <2>2, MapsToForget, Zenon DEF Busy
<1> QED
  BY <1>1, <1>3, <1>4, <1>5, <1>6, <1>7, MapsToOwe, MapsToArrive, MapsToGiveUp, Zenon
     DEF Next, HubStep, Cancels, Round, SenderStep, Attempt

\* While no message ID is given twice, the queue with its scheduler, its senders
\* and its crashes implements Promise: a delivery is owed from the post on, and
\* arrives, is given up on or is cancelled, and what became of it is final.
THEOREM PromiseKept == Spec /\ []~Reused => P!PromiseSpec
<1>1. Init => P!PromiseInit
  <2> SUFFICES ASSUME Init PROVE P!PromiseInit
    OBVIOUS
  <2>1. Arrived = {}
    <3>1. \A d \in Deliveries : 1 \in 1..Parts[d[1]]
      BY ConstantsOK DEF Deliveries
    <3> QED BY <3>1, Zenon DEF Init, Arrived
  <2>2. \A d \in Deliveries : ~InHand(d)
    BY DEF Init, InHand, Deliveries
  <2> QED BY <2>1, <2>2, Zenon DEF Init, P!PromiseInit, Settled
<1>2. PromiseInv /\ ~Reused' /\ [Next]_vars => [P!PromiseNext]_(P!promiseVars)
  BY MapsStep
<1> QED
  BY <1>1, <1>2, PromiseInvariant, PTL DEF Spec, P!PromiseSpec
=============================================================================
