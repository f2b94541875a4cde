----------------------------- MODULE RoomProofs -----------------------------
(***************************************************************************)
(* The second half of the proofs about RrcRoom: what is said after a join  *)
(* is not lost and is sent once, and the theorems.                         *)
(*                                                                         *)
(* A message can come to a link by the replay and by its event, and by     *)
(* each of them once.  An event is ahead of the link (to be posted, queued *)
(* or with the fan-out) or held by its session; the held ones come before  *)
(* those ahead, in the same order, so a message that was sent is neither.  *)
(* While no ID is given twice IDs are in the order of posting, so what     *)
(* finishJoin leaves out as seen was said before the join.                 *)
(***************************************************************************)
EXTENDS CatchUpProofs

(* Order. *)

\* Messages are numbered from 1.
LEMMA BodiesAreNat ==
    /\ \A b \in Bodies : b \in Nat /\ b \in Nat \ {0} /\ b # NoBody
    /\ \A b, c \in Nat : b <= c => ~(b > c) /\ ~(c < b)
    /\ \A b, c \in Nat : b <= c \/ b > c
    /\ \A b \in Nat : ~(b < b)
BY CatchUpConstants DEF Bodies, NoBody

\* The messages that were posted are counted.
LEMMA PostsIsNat ==
    ASSUME TypeOK
    PROVE  posts \in Nat
<1>1. posts \in 0..MaxPosts
  BY Zenon DEF TypeOK
<1> QED BY <1>1, CatchUpConstants

\* The queue's places, and the one of an event that is added.
LEMMA LastEvent ==
    /\ \A q \in Seq(Event) : DOMAIN q = 1..Len(q)
    /\ \A q \in Seq(Event), e \in Event :
           Len(q) + 1 \in DOMAIN Append(q, e) /\ Append(q, e)[Len(q) + 1] = e
OBVIOUS

\* A message that may come to a link by an event was yet to come before the step.
LEMMA PendingShrinks ==
    ASSUME TypeOK, StoredOK, Server, [RoomNext]_roomVars, NEW k \in Links, NEW b \in Bodies, Pending(k, b)'
    PROVE  Pending(k, b)
<1>0. RoomTypes /\ EventOK(fan) /\ (fan.to # NoLink => fan.kind = "message")
  BY DEF Server, QueueOK
<1>p. posts \in Nat /\ posts' \in Nat /\ posts <= posts' /\ b \in Nat \ {0}
  BY RoomStepIs, PostsGrow, CatchUpConstants DEF Bodies
<1>1. CASE events' = events /\ fan'.body = fan.body /\ (Ahead(k)' => Ahead(k))
  BY <1>p, <1>1 DEF Pending
<1>2. CASE SayHere
  <2>1. PICK i \in Ids : Post(i, TRUE) /\ Publish(MessageEvent(i, posts + 1))
    BY <1>2, Zenon DEF SayHere
  <2>2. posts + 1 \in Bodies /\ fan' = fan
    BY <1>2, <2>1, NextBody, Zenon DEF SayHere
  <2>3. PICK e \in Event : e = MessageEvent(i, posts + 1)
    BY <2>2, HubEvents
  <2>4. e.body = posts + 1
    BY <2>3 DEF MessageEvent
  <2>5. events' = events \/ events' = Append(events, e)
    BY <1>0, <2>1, <2>3, PublishIs, Zenon
  <2>6. ASSUME events' = Append(events, e), NEW n \in DOMAIN events', events'[n].body = b PROVE Pending(k, b)
    <3>1. events'[n] = e \/ (n \in DOMAIN events /\ events'[n] = events[n])
      BY <1>0, <2>6, AppendEvent DEF RoomTypes
    <3> QED BY <1>p, <2>4, <2>6, <3>1 DEF Pending
  <2> QED BY <1>p, <2>2, <2>5, <2>6 DEF Pending, Ahead
<1>3. ASSUME NEW id \in Identities, KickFrom(id) PROVE Pending(k, b)
  <2>1. PICK e \in Event : e = RemovedEvent(id)
    BY HubEvents
  <2>2. e.body = 0 /\ fan' = fan /\ (events' = events \/ events' = Append(events, e))
    BY <1>0, <1>3, <2>1, PublishIs, Zenon DEF KickFrom, RemovedEvent, NoBody
  <2>3. ASSUME events' = Append(events, e), NEW n \in DOMAIN events', events'[n].body = b PROVE Pending(k, b)
    <3>1. events'[n] = e \/ (n \in DOMAIN events /\ events'[n] = events[n])
      BY <1>0, <2>3, AppendEvent DEF RoomTypes
    <3> QED BY <1>p, <2>2, <2>3, <3>1 DEF Pending
  <2> QED BY <1>p, <2>2, <2>3 DEF Pending, Ahead
<1>4. CASE StopAndStart
  <2>1. DOMAIN events' = {} /\ fan'.body = 0
    BY <1>4 DEF StopAndStart, Idle, NoBody
  <2> QED BY <1>p, <2>1 DEF Pending
<1>5. CASE TakeEvent
  <2>1. fan'.body = events[1].body /\ 1 \in DOMAIN events
        /\ \A n \in DOMAIN events' : n + 1 \in DOMAIN events /\ events'[n] = events[n + 1]
    BY <1>0, <1>5, TakeEventIs, Zenon
  <2> QED BY <1>p, <2>1 DEF Pending
<1>6. CASE Elsewhere \/ UNCHANGED roomVars
  BY <1>1, <1>6, Zenon DEF Elsewhere, rrcVars, roomVars, Ahead
<1>7. CASE FanSend
  <2>1. fan'.to = NoLink /\ fan'.todo = fan.todo /\ fan'.body = fan.body /\ k # NoLink
    BY <1>0, <1>7, FanSendIs, RoomConstants, Zenon DEF FanSend
  <2> QED BY <1>1, <1>7, <2>1, Zenon DEF FanSend, Ahead
<1>8. ASSUME NEW l \in Links, Offer(l) PROVE Pending(k, b)
  <2>1. fan'.to \in {NoLink, l} /\ fan'.todo = fan.todo \ {l} /\ fan'.body = fan.body /\ k # NoLink /\ l \in fan.todo
    BY <1>0, <1>8, OfferIs, RoomConstants, Zenon DEF Offer
  <2> QED BY <1>1, <1>8, <2>1 DEF Offer, Ahead
<1>9. ASSUME NEW l \in Links, DropFromRoom(l) PROVE Pending(k, b)
  BY <1>0, <1>1, <1>9, DropIs, Zenon DEF DropFromRoom, Ahead
<1>10. ASSUME NEW l \in Links, Worker(l) \/ Client(l) PROVE Pending(k, b)
  <2>1. events' = events /\ (Establish(l) \/ fan' = fan)
    BY <1>0, <1>10, LinkStepOwn, Zenon DEF OwnStep
  <2>2. CASE fan' = fan
    BY <1>1, <2>1, <2>2, Zenon DEF Ahead
  <2>3. CASE Establish(l)
    <3>1. fan'.to \in {NoLink, fan.to} /\ fan'.todo = fan.todo \ {l} /\ fan'.body = fan.body /\ k # NoLink
      BY <1>0, <2>3, EstablishFan, RoomConstants, Zenon
    <3> QED BY <1>1, <2>1, <3>1, Zenon DEF Ahead
  <2> QED BY <2>1, <2>2, <2>3, Zenon
<1> QED BY <1>2, <1>3, <1>4, <1>5, <1>6, <1>7, <1>8, <1>9, <1>10, Zenon
           DEF RoomNext, HubSide, FanOut

\* A message of the replay goes, and the session is otherwise as it was.
LEMMA SendReplayIs ==
    ASSUME RoomTypes, NEW l \in Links, SendReplay(l)
    PROVE  /\ session[l].pc = "replay" /\ session'[l].pc = "replay"
           /\ session'[l].out = Tail(session[l].out) /\ session'[l].held = session[l].held
           /\ session'[l].seen = session[l].seen /\ since' = since
<1>1. session[l] \in Session /\ session \in [Links -> Session]
  BY DEF RoomTypes
<1>2. session'[l] = [session[l] EXCEPT !.out = Tail(session[l].out)] /\ session[l].pc = "replay" /\ since' = since
  BY <1>1, Zenon DEF SendReplay, Step
<1> QED BY <1>1, <1>2 DEF Session

\* What a step does to the messages a session holds: nothing, or it forgets them,
\* sends the first, or holds one more, the fan-out's.
HeldSame(k) == session'[k].held = session[k].held
HeldNone(k) == session'[k].held = <<>>
HeldSent(k) == Flush(k) /\ session[k].held # <<>> /\ session'[k].held = Tail(session[k].held)
HeldMore(k) ==
    /\ Offer(k) /\ session[k].joining
    /\ session'[k].held = Append(session[k].held, <<fan.id, fan.body>>)

\* Every step does one of these.
LEMMA HeldStep ==
    ASSUME TypeOK, StoredOK, Server, [RoomNext]_roomVars, NEW k \in Links
    PROVE  HeldSame(k) \/ HeldNone(k) \/ HeldSent(k) \/ HeldMore(k)
<1>0. RoomTypes /\ EventOK(fan) /\ session[k] \in Session /\ session \in [Links -> Session]
  BY DEF Server, QueueOK, RoomTypes
<1>1. CASE session'[k] = session[k]
  BY <1>1 DEF HeldSame
<1>2. CASE StopAndStart
  BY <1>2 DEF StopAndStart, Closed, HeldNone
<1>3. ASSUME NEW l \in Links, Offer(l) PROVE HeldSame(k) \/ HeldMore(k)
  <2>1. \/ session'[k] = session[k]
        \/ k = l /\ session[k].joining
             /\ session'[k] = [session[k] EXCEPT !.held = Append(@, <<fan.id, fan.body>>)]
    BY <1>0, <1>3, OfferIs, Zenon
  <2> QED BY <1>0, <1>3, <2>1, Zenon DEF HeldSame, HeldMore, Session
<1>4. ASSUME NEW l \in Links, DropFromRoom(l) PROVE HeldSame(k)
  <2>1. session'[k] = session[k] \/ session'[k] = [session[k] EXCEPT !.in = FALSE]
    BY <1>0, <1>4, DropIs, Zenon
  <2> QED BY <1>0, <2>1 DEF HeldSame, Session
<1>5. ASSUME NEW l \in Links, Worker(l) \/ Client(l)
      PROVE  HeldSame(k) \/ HeldNone(k) \/ HeldSent(k)
  <2>1. CASE k # l
    BY <1>0, <1>5, <2>1, LinkStepOwn, Zenon DEF OwnStep, HeldSame
  <2>2. CASE HubJoin(k)
    BY <1>0, <2>2, HubJoinIs, Zenon DEF HeldSame
  <2>3. CASE Flush(k)
    BY <1>0, <2>3, FlushIs, Zenon DEF HeldNone, HeldSent
  <2>4. CASE JoinRefused(k) \/ BeginJoin(k)
    BY <1>0, <2>4 DEF JoinRefused, BeginJoin, HeldNone, Session
  <2>5. CASE FinishJoin(k) \/ HubPart(k) \/ HubPartFails(k) \/ BeginLeave(k) \/ Close(k)
    BY <1>0, <2>5 DEF FinishJoin, HubPart, HubPartFails, BeginLeave, Close, HeldSame, Session
  <2>7. CASE SendReplay(k)
    BY <1>0, <2>7, SendReplayIs, Zenon DEF HeldSame
  <2>6. CASE Establish(k)
    BY <1>0, <2>6 DEF Establish, Closed, HeldNone
  <2> QED BY <1>5, <2>1, <2>2, <2>3, <2>4, <2>5, <2>6, <2>7, Zenon DEF Worker, Client
<1>7. session' = session \/ StopAndStart \/ (\E l \in Links : Offer(l) \/ DropFromRoom(l) \/ Worker(l) \/ Client(l))
  BY Zenon
     DEF RoomNext, HubSide, FanOut, SayHere, KickFrom, Elsewhere, TakeEvent, FanSend, roomVars, rrcVars
<1> QED BY <1>1, <1>2, <1>3, <1>4, <1>5, <1>7, Zenon

\* The messages a session holds, after its first is sent and after one more.
LEMMA HeldTail ==
    ASSUME NEW h \in Seq(Ids \X Bodies), h # <<>>
    PROVE  /\ Tail(h) \in Seq(Ids \X Bodies) /\ Head(h) = h[1] /\ 1 \in DOMAIN h /\ h[1][2] \in Bodies
           /\ \A n \in DOMAIN Tail(h) : n + 1 \in DOMAIN h /\ Tail(h)[n] = h[n + 1] /\ n \in Nat \ {0}
           /\ \A n \in DOMAIN h : n = 1 \/ (n - 1 \in DOMAIN Tail(h) /\ Tail(h)[n - 1] = h[n] /\ n > 1)
OBVIOUS

\* The messages a session holds, with one more.
LEMMA HeldAppend ==
    ASSUME NEW h \in Seq(Ids \X Bodies), NEW x \in Ids \X Bodies
    PROVE  /\ \A n \in DOMAIN h : n \in DOMAIN Append(h, x) /\ Append(h, x)[n] = h[n]
           /\ \A n \in DOMAIN Append(h, x) :
                  \/ n \in DOMAIN h /\ Append(h, x)[n] = h[n] /\ n < Len(h) + 1
                  \/ n = Len(h) + 1 /\ Append(h, x)[n] = x
           /\ Len(h) + 1 \in DOMAIN Append(h, x) /\ Append(h, x)[Len(h) + 1] = x
           /\ Len(h) + 1 \in Nat
OBVIOUS

\* The fan-out's message, once a session holds it, is no longer on its way to it.
LEMMA HeldMoreIs ==
    ASSUME TypeOK, StoredOK, Server, [RoomNext]_roomVars, NEW k \in Links, HeldMore(k)
    PROVE  /\ fan.id \in Ids /\ fan.body \in Bodies /\ Pending(k, fan.body) /\ fan.kind = "message"
           /\ \A b \in Bodies : Pending(k, b)' => fan.body < b
<1>0. RoomTypes /\ QueueOK /\ EventOK(fan) /\ fan \in Fan
  BY Zenon DEF Server, QueueOK, RoomTypes
<1>1. Offer(k) /\ fan.kind = "message" /\ k \in fan.todo /\ session[k].joining
  BY DEF HeldMore, Offer
<1>2. fan.id \in Ids /\ fan.body \in Bodies
  BY <1>0, <1>1, Zenon DEF EventOK, Fan
<1>3. fan'.to = NoLink /\ fan'.todo = fan.todo \ {k} /\ k # NoLink
  BY <1>0, <1>1, OfferIs, RoomConstants, Zenon
<1>4. events' = events /\ posts' = posts
  BY <1>1 DEF Offer, catchUpVars
<1>5. ASSUME NEW b \in Bodies, Pending(k, b)' PROVE fan.body < b
  <2>1. b > posts \/ \E n \in DOMAIN events : events[n].body = b
    BY <1>3, <1>4, <1>5, Zenon DEF Pending, Ahead
  <2>2. fan.body <= posts /\ posts \in Nat /\ b \in Nat /\ b # NoBody /\ fan.body \in Nat
    BY <1>0, <1>2, BodiesAreNat, PostsIsNat, Zenon DEF QueueOK
  <2>3. \A n \in DOMAIN events : events[n].body # NoBody => fan.body < events[n].body
    BY <1>0 DEF QueueOK
  <2> QED BY <2>1, <2>2, <2>3
<1> QED BY <1>1, <1>2, <1>5, Zenon DEF Pending, Ahead

\* Messages are held in the order of posting.
LEMMA InTurnStep ==
    ASSUME TypeOK, StoredOK, Server, [RoomNext]_roomVars, NEW l \in Links, InTurn(l)
    PROVE  InTurn(l)'
<1> DEFINE h == session[l].held
<1>1. h \in Seq(Ids \X Bodies)
  BY DEF Server, RoomTypes, Session
<1>2. \A b \in Bodies : Pending(l, b)' => Pending(l, b)
  BY PendingShrinks, Zenon
<1>3. CASE HeldSame(l)
  BY <1>2, <1>3, Zenon DEF HeldSame, InTurn
<1>4. CASE HeldNone(l)
  BY <1>4 DEF HeldNone, InTurn
<1>5. CASE HeldSent(l)
  <2>1. h # <<>> /\ session'[l].held = Tail(h)
    BY <1>5 DEF HeldSent
  <2>2. \A n \in DOMAIN Tail(h) : n + 1 \in DOMAIN h /\ Tail(h)[n] = h[n + 1] /\ n \in Nat \ {0}
    BY <1>1, <2>1, HeldTail, Zenon
  <2> SUFFICES ASSUME NEW k \in DOMAIN Tail(h)
               PROVE  /\ \A b \in Bodies : Pending(l, b)' => Tail(h)[k][2] < b
                      /\ \A j \in DOMAIN Tail(h) : j < k => Tail(h)[j][2] < Tail(h)[k][2]
    BY <2>1, Zenon DEF InTurn
  <2>3. /\ \A b \in Bodies : Pending(l, b) => h[k + 1][2] < b
        /\ \A j \in DOMAIN h : j < k + 1 => h[j][2] < h[k + 1][2]
    BY <2>2 DEF InTurn
  <2>4. \A j \in DOMAIN Tail(h) : j < k => j + 1 < k + 1
    BY <2>2
  <2> QED BY <1>2, <2>2, <2>3, <2>4, Zenon
<1>6. CASE HeldMore(l)
  <2>1. PICK x \in Ids \X Bodies : x = <<fan.id, fan.body>>
    BY <1>6, HeldMoreIs, Zenon
  <2> DEFINE g == Append(h, x)
  <2>2. session'[l].held = g /\ x[2] = fan.body
    BY <1>6, <2>1 DEF HeldMore
  <2>3. \A n \in DOMAIN g : (n \in DOMAIN h /\ g[n] = h[n] /\ n < Len(h) + 1) \/ (n = Len(h) + 1 /\ g[n] = x)
    BY <1>1, HeldAppend, Zenon
  <2>4. fan.body \in Bodies /\ Pending(l, fan.body) /\ \A b \in Bodies : Pending(l, b)' => fan.body < b
    BY <1>6, HeldMoreIs
  <2>5. \A n \in DOMAIN h : n \in Nat
    BY <1>1
  <2> SUFFICES ASSUME NEW k \in DOMAIN g
               PROVE  /\ \A b \in Bodies : Pending(l, b)' => g[k][2] < b
                      /\ \A j \in DOMAIN g : j < k => g[j][2] < g[k][2]
    <3> HIDE DEF g
    <3> QED BY <2>2, Zenon DEF InTurn
  <2> HIDE DEF g
  <2>6. CASE k \in DOMAIN h /\ g[k] = h[k] /\ k < Len(h) + 1
    <3>1. /\ \A b \in Bodies : Pending(l, b) => h[k][2] < b
          /\ \A j \in DOMAIN h : j < k => h[j][2] < h[k][2]
      BY <2>6, Zenon DEF InTurn
    <3>2. \A j \in DOMAIN g : j < k => j \in DOMAIN h /\ g[j] = h[j]
      BY <1>1, <2>3, <2>5, <2>6
    <3> QED BY <1>2, <2>6, <3>1, <3>2, Zenon
  <2>7. CASE k = Len(h) + 1 /\ g[k] = x
    <3>1. \A j \in DOMAIN g : j < k => j \in DOMAIN h /\ g[j] = h[j]
      BY <1>1, <2>3, <2>7
    <3>2. \A j \in DOMAIN h : h[j][2] < fan.body
      BY <2>4 DEF InTurn
    <3> QED BY <2>2, <2>4, <2>7, <3>1, <3>2, Zenon
  <2> QED BY <2>3, <2>6, <2>7, Zenon
<1> QED BY <1>3, <1>4, <1>5, <1>6, HeldStep, Zenon

\* What may come to a link by an event, held or not, was yet to come.
LEMMA EventsShrink ==
    ASSUME TypeOK, StoredOK, Server, [RoomNext]_roomVars, NEW l \in Links, NEW b \in Bodies, EventToCome(l, b)'
    PROVE  EventToCome(l, b)
<1> DEFINE h == session[l].held
<1>1. h \in Seq(Ids \X Bodies)
  BY DEF Server, RoomTypes, Session
<1>2. CASE Pending(l, b)'
  BY <1>2, PendingShrinks DEF EventToCome
<1>3. CASE InHeld(l, b)'
  <2>0. PICK n \in DOMAIN session'[l].held : session'[l].held[n][2] = b
    BY <1>3, Zenon DEF InHeld
  <2>1. CASE HeldSame(l)
    BY <2>0, <2>1, Zenon DEF HeldSame, InHeld, EventToCome
  <2>2. CASE HeldNone(l)
    BY <2>0, <2>2 DEF HeldNone
  <2>3. CASE HeldSent(l)
    <3>1. h # <<>> /\ session'[l].held = Tail(h)
      BY <2>3, Zenon DEF HeldSent
    <3>2. n + 1 \in DOMAIN h /\ Tail(h)[n] = h[n + 1]
      BY <1>1, <2>0, <3>1, HeldTail, Zenon
    <3> QED BY <2>0, <3>1, <3>2, Zenon DEF InHeld, EventToCome
  <2>4. CASE HeldMore(l)
    <3>1. PICK x \in Ids \X Bodies : x = <<fan.id, fan.body>>
      BY <2>4, HeldMoreIs, Zenon
    <3>2. session'[l].held = Append(h, x) /\ x[2] = fan.body
      BY <2>4, <3>1, Zenon DEF HeldMore
    <3>3. (n \in DOMAIN h /\ Append(h, x)[n] = h[n]) \/ Append(h, x)[n] = x
      BY <1>1, <2>0, <3>2, HeldAppend
    <3>4. Pending(l, fan.body)
      BY <2>4, HeldMoreIs, Zenon
    <3> QED BY <2>0, <3>2, <3>3, <3>4, Zenon DEF InHeld, EventToCome
  <2> QED BY <2>1, <2>2, <2>3, <2>4, HeldStep, Zenon
<1> QED BY <1>2, <1>3 DEF EventToCome
-----------------------------------------------------------------------------
(* How often a message is sent. *)

\* One message more.
LEMMA OneMore ==
    ASSUME NEW s \in Seq(Bodies), NEW x \in Bodies, NEW b
    PROVE  /\ b \in Range(Append(s, x)) <=> b \in Range(s) \/ b = x
           /\ Twice(Append(s, x), b) => Twice(s, b) \/ (b \in Range(s) /\ b = x)
           /\ Thrice(Append(s, x), b) => Thrice(s, b) \/ (Twice(s, b) /\ b = x)
<1> DEFINE u == Append(s, x)
<1>1. /\ \A n \in DOMAIN u : (n \in DOMAIN s /\ u[n] = s[n]) \/ (n = Len(s) + 1 /\ u[n] = x)
      /\ \A n \in DOMAIN s : n \in DOMAIN u /\ u[n] = s[n]
      /\ Len(s) + 1 \in DOMAIN u /\ u[Len(s) + 1] = x
      /\ \A m, n \in DOMAIN u : m < n => m \in DOMAIN s
  OBVIOUS
<1> HIDE DEF u
<1>2. b \in Range(u) <=> b \in Range(s) \/ b = x
  BY <1>1, Zenon DEF Range
<1>3. Twice(u, b) => Twice(s, b) \/ (b \in Range(s) /\ b = x)
  BY <1>1, Zenon DEF Twice, Range
<1>4. Thrice(u, b) => Thrice(s, b) \/ (Twice(s, b) /\ b = x)
  BY <1>1, Zenon DEF Twice, Thrice
<1> QED BY <1>2, <1>3, <1>4, Zenon DEF u

\* The first of messages without repeats, and the others.
LEMMA FirstOfOnce ==
    ASSUME NEW s \in Seq(Bodies), s # <<>>, NoRepeats(s)
    PROVE  /\ Head(s) \in Bodies /\ Tail(s) \in Seq(Bodies) /\ NoRepeats(Tail(s))
           /\ \A b : b \in Range(s) <=> b = Head(s) \/ b \in Range(Tail(s))
           /\ Head(s) \notin Range(Tail(s))
<1> DEFINE t == Tail(s)
<1>1. /\ Head(s) \in Bodies /\ Head(s) = s[1] /\ 1 \in DOMAIN s /\ t \in Seq(Bodies)
      /\ \A n \in DOMAIN t : n + 1 \in DOMAIN s /\ t[n] = s[n + 1] /\ n + 1 # 1
      /\ \A n \in DOMAIN s : n = 1 \/ (n - 1 \in DOMAIN t /\ t[n - 1] = s[n])
      /\ \A m, n \in DOMAIN t : m + 1 = n + 1 => m = n
  OBVIOUS
<1> HIDE DEF t
<1>2. NoRepeats(t)
  BY <1>1 DEF NoRepeats
<1>3. \A b : b \in Range(s) <=> b = Head(s) \/ b \in Range(t)
  <2>1. \A b \in Range(s) : b = Head(s) \/ b \in Range(t)
    BY <1>1 DEF Range
  <2>2. Head(s) \in Range(s) /\ \A b \in Range(t) : b \in Range(s)
    BY <1>1 DEF Range
  <2> QED BY <2>1, <2>2, Zenon
<1>4. Head(s) \notin Range(t)
  BY <1>1 DEF NoRepeats, Range
<1> QED BY <1>1, <1>2, <1>3, <1>4, Zenon DEF t

\* What a step does to what is sent to a link: nothing...
SentSame(l) ==
    /\ got'[l] = got[l] /\ since'[l] = since[l]
    /\ session'[l].pc = "join" => session[l].pc = "join"
    /\ session'[l].pc = "replay" => session[l].pc = "replay" /\ session'[l].out = session[l].out
\* ...or the link begins again, the hub answers its join, or it is sent one message
\* of the replay, or one that an event brought.
SentNone(l) == got'[l] = <<>> /\ session'[l].pc # "replay"
SentOne(l, x) ==
    /\ got'[l] = Append(got[l], x) /\ since'[l] = since[l] /\ EventToCome(l, x) /\ ~EventToCome(l, x)'
    /\ session'[l].pc = session[l].pc /\ session'[l].out = session[l].out

\* A message that an event brings, sent to a link, is not sent to it again.
LEMMA SentOneKeeps ==
    ASSUME TypeOK, StoredOK, Server, [RoomNext]_roomVars, NEW l \in Links, SentOK(l),
           NEW x \in Bodies, SentOne(l, x)
    PROVE  SentOK(l)'
<1>1. session'[l].pc = "replay" => NoRepeats(session'[l].out)
  BY DEF SentOne, SentOK
<1>2. got[l] \in Seq(Bodies)
  BY Zenon DEF Server, RoomTypes
<1>3. ASSUME NEW b \in Bodies PROVE OnceEach(l, b)'
  <2>1. /\ b \in Range(got'[l]) <=> b \in Range(got[l]) \/ b = x
        /\ Twice(got'[l], b) => Twice(got[l], b) \/ (b \in Range(got[l]) /\ b = x)
        /\ Thrice(got'[l], b) => Thrice(got[l], b) \/ (Twice(got[l], b) /\ b = x)
    BY <1>2, OneMore, ZenonT(30) DEF SentOne
  <2>2. (EventToCome(l, b)' => EventToCome(l, b) /\ b # x) /\ (b = x => EventToCome(l, b))
    BY EventsShrink, Zenon DEF SentOne
  <2>3. ReplayToCome(l, b)' <=> ReplayToCome(l, b)
    BY Zenon DEF ReplayToCome, SentOne
  <2>4. since'[l] = since[l] /\ session'[l].pc = session[l].pc
    BY DEF SentOne
  <2>5. OnceEach(l, b)
    BY DEF SentOK
  <2> QED BY <2>1, <2>2, <2>3, <2>4, <2>5, Zenon DEF OnceEach
<1> QED BY <1>1, <1>3 DEF SentOK

\* Steps that send a link nothing.
LEMMA SentSameKeeps ==
    ASSUME TypeOK, StoredOK, Server, [RoomNext]_roomVars, NEW l \in Links, SentOK(l),
           SentSame(l) \/ SentNone(l)
    PROVE  SentOK(l)'
<1>1. CASE SentSame(l)
  <2>1. session'[l].pc = "replay" => NoRepeats(session'[l].out)
    BY <1>1, Zenon DEF SentSame, SentOK
  <2>2. ASSUME NEW b \in Bodies PROVE OnceEach(l, b)'
    <3>1. EventToCome(l, b)' => EventToCome(l, b)
      BY EventsShrink, Zenon
    <3>2. ReplayToCome(l, b)' => ReplayToCome(l, b)
      BY <1>1, Zenon DEF ReplayToCome, SentSame
    <3>3. OnceEach(l, b)
      BY Zenon DEF SentOK
    <3> QED BY <1>1, <3>1, <3>2, <3>3, Zenon DEF OnceEach, SentSame
  <2> QED BY <2>1, <2>2, Zenon DEF SentOK
<1>2. CASE SentNone(l)
  <2>1. ASSUME NEW b \in Bodies PROVE ~Twice(got'[l], b) /\ ~Thrice(got'[l], b) /\ b \notin Range(got'[l])
    BY <1>2 DEF SentNone, Twice, Thrice, Range
  <2> QED BY <1>2, <2>1, Zenon DEF SentNone, SentOK, OnceEach, ReplayToCome
<1> QED BY <1>1, <1>2, Zenon

\* The hub's answer to a join has what was said before it, each message once.
LEMMA HubJoinKeeps ==
    ASSUME TypeOK, StoredOK, Server, [RoomNext]_roomVars, NEW l \in Links, SentOK(l), HubJoin(l)
    PROVE  SentOK(l)'
<1>1. /\ session[l].pc = "join" /\ session'[l].pc = "replay" /\ since'[l] = posts
      /\ session'[l].out \in Answers(OwnerOf[l]) /\ got' = got /\ OwnerOf[l] \in Identities
  BY HubJoinIs, RoomConstants, Zenon DEF Server, HubJoin
<1>2. NoRepeats(session'[l].out) /\ \A b \in Range(session'[l].out) : b <= posts
  BY <1>1, AnswerIs, Zenon DEF Range
<1>3. ASSUME NEW b \in Bodies PROVE OnceEach(l, b)'
  <2>1. EventToCome(l, b)' => EventToCome(l, b)
    BY EventsShrink, Zenon
  <2>2. ~Twice(got[l], b) /\ (EventToCome(l, b) => b \notin Range(got[l])) /\ ~Thrice(got[l], b)
    BY <1>1, Zenon DEF SentOK, OnceEach
  <2>3. ReplayToCome(l, b)' => ~(b > since'[l])
    BY <1>1, <1>2, BodiesAreNat, PostsIsNat, Zenon DEF ReplayToCome
  <2> QED BY <1>1, <2>1, <2>2, <2>3, Zenon DEF OnceEach
<1> QED BY <1>2, <1>3, Zenon DEF SentOK

\* A message of the replay is sent, or refused, and is not in the rest of it.
LEMMA SendReplayKeeps ==
    ASSUME TypeOK, StoredOK, Server, [RoomNext]_roomVars, NEW l \in Links, SentOK(l), SendReplay(l)
    PROVE  SentOK(l)'
<1>0. RoomTypes /\ session[l] \in Session /\ session \in [Links -> Session] /\ got[l] \in Seq(Bodies)
  BY DEF Server, RoomTypes
<1> DEFINE s == session[l].out
           t == Tail(s)
<1>1. session[l].pc = "replay" /\ session'[l].pc = "replay" /\ since'[l] = since[l] /\ session'[l].out = t
  BY <1>0, SendReplayIs, Zenon
<1>2. s \in Seq(Bodies) /\ s # <<>> /\ NoRepeats(s)
  BY <1>0, <1>1, Zenon DEF Session, SendReplay, SentOK
<1>3. PICK x \in Bodies : x = Head(s)
  BY <1>2, FirstOfOnce, Zenon
<1>4. NoRepeats(t) /\ x \notin Range(t) /\ \A b : b \in Range(s) <=> b = x \/ b \in Range(t)
  BY <1>2, <1>3, FirstOfOnce, Zenon
<1>5. got'[l] = Append(got[l], x) \/ got'[l] = got[l]
  BY <1>0, <1>3, SendsIs, Zenon DEF SendReplay, Handed
<1>6. ASSUME NEW b \in Bodies PROVE OnceEach(l, b)'
  <2>1. EventToCome(l, b)' => EventToCome(l, b)
    BY EventsShrink
  <2>2. (ReplayToCome(l, b)' <=> b \in Range(t)) /\ (ReplayToCome(l, b) <=> b = x \/ b \in Range(t))
    BY <1>1, <1>4, Zenon DEF ReplayToCome
  <2>3. OnceEach(l, b)
    BY DEF SentOK
  <2>4. CASE got'[l] = got[l]
    BY <1>1, <2>1, <2>2, <2>3, <2>4, Zenon DEF OnceEach
  <2>5. CASE got'[l] = Append(got[l], x)
    <3>1. /\ b \in Range(got'[l]) <=> b \in Range(got[l]) \/ b = x
          /\ Twice(got'[l], b) => Twice(got[l], b) \/ (b \in Range(got[l]) /\ b = x)
          /\ Thrice(got'[l], b) => Thrice(got[l], b) \/ (Twice(got[l], b) /\ b = x)
      BY <1>0, <2>5, OneMore, ZenonT(30)
    <3> QED BY <1>1, <1>4, <2>1, <2>2, <2>3, <3>1, Zenon DEF OnceEach
  <2> QED BY <1>5, <2>4, <2>5, Zenon
<1> QED BY <1>1, <1>4, <1>6, Zenon DEF SentOK

\* The first of the messages held is sent, or left out; no other of them is the same.
LEMMA FlushSends ==
    ASSUME TypeOK, StoredOK, Server, [RoomNext]_roomVars, NEW l \in Links, InTurn(l), Flush(l)
    PROVE  SentSame(l) \/ \E x \in Bodies : SentOne(l, x)
<1>0. RoomTypes /\ session[l] \in Session /\ session \in [Links -> Session]
  BY Zenon DEF Server, RoomTypes
<1> DEFINE h == session[l].held
<1>1. since' = since /\ session[l].pc = "flush" /\ session'[l].pc \in {"flush", "idle"}
      /\ session'[l].out = session[l].out
  <2>1. session' = [session EXCEPT ![l].pc = "idle", ![l].seen = 0] \/ session' = [session EXCEPT ![l].held = Tail(h)]
    BY DEF Flush
  <2>2. session'[l] = [session[l] EXCEPT !.pc = "idle", !.seen = 0] \/ session'[l] = [session[l] EXCEPT !.held = Tail(h)]
    BY <1>0, <2>1, Zenon
  <2>3. session'[l].out = session[l].out
    BY <1>0, <2>2, Zenon DEF Session
  <2> QED BY <1>0, <2>3, FlushIs, Zenon DEF Flush
<1>2. CASE got' = got
  BY <1>1, <1>2 DEF SentSame
<1>3. CASE got' # got
  <2>1. /\ h # <<>> /\ session'[l].held = Tail(h) /\ session'[l].pc = "flush"
        /\ got'[l] = Append(got[l], Head(h)[2]) /\ h \in Seq(Ids \X Bodies)
    BY <1>0, <1>3, FlushIs, Zenon DEF Session, SendsNone, Handed
  <2>2. PICK x \in Bodies : x = h[1][2]
    BY <2>1, HeldTail, Zenon
  <2>3. /\ Head(h) = h[1] /\ 1 \in DOMAIN h
        /\ \A n \in DOMAIN Tail(h) : n + 1 \in DOMAIN h /\ Tail(h)[n] = h[n + 1] /\ n \in Nat \ {0}
    BY <2>1, HeldTail, Zenon
  <2>4. EventToCome(l, x)
    BY <2>2, <2>3, Zenon DEF EventToCome, InHeld
  <2>5. ~Pending(l, x)'
    <3>1. ~Pending(l, x)
      BY <2>2, <2>3, BodiesAreNat, Zenon DEF InTurn
    <3> QED BY <3>1, PendingShrinks, Zenon
  <2>6. ~InHeld(l, x)'
    <3> SUFFICES ASSUME NEW n \in DOMAIN Tail(h), Tail(h)[n][2] = x PROVE FALSE
      BY <2>1, Zenon DEF InHeld
    <3>1. n + 1 \in DOMAIN h /\ 1 < n + 1 /\ h[n + 1][2] = x
      BY <2>3
    <3>2. h[1][2] < h[n + 1][2]
      BY <2>3, <3>1, Zenon DEF InTurn
    <3> QED BY <2>2, <3>1, <3>2, CatchUpConstants DEF Bodies
  <2> QED BY <1>1, <2>1, <2>2, <2>3, <2>4, <2>5, <2>6, Zenon DEF SentOne, EventToCome
<1> QED BY <1>2, <1>3, Zenon

\* The fan-out has no further use for the message it sends a link.
LEMMA FanSendOne ==
    ASSUME TypeOK, StoredOK, Server, [RoomNext]_roomVars, NEW l \in Links, InTurn(l), FanSend
    PROVE  SentSame(l) \/ \E x \in Bodies : SentOne(l, x)
<1>0. RoomTypes /\ QueueOK /\ EventOK(fan) /\ fan.kind = "message" /\ fan.to \notin fan.todo
  BY DEF Server, QueueOK, FanSend
<1>1. since' = since /\ session' = session /\ events' = events /\ posts' = posts
  BY Zenon DEF FanSend, catchUpVars
<1>2. /\ fan'.to = NoLink /\ fan'.todo = fan.todo /\ fan'.body = fan.body /\ fan.body \in Bodies
      /\ \A k \in Links \ {fan.to} : got'[k] = got[k]
      /\ got'[fan.to] = Append(got[fan.to], fan.body) \/ got' = got
  BY <1>0, FanSendIs, Zenon DEF Handed, SendsNone
<1>3. CASE got'[l] = got[l]
  BY <1>1, <1>3, Zenon DEF SentSame
<1>4. CASE got'[l] # got[l]
  <2>0. PICK x \in Bodies : x = fan.body
    BY <1>2, Zenon
  <2>1. fan.to = l /\ got'[l] = Append(got[l], fan.body)
    BY <1>2, <1>4, Zenon
  <2>2. Pending(l, x)
    BY <2>0, <2>1, Zenon DEF Pending, Ahead
  <2>3. ~Pending(l, x)'
    <3>1. ~Ahead(l)'
      BY <1>0, <1>2, <2>1, RoomConstants, Zenon DEF Ahead
    <3>2. /\ fan.body <= posts /\ posts \in Nat /\ fan.body \in Nat /\ fan.body # NoBody
          /\ ~(fan.body > posts) /\ ~(fan.body < fan.body)
      BY <1>0, <1>2, BodiesAreNat, PostsIsNat, Zenon DEF QueueOK
    <3>3. \A n \in DOMAIN events : events[n].body # fan.body
      BY <1>0, <3>2, Zenon DEF QueueOK
    <3> QED BY <1>1, <1>2, <2>0, <3>1, <3>2, <3>3, Zenon DEF Pending
  <2>4. ~InHeld(l, x)
    BY <2>2, CatchUpConstants DEF InTurn, InHeld, Bodies
  <2> QED BY <1>1, <2>0, <2>1, <2>2, <2>3, <2>4, Zenon DEF SentOne, EventToCome, InHeld
<1> QED BY <1>3, <1>4, Zenon

\* Every step keeps it.
LEMMA SentStep ==
    ASSUME TypeOK, StoredOK, Server, [RoomNext]_roomVars, NEW k \in Links, InTurn(k), SentOK(k)
    PROVE  SentOK(k)'
<1>0. RoomTypes /\ EventOK(fan) /\ session[k] \in Session /\ session \in [Links -> Session]
  BY Zenon DEF Server, QueueOK, RoomTypes
<1>1. CASE session'[k] = session[k] /\ got'[k] = got[k] /\ since'[k] = since[k]
  BY <1>1, SentSameKeeps, Zenon DEF SentSame
<1>2. CASE StopAndStart
  BY <1>2, SentSameKeeps, Zenon DEF StopAndStart, Closed, SentSame
<1>3. ASSUME NEW l \in Links, Offer(l) PROVE SentOK(k)'
  <2>1. session'[k] = session[k] \/ session'[k] = [session[k] EXCEPT !.held = Append(@, <<fan.id, fan.body>>)]
    BY <1>0, <1>3, OfferIs, Zenon
  <2>2. session'[k].pc = session[k].pc /\ session'[k].out = session[k].out
    BY <1>0, <2>1 DEF Session
  <2> QED BY <1>3, <2>2, SentSameKeeps, Zenon DEF SentSame, Offer
<1>4. ASSUME NEW l \in Links, DropFromRoom(l) PROVE SentOK(k)'
  <2>1. session'[k] = session[k] \/ session'[k] = [session[k] EXCEPT !.in = FALSE]
    BY <1>0, <1>4, DropIs, Zenon
  <2>2. session'[k].pc = session[k].pc /\ session'[k].out = session[k].out
    BY <1>0, <2>1, Zenon DEF Session
  <2> QED BY <1>4, <2>2, SentSameKeeps DEF SentSame, DropFromRoom
<1>5. CASE FanSend
  BY <1>5, FanSendOne, SentSameKeeps, SentOneKeeps, Zenon
<1>6. ASSUME NEW l \in Links, Worker(l) \/ Client(l) PROVE SentOK(k)'
  <2>1. CASE k # l
    BY <1>0, <1>1, <1>6, <2>1, LinkStepOwn, Zenon DEF OwnStep
  <2>2. CASE HubJoin(k)
    BY <2>2, HubJoinKeeps, Zenon
  <2>3. CASE SendReplay(k)
    BY <2>3, SendReplayKeeps, Zenon
  <2>4. CASE Flush(k)
    BY <2>4, FlushSends, SentSameKeeps, SentOneKeeps, Zenon
  <2>5. CASE JoinRefused(k) \/ FinishJoin(k) \/ HubPart(k) \/ HubPartFails(k) \/ BeginLeave(k) \/ Close(k)
    <3>0. got' = got /\ since' = since
      BY <2>5, Zenon DEF JoinRefused, FinishJoin, HubPart, HubPartFails, BeginLeave, Close
    <3>1. session'[k].pc \notin {"join", "replay"}
      BY <1>0, <2>5 DEF JoinRefused, FinishJoin, HubPart, HubPartFails, BeginLeave, Close, Session
    <3> QED BY <3>0, <3>1, SentSameKeeps, Zenon DEF SentSame
  <2>6. CASE Establish(k) \/ BeginJoin(k)
    <3>1. got' = [got EXCEPT ![k] = <<>>] /\ got \in [Links -> Seq(Bodies)]
      BY <1>0, <2>6, Zenon DEF Establish, BeginJoin, RoomTypes
    <3>2. ASSUME Establish(k) PROVE session'[k].pc # "replay"
      BY <1>0, <3>2, Zenon DEF Establish, Closed
    <3>3. ASSUME BeginJoin(k) PROVE session'[k].pc # "replay"
      BY <1>0, <3>3, Zenon DEF BeginJoin, Session
    <3> QED BY <2>6, <3>1, <3>2, <3>3, SentSameKeeps, Zenon DEF SentNone
  <2> QED BY <1>6, <2>1, <2>2, <2>3, <2>4, <2>5, <2>6, Zenon DEF Worker, Client
<1>7. \/ session' = session /\ got' = got /\ since' = since
      \/ StopAndStart \/ FanSend \/ (\E l \in Links : Offer(l) \/ DropFromRoom(l) \/ Worker(l) \/ Client(l))
  BY Zenon DEF RoomNext, HubSide, FanOut, SayHere, KickFrom, Elsewhere, TakeEvent, roomVars, rrcVars
<1> QED BY <1>1, <1>2, <1>3, <1>4, <1>5, <1>6, <1>7, Zenon
-----------------------------------------------------------------------------
(* IDs and bodies. *)

\* The IDs a step adds to the queue and the sessions are bodies, if those are.
LEMMA EventIdsStep ==
    ASSUME Inv, Server, [RoomNext]_roomVars, ~Reused, ~Reused', EventIds
    PROVE  EventIds'
<1>0. TypeOK /\ StoredOK /\ InOrder /\ RoomTypes /\ EventOK(fan) /\ (fan.to # NoLink => fan.kind = "message")
  BY DEF Inv, Server, QueueOK
<1>1. CASE events' = events /\ fan'.kind = fan.kind /\ fan'.id = fan.id /\ fan'.body = fan.body
  BY <1>1, Zenon DEF EventIds
<1>2. ASSUME NEW e \in Event, e.kind = "message" => e.id = e.body, fan' = fan, events' = Append(events, e)
      PROVE  EventIds'
  <2>1. ASSUME NEW n \in DOMAIN events' PROVE events'[n] = e \/ (n \in DOMAIN events /\ events'[n] = events[n])
    BY <1>0, <1>2, AppendEvent DEF RoomTypes
  <2> QED BY <1>2, <2>1, Zenon DEF EventIds
<1>3. CASE SayHere
  <2>1. PICK i \in Ids : Post(i, TRUE) /\ Publish(MessageEvent(i, posts + 1))
    BY <1>3, Zenon DEF SayHere
  <2>2. posts + 1 \in Bodies /\ fan' = fan
    BY <1>0, <1>3, <2>1, NextBody, Zenon DEF SayHere
  <2>3. PICK e \in Event : e = MessageEvent(i, posts + 1)
    BY <2>2, HubEvents
  <2>4. e.id = e.body
    BY <1>0, <2>1, <2>3, PostIsNext, Zenon DEF MessageEvent
  <2>5. events' = events \/ events' = Append(events, e)
    BY <1>0, <2>1, <2>3, PublishIs, Zenon
  <2> QED BY <1>1, <1>2, <2>2, <2>4, <2>5, Zenon
<1>4. ASSUME NEW id \in Identities, KickFrom(id) PROVE EventIds'
  <2>1. PICK e \in Event : e = RemovedEvent(id)
    BY HubEvents, Zenon
  <2>2. e.kind # "message" /\ fan' = fan /\ (events' = events \/ events' = Append(events, e))
    BY <1>0, <1>4, <2>1, PublishIs, Zenon DEF KickFrom, RemovedEvent
  <2> QED BY <1>1, <1>2, <2>2, Zenon
<1>5. CASE StopAndStart
  <2>1. DOMAIN events' = {} /\ fan'.kind = "none"
    BY <1>5 DEF StopAndStart, Idle
  <2> QED BY <2>1, Zenon DEF EventIds
<1>6. CASE TakeEvent
  <2>1. /\ fan'.kind = events[1].kind /\ fan'.id = events[1].id /\ fan'.body = events[1].body
        /\ 1 \in DOMAIN events /\ \A n \in DOMAIN events' : n + 1 \in DOMAIN events /\ events'[n] = events[n + 1]
    BY <1>0, <1>6, TakeEventIs, Zenon
  <2> QED BY <2>1 DEF EventIds
<1>7. CASE Elsewhere \/ UNCHANGED roomVars
  BY <1>1, <1>7, Zenon DEF Elsewhere, rrcVars, roomVars
<1>8. CASE FanSend
  <2>1. fan'.kind = fan.kind /\ fan'.id = fan.id /\ fan'.body = fan.body
    BY <1>0, <1>8, FanSendIs, Zenon DEF FanSend
  <2> QED BY <1>1, <1>8, <2>1, Zenon DEF FanSend
<1>9. ASSUME NEW l \in Links, Offer(l) \/ DropFromRoom(l) PROVE EventIds'
  <2>1. fan'.kind = fan.kind /\ fan'.id = fan.id /\ fan'.body = fan.body
    BY <1>0, <1>9, OfferIs, DropIs, Zenon
  <2> QED BY <1>1, <1>9, <2>1, Zenon DEF Offer, DropFromRoom
<1>10. ASSUME NEW l \in Links, Worker(l) \/ Client(l) PROVE EventIds'
  <2>1. events' = events /\ (Establish(l) \/ fan' = fan)
    BY <1>0, <1>10, LinkStepOwn, Zenon DEF OwnStep
  <2>2. fan'.kind = fan.kind /\ fan'.id = fan.id /\ fan'.body = fan.body
    BY <1>0, <2>1, EstablishFan, Zenon
  <2> QED BY <1>1, <2>1, <2>2, Zenon
<1> QED BY <1>3, <1>4, <1>5, <1>6, <1>7, <1>8, <1>9, <1>10, ZenonT(30) DEF RoomNext, HubSide, FanOut

\* What a step does to what a session was told it has seen.
LEMMA SeenStep ==
    ASSUME Inv, Server, [RoomNext]_roomVars, NEW k \in Links, session'[k].pc \in {"replay", "flush"}
    PROVE  \/ HubJoin(k)
           \/ session[k].pc \in {"replay", "flush"} /\ session'[k].seen = session[k].seen /\ since'[k] = since[k]
<1>0. TypeOK /\ StoredOK /\ RoomTypes /\ EventOK(fan) /\ session[k] \in Session /\ session \in [Links -> Session]
  BY Zenon DEF Inv, Server, QueueOK, RoomTypes
<1>1. CASE session'[k] = session[k] /\ since'[k] = since[k]
  BY <1>1, Zenon
<1>2. CASE StopAndStart
  BY <1>2, Zenon DEF StopAndStart, Closed
<1>3. ASSUME NEW l \in Links, Offer(l) \/ DropFromRoom(l)
      PROVE  session[k].pc = session'[k].pc /\ session'[k].seen = session[k].seen /\ since'[k] = since[k]
  <2>1. session'[k] = session[k] \/ session'[k] = [session[k] EXCEPT !.held = Append(@, <<fan.id, fan.body>>)]
        \/ session'[k] = [session[k] EXCEPT !.in = FALSE]
    BY <1>0, <1>3, OfferIs, DropIs, Zenon
  <2>2. session[k].pc = session'[k].pc /\ session'[k].seen = session[k].seen
    BY <1>0, <2>1, Zenon DEF Session
  <2> QED BY <1>3, <2>2, Zenon DEF Offer, DropFromRoom
<1>4. ASSUME NEW l \in Links, Worker(l) \/ Client(l), ~HubJoin(k)
      PROVE  session[k].pc \in {"replay", "flush"} /\ session'[k].seen = session[k].seen /\ since'[k] = since[k]
  <2>1. CASE k # l
    BY <1>0, <1>4, <2>1, LinkStepOwn, Zenon DEF OwnStep
  <2>2. CASE Flush(k)
    BY <1>0, <2>2, FlushIs, Zenon DEF Flush
  <2>3. CASE FinishJoin(k)
    BY <1>0, <2>3, Zenon DEF FinishJoin, Step, Session
  <2>6. CASE SendReplay(k)
    BY <1>0, <2>6, SendReplayIs, Zenon
  <2>4. CASE JoinRefused(k) \/ BeginJoin(k) \/ HubPart(k) \/ HubPartFails(k) \/ BeginLeave(k) \/ Close(k)
    BY <1>0, <2>4 DEF JoinRefused, BeginJoin, HubPart, HubPartFails, BeginLeave, Close, Session
  <2>5. CASE Establish(k)
    BY <1>0, <2>5, Zenon DEF Establish, Closed
  <2> QED BY <1>4, <2>1, <2>2, <2>3, <2>4, <2>5, <2>6, Zenon DEF Worker, Client
<1>5. \/ session' = session /\ since' = since
      \/ StopAndStart \/ (\E l \in Links : Offer(l) \/ DropFromRoom(l) \/ Worker(l) \/ Client(l))
  BY Zenon
     DEF RoomNext, HubSide, FanOut, SayHere, KickFrom, Elsewhere, TakeEvent, FanSend, roomVars, rrcVars
<1> QED BY <1>1, <1>2, <1>3, <1>4, <1>5, Zenon

\* A session holds messages under their IDs, and has seen none said after its join.
LEMMA HeldIdsStep ==
    ASSUME Inv, Server, [RoomNext]_roomVars, ~Reused, ~Reused', EventIds, NEW k \in Links, HeldIds(k)
    PROVE  HeldIds(k)'
<1> DEFINE h == session[k].held
<1>0. TypeOK /\ StoredOK /\ InOrder /\ RoomTypes /\ h \in Seq(Ids \X Bodies)
  BY Zenon DEF Inv, Server, RoomTypes, Session
<1>1. session'[k].pc \in {"replay", "flush"} => session'[k].seen <= since'[k]
  <2>1. CASE HubJoin(k)
    <3>1. session'[k].seen = (IF Present(OwnerOf[k]) THEN 0 ELSE LastMessageID) /\ since'[k] = posts
      BY <1>0, <2>1, HubJoinIs, Zenon
    <3>2. LastMessageID <= posts /\ 0 <= posts
      BY <1>0, LastIsPosted, CatchUpConstants DEF TypeOK
    <3> QED BY <3>1, <3>2, Zenon
  <2>2. CASE ~HubJoin(k)
    BY <2>2, SeenStep, Zenon DEF HeldIds
  <2> QED BY <2>1, <2>2, Zenon
<1>2. ASSUME NEW n \in DOMAIN session'[k].held PROVE session'[k].held[n][1] = session'[k].held[n][2]
  <2>1. CASE HeldSame(k) \/ HeldNone(k)
    BY <1>2, <2>1 DEF HeldSame, HeldNone, HeldIds
  <2>2. CASE HeldSent(k)
    <3>1. h # <<>> /\ session'[k].held = Tail(h)
      BY <2>2, Zenon DEF HeldSent
    <3>2. n + 1 \in DOMAIN h /\ Tail(h)[n] = h[n + 1]
      BY <1>0, <1>2, <3>1, HeldTail, Zenon
    <3> QED BY <3>1, <3>2, Zenon DEF HeldIds
  <2>3. CASE HeldMore(k)
    <3>1. PICK x \in Ids \X Bodies : x = <<fan.id, fan.body>>
      BY <1>0, <2>3, HeldMoreIs, Zenon
    <3>2. session'[k].held = Append(h, x) /\ x[1] = x[2]
      BY <1>0, <2>3, <3>1, HeldMoreIs, Zenon DEF HeldMore, EventIds
    <3>3. (n \in DOMAIN h /\ Append(h, x)[n] = h[n]) \/ Append(h, x)[n] = x
      BY <1>0, <1>2, <3>2, HeldAppend
    <3> QED BY <3>2, <3>3, Zenon DEF HeldIds
  <2> QED BY <1>0, <2>1, <2>2, <2>3, HeldStep, Zenon
<1> QED BY <1>1, <1>2 DEF HeldIds

\* Every step keeps the IDs of messages on their way what their bodies are.
LEMMA IdsStep ==
    ASSUME Inv, Server, [RoomNext]_roomVars, IdsAreBodies
    PROVE  IdsAreBodies'
<1>1. [Next]_catchUpVars
  BY RoomStepIs
<1>2. ~Reused' => ~Reused
  BY <1>1, ReusedStays, Zenon DEF Inv
<1> QED BY <1>2, EventIdsStep, HeldIdsStep, Zenon DEF IdsAreBodies
-----------------------------------------------------------------------------
(* Nothing is lost. *)

\* The two ways a message comes to a link that has joined.
InQueue(l, b) == (\E n \in DOMAIN events : events[n].body = b) \/ (fan.body = b /\ Ahead(l))
Kept(l, b) ==
    /\ session[l].pc \in {"replay", "flush"}
    /\ \E n \in DOMAIN session[l].held : session[l].held[n][2] = b /\ session[l].held[n][1] > session[l].seen

\* What NothingLost says of a message on its way.
LEMMA ComingIs ==
    ASSUME events \in Seq(Event), NEW l \in Links, NEW b
    PROVE  Coming(l, b) <=> InQueue(l, b) \/ Kept(l, b)
<1>1. DOMAIN events = 1..Len(events)
  OBVIOUS
<1>2. (\E h \in Range(session[l].held) : h[2] = b /\ h[1] > session[l].seen) <=>
      (\E n \in DOMAIN session[l].held : session[l].held[n][2] = b /\ session[l].held[n][1] > session[l].seen)
  BY Zenon DEF Range
<1> QED BY <1>1, <1>2, Zenon DEF Coming, InQueue, Kept, Ahead

\* A link that has joined has a session, and had joined before the step but for HubJoin.
LEMMA JoinedStep ==
    ASSUME Inv, Server, [RoomNext]_roomVars, NEW k \in Links, Joined(k)', ~HubJoin(k)
    PROVE  /\ Joined(k) /\ session[k].open /\ since'[k] = since[k] /\ ~StopAndStart
           /\ ~Establish(k) /\ ~BeginJoin(k) /\ ~JoinRefused(k) /\ ~HubPart(k) /\ ~HubPartFails(k)
           /\ ~BeginLeave(k) /\ ~Close(k)
<1>0. /\ TypeOK /\ StoredOK /\ RoomTypes /\ EventOK(fan) /\ SessionShape(session[k])
      /\ session[k] \in Session /\ session \in [Links -> Session]
  BY Zenon DEF Inv, Server, QueueOK, RoomTypes
<1>1. ~StopAndStart
  BY DEF StopAndStart, Closed, Joined
<1>2. ~Establish(k)
  <2> SUFFICES ASSUME Establish(k) PROVE FALSE
    OBVIOUS
  <2>1. session'[k] = [Closed EXCEPT !.open = TRUE]
    BY <1>0, Zenon DEF Establish
  <2> QED BY <2>1 DEF Joined, Closed
<1>3. ~BeginJoin(k) /\ ~JoinRefused(k) /\ ~HubPart(k) /\ ~HubPartFails(k)
  <2>1. ASSUME BeginJoin(k) \/ JoinRefused(k) \/ HubPart(k) \/ HubPartFails(k)
        PROVE  session'[k].pc # "replay" /\ session'[k].in = session[k].in /\ ~session[k].in
    BY <1>0, <2>1 DEF BeginJoin, JoinRefused, HubPart, HubPartFails, Step, Session, SessionShape
  <2> QED BY <2>1, Zenon DEF Joined
<1>4. ~BeginLeave(k) /\ ~Close(k)
  <2>1. ASSUME BeginLeave(k) \/ Close(k) PROVE session'[k].pc # "replay" /\ session'[k].in = FALSE
    BY <1>0, <2>1 DEF BeginLeave, Close, Session
  <2> QED BY <2>1, Zenon DEF Joined
<1>5. Joined(k) /\ since'[k] = since[k]
  <2>1. CASE session'[k] = session[k] /\ since'[k] = since[k]
    BY <2>1, Zenon DEF Joined
  <2>2. ASSUME NEW l \in Links, Offer(l) \/ DropFromRoom(l) PROVE Joined(k) /\ since'[k] = since[k]
    <3>1. session'[k] = session[k] \/ session'[k] = [session[k] EXCEPT !.held = Append(@, <<fan.id, fan.body>>)]
          \/ session'[k] = [session[k] EXCEPT !.in = FALSE]
      BY <1>0, <2>2, OfferIs, DropIs, Zenon
    <3>2. session'[k].pc = session[k].pc /\ (session'[k].in => session[k].in)
      BY <1>0, <3>1, Zenon DEF Session
    <3> QED BY <2>2, <3>2, Zenon DEF Offer, DropFromRoom, Joined
  <2>3. ASSUME NEW l \in Links, Worker(l) \/ Client(l) PROVE Joined(k) /\ since'[k] = since[k]
    <3>1. CASE k # l
      BY <1>0, <2>1, <2>3, <3>1, LinkStepOwn, Zenon DEF OwnStep
    <3>2. CASE Flush(k)
      BY <1>0, <3>2, FlushIs, Zenon DEF Flush, Joined
    <3>3. CASE SendReplay(k) \/ FinishJoin(k)
      BY <1>0, <3>3, Zenon DEF SendReplay, FinishJoin, Step, Joined
    <3> QED BY <1>2, <1>3, <1>4, <2>3, <3>1, <3>2, <3>3, Zenon DEF Worker, Client
  <2>4. \/ session' = session /\ since' = since
        \/ StopAndStart \/ (\E l \in Links : Offer(l) \/ DropFromRoom(l) \/ Worker(l) \/ Client(l))
    BY Zenon
       DEF RoomNext, HubSide, FanOut, SayHere, KickFrom, Elsewhere, TakeEvent, FanSend, roomVars, rrcVars
  <2> QED BY <1>1, <2>1, <2>2, <2>3, <2>4, Zenon
<1>6. session[k].open
  BY <1>0, <1>5 DEF Joined, SessionShape
<1> QED BY <1>1, <1>2, <1>3, <1>4, <1>5, <1>6, ZenonT(30)

\* A message in the queue stays in it, or with the fan-out, until the session of a
\* link that has joined is sent it or holds it.
LEMMA QueueCarries ==
    ASSUME Inv, Server, [RoomNext]_roomVars, NEW k \in Links, Joined(k)', ~HubJoin(k), NEW b \in Bodies,
           InQueue(k, b)
    PROVE  \/ InQueue(k, b)'
           \/ FanSend /\ fan.to = k /\ fan.body = b
           \/ Offer(k) /\ session[k].joining /\ fan.body = b
<1>0. /\ TypeOK /\ StoredOK /\ RoomTypes /\ EventOK(fan) /\ SessionShape(session[k]) /\ QueueOK
      /\ (fan.to # NoLink => fan.kind = "message") /\ b # NoBody /\ k # NoLink
  <2>1. b # NoBody /\ k # NoLink
    BY CatchUpConstants, RoomConstants DEF Bodies, NoBody
  <2> QED BY <2>1, Zenon DEF Inv, Server, QueueOK
<1>j. Joined(k) /\ session[k].open /\ ~StopAndStart /\ ~Establish(k)
  BY JoinedStep, Zenon
<1>1. ASSUME events' = events, fan'.body = fan.body, Ahead(k) => Ahead(k)' PROVE InQueue(k, b)'
  BY <1>1, Zenon DEF InQueue
<1>2. ASSUME NEW e \in Event, fan' = fan, events' = Append(events, e) PROVE InQueue(k, b)'
  <2>1. \A n \in DOMAIN events : n \in DOMAIN events' /\ events'[n] = events[n]
    BY <1>0, <1>2, AppendEvent DEF RoomTypes
  <2> QED BY <1>2, <2>1, Zenon DEF InQueue, Ahead
<1>3. CASE SayHere
  <2>1. PICK i \in Ids : Post(i, TRUE) /\ Publish(MessageEvent(i, posts + 1))
    BY <1>3, Zenon DEF SayHere
  <2>2. posts + 1 \in Bodies /\ fan' = fan
    BY <1>0, <1>3, <2>1, NextBody, Zenon DEF SayHere
  <2>3. PICK e \in Event : e = MessageEvent(i, posts + 1)
    BY <2>2, HubEvents, Zenon
  <2>4. events' = events \/ events' = Append(events, e)
    BY <1>0, <2>1, <2>3, PublishIs, Zenon
  <2> QED BY <1>1, <1>2, <2>2, <2>4, Zenon DEF Ahead
<1>4. ASSUME NEW id \in Identities, KickFrom(id) PROVE InQueue(k, b)'
  <2>1. PICK e \in Event : e = RemovedEvent(id)
    BY HubEvents, Zenon
  <2>2. fan' = fan /\ (events' = events \/ events' = Append(events, e))
    BY <1>0, <1>4, <2>1, PublishIs, Zenon DEF KickFrom
  <2> QED BY <1>2, <2>2, Zenon DEF Ahead, InQueue
<1>5. CASE TakeEvent
  <2>1. PICK n \in DOMAIN events : events[n].body = b
    BY <1>0, <1>5, Zenon DEF TakeEvent, InQueue, Ahead
  <2>2. events \in Seq(Event) /\ events # <<>> /\ events' = Tail(events)
    BY <1>0, <1>5, Zenon DEF TakeEvent, RoomTypes
  <2>3. CASE n = 1
    <3>1. events[1].kind = "message"
      BY <1>0, <2>1, <2>3, Zenon DEF QueueOK, EventOK
    <3>2. Concerns(events[1], k)
      BY <1>j, <3>1, Zenon DEF Concerns
    <3> QED BY <1>0, <1>5, <2>1, <2>3, <3>2, TakeEventIs, Zenon DEF InQueue, Ahead
  <2>4. CASE n # 1
    <3>1. n - 1 \in DOMAIN events' /\ events'[n - 1] = events[n]
      BY <2>1, <2>2, <2>4
    <3> QED BY <2>1, <3>1, Zenon DEF InQueue
  <2> QED BY <2>3, <2>4, Zenon
<1>6. CASE Elsewhere \/ UNCHANGED roomVars
  BY <1>1, <1>6, Zenon DEF Elsewhere, rrcVars, roomVars, Ahead
<1>7. CASE FanSend
  <2>1. fan'.to = NoLink /\ fan'.todo = fan.todo /\ fan'.body = fan.body /\ events' = events
    BY <1>0, <1>7, FanSendIs, Zenon DEF FanSend
  <2> QED BY <1>7, <2>1, Zenon DEF InQueue, Ahead
<1>8. ASSUME NEW l \in Links, Offer(l) PROVE InQueue(k, b)' \/ (Offer(k) /\ session[k].joining /\ fan.body = b)
  <2>1. /\ fan'.to = (IF ~session[l].joining /\ session[l].in THEN l ELSE NoLink)
        /\ fan'.todo = fan.todo \ {l} /\ fan'.body = fan.body /\ events' = events /\ fan.to = NoLink
    BY <1>0, <1>8, OfferIs, Zenon DEF Offer
  <2>2. CASE l # k
    BY <1>0, <1>1, <2>1, <2>2, Zenon DEF Ahead
  <2>3. CASE l = k /\ ~session[k].joining
    <3>1. session[k].in
      BY <1>0, <1>j, <2>3, Zenon DEF Joined, SessionShape
    <3> QED BY <1>1, <2>1, <2>3, <3>1, Zenon DEF Ahead
  <2>4. CASE l = k /\ session[k].joining
    BY <1>8, <2>1, <2>4, Zenon DEF InQueue
  <2> QED BY <2>2, <2>3, <2>4, Zenon
<1>9. ASSUME NEW l \in Links, DropFromRoom(l) PROVE InQueue(k, b)'
  <2>1. fan.kind = "removed" /\ fan.body = NoBody /\ events' = events
    BY <1>0, <1>9, Zenon DEF DropFromRoom, EventOK
  <2> QED BY <1>0, <2>1, Zenon DEF InQueue
<1>10. ASSUME NEW l \in Links, Worker(l) \/ Client(l) PROVE InQueue(k, b)'
  <2>1. events' = events /\ (Establish(l) \/ fan' = fan)
    BY <1>0, <1>10, LinkStepOwn, Zenon DEF OwnStep
  <2>2. CASE fan' = fan
    BY <1>1, <2>1, <2>2, Zenon DEF Ahead
  <2>3. CASE Establish(l)
    <3>1. /\ fan'.to = (IF fan.to = l THEN NoLink ELSE fan.to) /\ fan'.todo = fan.todo \ {l} /\ k # l
          /\ fan'.body = fan.body
      BY <1>0, <1>j, <2>3, EstablishFan, Zenon
    <3> QED BY <1>1, <2>1, <3>1, Zenon DEF Ahead
  <2> QED BY <2>1, <2>2, <2>3, Zenon
<1> QED BY <1>j, <1>3, <1>4, <1>5, <1>6, <1>7, <1>8, <1>9, <1>10, ZenonT(30) DEF RoomNext, HubSide, FanOut

\* What was sent stays sent while the link is in the room, and what was lost, lost.
LEMMA SentStays ==
    ASSUME Inv, Server, [RoomNext]_roomVars, NEW k \in Links, Joined(k)', ~HubJoin(k)
    PROVE  (\A b \in Range(got[k]) : b \in Range(got'[k])) /\ lost[k] \subseteq lost'[k]
<1> DEFINE Stays == (\A b \in Range(got[k]) : b \in Range(got'[k])) /\ lost[k] \subseteq lost'[k]
<1>0. /\ TypeOK /\ StoredOK /\ RoomTypes /\ EventOK(fan) /\ (fan.to # NoLink => fan.kind = "message")
      /\ session[k] \in Session /\ got[k] \in Seq(Bodies)
  BY Zenon DEF Inv, Server, QueueOK, RoomTypes
<1>1. ASSUME got'[k] = got[k], lost'[k] = lost[k] PROVE Stays
  BY <1>1, Zenon
<1>2. ASSUME NEW x \in Bodies, Handed(k, x) PROVE Stays
  <2>1. CASE got'[k] = Append(got[k], x) /\ lost' = lost
    BY <1>0, <2>1, OneMore, Zenon
  <2>2. CASE got' = got /\ lost'[k] = lost[k] \cup {x}
    BY <2>2, Zenon
  <2> QED BY <1>2, <2>1, <2>2, Zenon DEF Handed
<1>3. CASE FanSend
  <2>1. CASE fan.to = k
    BY <1>0, <1>1, <1>2, <1>3, <2>1, FanSendIs, Zenon DEF FanSend, SendsNone
  <2>2. CASE fan.to # k
    BY <1>0, <1>1, <1>3, <2>2, FanSendIs, Zenon DEF FanSend, SendsNone, Handed
  <2> QED BY <2>1, <2>2, Zenon
<1>4. CASE SendReplay(k)
  <2>1. session[k].out \in Seq(Bodies) /\ session[k].out # <<>>
    BY <1>0, <1>4, Zenon DEF SendReplay, Session
  <2>2. Head(session[k].out) \in Bodies
    BY <2>1
  <2> QED BY <1>0, <1>2, <1>4, <2>2, SendsIs, Zenon DEF SendReplay
<1>5. CASE Flush(k)
  <2>1. SendsNone \/ (session[k].held # <<>> /\ Handed(k, Head(session[k].held)[2]))
    BY <1>0, <1>5, FlushIs, Zenon
  <2>2. session[k].held \in Seq(Ids \X Bodies)
    BY <1>0, Zenon DEF Session
  <2>3. session[k].held # <<>> => Head(session[k].held)[2] \in Bodies
    BY <2>2
  <2> QED BY <1>1, <1>2, <2>1, <2>3, Zenon DEF SendsNone
<1>6. ASSUME NEW l \in Links, Worker(l) \/ Client(l)
      PROVE  (got'[k] = got[k] /\ lost'[k] = lost[k]) \/ SendReplay(k) \/ Flush(k)
  <2>1. CASE k # l
    BY <1>0, <1>6, <2>1, LinkStepOwn, Zenon DEF OwnStep
  <2>2. CASE FinishJoin(k)
    BY <2>2, Zenon DEF FinishJoin
  <2>3. CASE k = l
    BY <1>6, <2>2, <2>3, JoinedStep, ZenonT(30) DEF Worker, Client
  <2> QED BY <2>1, <2>3, Zenon
<1>7. ASSUME NEW l \in Links, Offer(l) PROVE Stays
  BY <1>0, <1>7, OfferIs, Zenon DEF Offer
<1>8. (got' = got /\ lost' = lost) \/ FanSend \/ (\E l \in Links : Offer(l) \/ Worker(l) \/ Client(l))
  BY Zenon
     DEF RoomNext, HubSide, FanOut, SayHere, KickFrom, Elsewhere, StopAndStart, TakeEvent, DropFromRoom,
         roomVars, rrcVars
<1> QED BY <1>1, <1>3, <1>4, <1>5, <1>6, <1>7, <1>8, Zenon

\* A message that is held stays held until it is sent or refused.
LEMMA KeptCarries ==
    ASSUME Inv, Server, [RoomNext]_roomVars, NEW k \in Links, Joined(k)', ~HubJoin(k), NEW b \in Bodies, Kept(k, b)
    PROVE  Kept(k, b)' \/ b \in Range(got'[k]) \/ b \in lost'[k]
<1> DEFINE h == session[k].held
<1>0. /\ TypeOK /\ StoredOK /\ RoomTypes /\ EventOK(fan) /\ h \in Seq(Ids \X Bodies)
      /\ session[k] \in Session /\ session \in [Links -> Session] /\ got[k] \in Seq(Bodies)
  BY Zenon DEF Inv, Server, QueueOK, RoomTypes, Session
<1>1. PICK n \in DOMAIN h : h[n][2] = b /\ h[n][1] > session[k].seen
  BY Zenon DEF Kept
<1>2. CASE session'[k].held = h /\ session'[k].seen = session[k].seen /\ session'[k].pc \in {"replay", "flush"}
  BY <1>1, <1>2, Zenon DEF Kept
<1>3. session[k].pc \in {"replay", "flush"}
  BY Zenon DEF Kept
<1>4. CASE HeldMore(k)
  <2>1. PICK x \in Ids \X Bodies : x = <<fan.id, fan.body>>
    BY <1>0, <1>4, HeldMoreIs, ZenonT(30)
  <2>2. session'[k].held = Append(h, x)
    BY <1>4, <2>1 DEF HeldMore
  <2>3. session'[k] = session[k] \/ session'[k] = [session[k] EXCEPT !.held = Append(@, <<fan.id, fan.body>>)]
    BY <1>0, <1>4, OfferIs, Zenon DEF HeldMore
  <2>4. session'[k].pc = session[k].pc /\ session'[k].seen = session[k].seen
    BY <1>0, <2>3, Zenon DEF Session
  <2>5. n \in DOMAIN Append(h, x) /\ Append(h, x)[n] = h[n]
    BY <1>0, <1>1, HeldAppend
  <2> QED BY <1>1, <1>3, <2>2, <2>4, <2>5, Zenon DEF Kept
<1>5. ASSUME NEW l \in Links, Offer(l) \/ DropFromRoom(l) PROVE Kept(k, b)' \/ HeldMore(k)
  <2>1. session'[k] = session[k] \/ session'[k] = [session[k] EXCEPT !.in = FALSE]
        \/ (l = k /\ Offer(k) /\ session[k].joining
              /\ session'[k] = [session[k] EXCEPT !.held = Append(@, <<fan.id, fan.body>>)])
    BY <1>0, <1>5, OfferIs, DropIs, Zenon
  <2>2. \/ session'[k].held = h /\ session'[k].seen = session[k].seen /\ session'[k].pc = session[k].pc
        \/ HeldMore(k)
    BY <1>0, <2>1, Zenon DEF Session, HeldMore
  <2> QED BY <1>1, <1>3, <2>2, Zenon DEF Kept
<1>6. CASE FinishJoin(k)
  BY <1>0, <1>2, <1>6, Zenon DEF FinishJoin, Session
<1>11. CASE SendReplay(k)
  BY <1>0, <1>2, <1>11, SendReplayIs, Zenon
<1>7. CASE Flush(k)
  <2>1. /\ session'[k].held = Tail(h) /\ session'[k].pc = "flush" /\ session'[k].seen = session[k].seen
        /\ h # <<>>
        /\ IF Head(h)[1] > session[k].seen THEN Handed(k, Head(h)[2]) ELSE SendsNone
    <3>1. h # <<>>
      BY <1>1
    <3> QED BY <1>0, <1>7, <3>1, FlushIs, Zenon
  <2>2. Head(h) = h[1] /\ (n = 1 \/ (n - 1 \in DOMAIN Tail(h) /\ Tail(h)[n - 1] = h[n]))
    BY <1>0, <1>1, <2>1, HeldTail, Zenon
  <2>3. CASE n = 1
    <3>1. got'[k] = Append(got[k], b) \/ lost'[k] = lost[k] \cup {b}
      BY <1>1, <2>1, <2>2, <2>3, Zenon DEF Handed
    <3> QED BY <1>0, <3>1, OneMore, Zenon
  <2>4. CASE n # 1
    BY <1>1, <2>1, <2>2, <2>4, Zenon DEF Kept
  <2> QED BY <2>3, <2>4, Zenon
<1>8. ASSUME NEW l \in Links, Worker(l) \/ Client(l)
      PROVE  session'[k] = session[k] \/ SendReplay(k) \/ FinishJoin(k) \/ Flush(k)
  <2>1. CASE k # l
    BY <1>0, <1>8, <2>1, LinkStepOwn, Zenon DEF OwnStep
  <2>2. CASE k = l
    BY <1>8, <2>2, JoinedStep, Zenon DEF Worker, Client
  <2> QED BY <2>1, <2>2, Zenon
<1>9. \/ session' = session \/ StopAndStart
      \/ (\E l \in Links : Offer(l) \/ DropFromRoom(l) \/ Worker(l) \/ Client(l))
  BY Zenon
     DEF RoomNext, HubSide, FanOut, SayHere, KickFrom, Elsewhere, TakeEvent, FanSend, roomVars, rrcVars
<1>10. CASE session'[k] = session[k]
  BY <1>2, <1>3, <1>10, Zenon
<1> QED BY <1>4, <1>5, <1>6, <1>7, <1>8, <1>9, <1>10, <1>11, JoinedStep, Zenon

\* offerMessage holds, of the messages said after the join, every one it has room for.
LEMMA HeldIsKept ==
    ASSUME Inv, Server, [RoomNext]_roomVars, NEW k \in Links, Joined(k)', ~HubJoin(k), fan.body \notin lost'[k],
           EventIds, HeldIds(k), Offer(k), session[k].joining, fan.body > since[k]
    PROVE  \A b \in Bodies : fan.body = b => Kept(k, b)'
<1> DEFINE h == session[k].held
<1>0. /\ TypeOK /\ StoredOK /\ RoomTypes /\ EventOK(fan) /\ h \in Seq(Ids \X Bodies) /\ SessionShape(session[k])
      /\ session[k] \in Session /\ since[k] \in Nat /\ fan \in Fan
  <2>1. TypeOK /\ StoredOK /\ RoomTypes /\ EventOK(fan) /\ SessionShape(session[k])
    BY Zenon DEF Inv, Server, QueueOK
  <2>2. session[k] \in Session /\ fan \in Fan /\ since[k] \in 0..MaxPosts
    BY <2>1, Zenon DEF RoomTypes
  <2>3. h \in Seq(Ids \X Bodies)
    BY <2>2, Zenon DEF Session
  <2>4. since[k] \in Nat
    BY <2>2, CatchUpConstants
  <2> QED BY <2>1, <2>2, <2>3, <2>4, Zenon
<1>1. session[k].pc = "replay" /\ fan.kind = "message"
  BY <1>0, JoinedStep, Zenon DEF Joined, SessionShape, Offer
<1>2. fan.id = fan.body /\ fan.id \in Ids /\ fan.body \in Bodies
  BY <1>0, <1>1, Zenon DEF EventIds, EventOK, Fan
<1>3. fan.id > session[k].seen
  BY <1>0, <1>1, <1>2, CatchUpConstants DEF HeldIds, Session, Ids
<1>4. session'[k] = [session[k] EXCEPT !.held = Append(@, <<fan.id, fan.body>>)]
  BY <1>0, OfferIs, Zenon
<1>5. PICK x \in Ids \X Bodies : x = <<fan.id, fan.body>>
  BY <1>2, Zenon
<1>6. session'[k].held = Append(h, x) /\ session'[k].pc = "replay" /\ session'[k].seen = session[k].seen
  BY <1>0, <1>1, <1>4, <1>5, Zenon DEF Session
<1>7. Len(h) + 1 \in DOMAIN Append(h, x) /\ Append(h, x)[Len(h) + 1] = x
  BY <1>0, HeldAppend, ZenonT(30)
<1>8. x[1] = fan.id /\ x[2] = fan.body
  BY <1>5, Zenon
<1>9. PICK n : n \in DOMAIN session'[k].held /\ session'[k].held[n] = x
  BY <1>6, <1>7, Zenon
<1>10. session'[k].held[n][2] = fan.body /\ session'[k].held[n][1] > session'[k].seen
  BY <1>3, <1>6, <1>8, <1>9, Zenon
<1> QED BY <1>6, <1>9, <1>10, Zenon DEF Kept

\* A message that is said now is in the queue, unless that is full.
LEMMA SaidIsQueued ==
    ASSUME Inv, Server, [RoomNext]_roomVars, NEW b \in here', b \notin dropped', b \notin here, NEW k \in Links
    PROVE  InQueue(k, b)'
<1>0. TypeOK /\ StoredOK /\ RoomTypes
  BY DEF Inv, Server
<1>1. SayHere
  <2>1. here' # here
    BY Zenon
  <2>2. CASE Elsewhere
    BY <2>1, <2>2, Zenon DEF Elsewhere, Post, DeleteMessages, Maintain
  <2>3. CASE StopAndStart
    BY <2>1, <2>3, Zenon DEF StopAndStart, Crash, Restart
  <2>4. ASSUME NEW id \in Identities, KickFrom(id) PROVE FALSE
    BY <2>1, <2>4, Zenon DEF KickFrom, Kick
  <2>5. CASE FanOut \/ UNCHANGED roomVars
    BY <2>1, <2>5, Zenon
       DEF FanOut, TakeEvent, FanSend, Offer, DropFromRoom, roomVars, catchUpVars
  <2>6. ASSUME NEW l \in Links, Worker(l) \/ Client(l) PROVE FALSE
    <3>1. CASE HubJoin(l)
      BY <2>1, <3>1, Zenon DEF HubJoin, Join
    <3>2. CASE HubPart(l)
      BY <2>1, <3>2, Zenon DEF HubPart, Part, catchUpVars
    <3> QED BY <2>1, <2>6, <3>1, <3>2, ZenonT(30)
               DEF Worker, Client, JoinRefused, SendReplay, FinishJoin, Flush, HubPartFails, Establish,
                   BeginJoin, BeginLeave, Close, catchUpVars
  <2> QED BY <2>2, <2>3, <2>4, <2>5, <2>6, Zenon DEF RoomNext, HubSide
<1>2. PICK i \in Ids : Post(i, TRUE) /\ Publish(MessageEvent(i, posts + 1))
  BY <1>1, Zenon DEF SayHere
<1>3. posts + 1 \in Bodies /\ b = posts + 1
  BY <1>0, <1>2, NextBody, Zenon DEF Post
<1>4. PICK e \in Event : e = MessageEvent(i, posts + 1)
  BY <1>3, HubEvents, Zenon
<1>5. e.body = b
  BY <1>3, <1>4, Zenon DEF MessageEvent
<1>6. events' = Append(events, e)
  BY <1>0, <1>2, <1>4, <1>5, PublishIs, Zenon
<1>7. Len(events) + 1 \in DOMAIN events' /\ events'[Len(events) + 1] = e
  BY <1>0, <1>6, LastEvent, Zenon DEF RoomTypes
<1> QED BY <1>5, <1>7, Zenon DEF InQueue

\* What was dropped stays dropped.
LEMMA DroppedStays ==
    ASSUME Inv, Server, [RoomNext]_roomVars
    PROVE  dropped \subseteq dropped'
<1>0. TypeOK /\ StoredOK /\ RoomTypes
  BY Zenon DEF Inv, Server
<1>1. CASE SayHere
  BY <1>1, Zenon DEF SayHere, Publish
<1>2. ASSUME NEW id \in Identities, KickFrom(id) PROVE dropped \subseteq dropped'
  BY <1>2, Zenon DEF KickFrom, Publish
<1>3. ASSUME NEW l \in Links, Worker(l) \/ Client(l) PROVE dropped \subseteq dropped'
  BY <1>0, <1>3, LinkStepOwn, Zenon DEF OwnStep
<1> QED BY <1>1, <1>2, <1>3, Zenon
           DEF RoomNext, HubSide, FanOut, Elsewhere, StopAndStart, TakeEvent, FanSend, Offer,
               DropFromRoom, roomVars, rrcVars

\* Every step keeps each message said after a join, sent or on its way, unless a limit
\* cost it.
LEMMA NothingLostStep ==
    ASSUME Inv, Server, IdsAreBodies, NothingLost, [RoomNext]_roomVars, RoomTypes'
    PROVE  NothingLost'
<1> SUFFICES ASSUME ~Reused', NEW k \in Links, Joined(k)', NEW b \in here', b > since'[k],
                    b \notin lost'[k], b \notin dropped'
             PROVE  b \in Range(got'[k]) \/ Coming(k, b)'
  BY Zenon DEF NothingLost
<1>0. /\ TypeOK /\ StoredOK /\ RoomTypes /\ EventOK(fan) /\ (fan.to # NoLink => fan.kind = "message") /\ fan \in Fan
      /\ got[k] \in Seq(Bodies)
  BY Zenon DEF Inv, Server, QueueOK, RoomTypes
<1>1. [Next]_catchUpVars /\ TypeOK'
  BY <1>0, RoomStepIs, TypeStep, Zenon
<1>2. ~Reused /\ b \notin dropped /\ EventIds /\ HeldIds(k) /\ b \in Bodies
  BY <1>0, <1>1, ReusedStays, DroppedStays, ZenonT(30) DEF IdsAreBodies, TypeOK
<1>3. InQueue(k, b)' \/ Kept(k, b)' => Coming(k, b)'
  <2>1. events' \in Seq(Event) /\ DOMAIN events' = 1..Len(events')
    BY LastEvent, Zenon DEF RoomTypes
  <2> QED BY <2>1, Zenon DEF Coming, InQueue, Kept, Ahead, Range
<1>4. CASE HubJoin(k)
  <2>1. here' = here /\ since'[k] = posts
    BY <1>0, <1>4, HubJoinIs, Zenon DEF HubJoin, Join
  <2>2. b <= posts /\ posts \in Nat /\ b \in Nat
    <3>0. posts \in 0..MaxPosts
      <4>1. TypeOK
        BY <1>0, Zenon
      <4> QED BY <4>1, Zenon DEF TypeOK
    <3>1. posts \in Nat
      BY <3>0, CatchUpConstants
    <3>2. b \in 1..posts
      BY <1>0, <2>1, Zenon DEF StoredOK
    <3> QED BY <3>1, <3>2
  <2> QED BY <2>1, <2>2
<1>5. CASE ~HubJoin(k)
  <2>1. Joined(k) /\ since'[k] = since[k] /\ session[k].open
    BY <1>5, JoinedStep, Zenon
  <2>2. CASE b \notin here
    BY <1>3, <2>2, SaidIsQueued, Zenon
  <2>3. CASE b \in here
    <3>0. b \notin lost[k]
      BY <1>5, SentStays, Zenon
    <3>1. b \in Range(got[k]) \/ InQueue(k, b) \/ Kept(k, b)
      BY <1>0, <1>2, <2>1, <2>3, <3>0, ComingIs, Zenon DEF NothingLost, RoomTypes
    <3>2. CASE b \in Range(got[k])
      BY <1>5, <3>2, SentStays, Zenon
    <3>3. CASE Kept(k, b)
      BY <1>2, <1>3, <1>5, <3>3, KeptCarries, Zenon
    <3>4. CASE InQueue(k, b)
      <4>1. CASE InQueue(k, b)'
        BY <1>3, <4>1, Zenon
      <4>2. CASE FanSend /\ fan.to = k /\ fan.body = b
        <5>0. Handed(k, b)
          BY <1>0, <2>1, <4>2, FanSendIs, Zenon DEF FanSend
        <5>1. got'[k] = Append(got[k], b)
          BY <5>0, Zenon DEF Handed
        <5> QED BY <1>0, <1>2, <5>1, OneMore, ZenonT(30)
      <4>3. CASE Offer(k) /\ session[k].joining /\ fan.body = b
        BY <1>2, <1>3, <1>5, <2>1, <4>3, HeldIsKept, Zenon
      <4> QED BY <1>2, <1>5, <3>4, <4>1, <4>2, <4>3, QueueCarries, Zenon
    <3> QED BY <3>1, <3>2, <3>3, <3>4, Zenon
  <2> QED BY <2>2, <2>3, Zenon
<1> QED BY <1>4, <1>5, Zenon
-----------------------------------------------------------------------------
(* The theorems. *)

\* The invariant holds at first.
LEMMA RoomInitInv ==
    ASSUME RoomInit
    PROVE  RoomInv
<1>0. Inv /\ RoomTypes
  BY InitInv, RoomInitTypes, Zenon DEF RoomInit
<1>1. \A l \in Links : session[l] = Closed /\ got[l] = <<>> /\ since[l] = 0
  BY DEF RoomInit
<1>2. DOMAIN events = {} /\ fan = Idle /\ posts = 0 /\ here = {} /\ kicked = FALSE
      /\ \A id \in Identities : links[id] = 0 /\ leaked[id] = 0
  BY DEF RoomInit, Init
<1>3. /\ Closed.open = FALSE /\ Closed.in = FALSE /\ Closed.joining = FALSE /\ DOMAIN Closed.held = {}
      /\ Closed.pc = "idle"
  BY DEF Closed
<1>4. fan.kind = "none" /\ fan.body = 0 /\ fan.to = NoLink
  BY <1>2, Zenon DEF Idle, NoBody
<1>5. Server
  <2>1. fan.body <= posts
    BY <1>2, <1>4
  <2>2. QueueOK
    BY <1>2, <1>4, <2>1, Zenon DEF QueueOK, EventOK, NoBody
  <2>3. \A l \in Links : SessionShape(session[l])
    BY <1>1, <1>3, Zenon DEF SessionShape
  <2> QED BY <1>0, <2>2, <2>3, Zenon DEF Server
<1>6. PresenceCountsLinks
  <2> SUFFICES ASSUME NEW id \in Identities PROVE links[id] = leaked[id] + Cardinality(Counted(id))
    BY Zenon DEF PresenceCountsLinks, Counted
  <2>1. Counted(id) = {}
    BY <1>1, <1>3, Zenon DEF Counted
  <2>2. Cardinality(Counted(id)) = 0
    BY <2>1, FS_EmptySet, Zenon
  <2> QED BY <1>2, <2>2
<1>7. IdsAreBodies
  BY <1>1, <1>2, <1>3, <1>4, Zenon DEF IdsAreBodies, EventIds, HeldIds
<1>8. NothingLost
  BY <1>2, Zenon DEF NothingLost
<1>9. ASSUME NEW l \in Links PROVE InTurn(l)
  BY <1>1, <1>3, Zenon DEF InTurn
<1>10. ASSUME NEW l \in Links PROVE SentOK(l)
  <2>1. ASSUME NEW b \in Bodies PROVE ~Twice(got[l], b) /\ ~Thrice(got[l], b) /\ b \notin Range(got[l])
    BY <1>1 DEF Twice, Thrice, Range
  <2>2. session[l].pc = "idle"
    BY <1>1, <1>3, Zenon
  <2> QED BY <2>1, <2>2, Zenon DEF SentOK, OnceEach, ReplayToCome
<1> QED BY <1>0, <1>5, <1>6, <1>7, <1>8, <1>9, <1>10, ZenonT(30) DEF RoomInv

\* Every step keeps the invariant.
LEMMA RoomInvStep ==
    ASSUME RoomInv, [RoomNext]_roomVars
    PROVE  RoomInv'
<1>0. TypeOK /\ StoredOK /\ Inv /\ Server /\ PresenceCountsLinks /\ IdsAreBodies /\ NothingLost
      /\ \A l \in Links : InTurn(l) /\ SentOK(l)
  BY DEF RoomInv, Inv
<1>1. [Next]_catchUpVars
  BY RoomStepIs, Zenon
<1>2. Inv'
  BY <1>0, <1>1, TypeStep, StoredStep, InOrderStep, CursorBoundStep, CursorReachStep, Zenon DEF Inv
<1>3. Server' /\ RoomTypes'
  BY <1>0, ServerStep, RoomTypesStep, Zenon
<1>4. PresenceCountsLinks'
  BY <1>0, PresenceStep, Zenon
<1>5. IdsAreBodies' /\ NothingLost'
  BY <1>0, <1>3, IdsStep, NothingLostStep, Zenon
<1>6. ASSUME NEW l \in Links PROVE InTurn(l)' /\ SentOK(l)'
  BY <1>0, InTurnStep, SentStep, Zenon
<1> QED BY <1>2, <1>3, <1>4, <1>5, <1>6, ZenonT(30) DEF RoomInv

\* The invariant of the room with the RRC server in front of it holds throughout.
THEOREM RoomInvariant == RoomSpec => []RoomInv
<1>1. RoomInit => RoomInv
  BY RoomInitInv, Zenon
<1>2. RoomInv /\ [RoomNext]_roomVars => RoomInv'
  BY RoomInvStep
<1> QED BY <1>1, <1>2, PTL DEF RoomSpec

\* For any number of links, queue lengths and messages: what is said after the hub
\* took a link's join has been handed to the link or is on its way to it, but for the
\* very messages that a full queue refused, and until an ID is given twice (join and
\* finishJoin in handle.go, offerMessage and enqueue in session.go, publish).
THEOREM NothingEverLost == RoomSpec => []NothingLost
<1>1. RoomInv => NothingLost
  BY Zenon DEF RoomInv
<1> QED BY <1>1, RoomInvariant, PTL

\* Until someone is kicked, presenceEntry.rrcLinks is the number of the identity's
\* sessions in the room, or on their way in or out, and of those whose leaving the hub
\* failed to record (join and part in hub/rooms.go, part and closed in handle.go).
THEOREM PresenceAlwaysCounts == RoomSpec => []PresenceCountsLinks
<1>1. RoomInv => PresenceCountsLinks
  BY Zenon DEF RoomInv
<1> QED BY <1>1, RoomInvariant, PTL

\* What is said after the hub took the join is handed to a link once, and what was
\* said before it twice at most (finishJoin in handle.go, offerMessage in session.go).
THEOREM NewAlwaysSentOnce == RoomSpec => []NewSentOnce
<1>1. RoomInv => NewSentOnce
  <2> SUFFICES ASSUME RoomInv, NEW l \in Links, NEW m \in DOMAIN got[l], NEW n \in DOMAIN got[l],
                      m < n, got[l][m] = got[l][n]
               PROVE  /\ got[l][m] <= since[l]
                      /\ \A k \in DOMAIN got[l] \ {m, n} : got[l][k] # got[l][n]
    BY Zenon DEF NewSentOnce
  <2>1. got[l] \in Seq(Bodies) /\ since[l] \in Nat
    BY CatchUpConstants DEF RoomInv, Server, RoomTypes
  <2>2. PICK s : s = got[l]
    BY Zenon
  <2>3. s \in Seq(Bodies) /\ m \in DOMAIN s
    BY <2>2, <2>1, Zenon
  <2>4. s[m] \in Bodies
    BY <2>3
  <2>5. PICK b \in Bodies : b = got[l][m]
    BY <2>2, <2>4, Zenon
  <2>6. OnceEach(l, b)
    BY Zenon DEF RoomInv, SentOK
  <2>7. Twice(got[l], b)
    BY <2>5, Zenon DEF Twice
  <2>8. b <= since[l]
    BY <2>1, <2>6, <2>7, BodiesAreNat, ZenonT(30) DEF OnceEach
  <2>9. ASSUME NEW k \in DOMAIN got[l], k # m, k # n, got[l][k] = b PROVE FALSE
    <3>1. k < m \/ (m < k /\ k < n) \/ n < k
      <4>1. k \in Nat /\ m \in Nat /\ n \in Nat
        BY <2>1
      <4> QED BY <2>9, <4>1
    <3>2. Thrice(got[l], b)
      <4>1. CASE k < m
        BY <2>5, <2>9, <4>1, Zenon DEF Thrice
      <4>2. CASE m < k /\ k < n
        BY <2>5, <2>9, <4>2, Zenon DEF Thrice
      <4>3. CASE n < k
        BY <2>5, <2>9, <4>3, Zenon DEF Thrice
      <4> QED BY <3>1, <4>1, <4>2, <4>3, Zenon
    <3> QED BY <2>6, <3>2, Zenon DEF OnceEach
  <2> QED BY <2>5, <2>8, <2>9, Zenon
<1> QED BY <1>1, RoomInvariant, PTL
=============================================================================
