------------------------------ MODULE RrcRoom ------------------------------
(***************************************************************************)
(* The hub's room (CatchUp) together with the RRC server in front of it:   *)
(* the hub's event queue, the fan-out goroutine that turns events into     *)
(* frames, and one session per link whose worker handles JOIN, PART, a     *)
(* second HELLO and the close of the link, one at a time, by calls to the  *)
(* hub.                                                                    *)
(*                                                                         *)
(* A worker's handler is cut where another goroutine can come between its  *)
(* steps: at the calls to the hub and where it gives up the session's      *)
(* mutex.  got is what was handed to a link's send queue.  Links here are  *)
(* identified and welcomed; a second HELLO leaves the room as PART does.   *)
(***************************************************************************)
EXTENDS CatchUp, Sequences, Functions

CONSTANTS
    Links,     \* RRC links
    OwnerOf,   \* link -> the identity it identified as
    Buf,       \* the hub's event queue for the RRC server (4096)
    MaxHeld,   \* maxBuffered (256)
    MaxLost,   \* bound on messages refused by queues
    MaxLeaks,  \* bound on an identity's links counted after they left
    NoLink

ASSUME RoomConstants ==
    /\ OwnerOf \in [Links -> Identities] /\ Buf \in Nat \ {0}
    /\ {MaxHeld, MaxLost, MaxLeaks} \subseteq Nat
    /\ NoLink \notin Links /\ IsFiniteSet(Links)

VARIABLES
    events,   \* the subscription's queue
    fan,      \* the fan-out: the event it is at, sessions left, a frame on its way
    session,  \* link -> its session
    \* History.
    got,      \* link -> room messages handed to its queue since it last began to join
    lost,     \* link -> room messages its session or its queue refused since then
    since,    \* link -> posts when the hub took its join
    dropped,  \* messages whose event found the hub's queue full
    kicked,   \* someone was kicked
    leaked    \* identity -> links that left and the hub counts on

rrcVars == <<events, fan, session, got, lost, since, dropped, kicked, leaked>>
roomVars == <<catchUpVars, rrcVars>>

\* pc: between handlers (idle); JOIN before the hub has taken it (join) and after
\* (replay); sending what was held (flush); leaving, with the hub yet to be told.
\* out is the replay, held what came in meanwhile, seen the hub's SeenUpTo.
Closed == [open |-> FALSE, in |-> FALSE, joining |-> FALSE, held |-> <<>>, pc |-> "idle",
           out |-> <<>>, seen |-> 0]

Idle == [kind |-> "none", id |-> 0, body |-> NoBody, who |-> NoLink, todo |-> {}, to |-> NoLink]
MessageEvent(i, b) == [kind |-> "message", id |-> i, body |-> b, who |-> NoLink]
RemovedEvent(id) == [kind |-> "removed", id |-> 0, body |-> NoBody, who |-> id]

RoomInit ==
    /\ Init
    /\ events = <<>> /\ fan = Idle
    /\ session = [l \in Links |-> Closed]
    /\ got = [l \in Links |-> <<>>] /\ lost = [l \in Links |-> {}]
    /\ since = [l \in Links |-> 0]
    /\ dropped = {} /\ kicked = FALSE
    /\ leaked = [id \in Identities |-> 0]

\* sendFrames: enqueue takes a message's frames, or refuses one when the session's
\* queue is full or the session is closing, and the message is lost to the link.
Sends(l, b) ==
    \/ got' = [got EXCEPT ![l] = Append(@, b)] /\ UNCHANGED lost
    \/ /\ Cardinality(UNION Range(lost)) < MaxLost
       /\ lost' = [lost EXCEPT ![l] = @ \cup {b}] /\ UNCHANGED got

SendsNone == UNCHANGED <<got, lost>>

\* publish: a full queue drops the event.
Publish(e) ==
    IF Len(events) < Buf THEN events' = Append(events, e) /\ UNCHANGED dropped
    ELSE dropped' = dropped \cup {e.body} /\ UNCHANGED events

-----------------------------------------------------------------------------
(* Requests that other people and the clock make of the hub. *)

SayHere ==
    /\ \E i \in Ids : Post(i, TRUE) /\ Publish(MessageEvent(i, posts + 1))
    /\ UNCHANGED <<fan, session, got, lost, since, kicked, leaked>>

KickFrom(id) ==
    /\ Kick(id)
    /\ Publish(RemovedEvent(id))
    /\ kicked' = TRUE
    /\ leaked' = [leaked EXCEPT ![id] = 0]
    /\ UNCHANGED <<fan, session, got, lost, since>>

Elsewhere ==
    /\ \/ \E i \in Ids : Post(i, FALSE)
       \/ \E i \in Ids : DeleteMessages({i})
       \/ \E cutoff \in 0..MaxPosts : Maintain(cutoff)
    /\ UNCHANGED rrcVars

\* The process stops, in order or not, and starts again without links.
StopAndStart ==
    /\ Crash \/ Restart
    /\ events' = <<>> /\ fan' = Idle
    /\ session' = [l \in Links |-> Closed]
    /\ leaked' = [id \in Identities |-> 0]
    /\ UNCHANGED <<got, lost, since, dropped, kicked>>

-----------------------------------------------------------------------------
(* A link's worker. *)

Step(l, pc) == session[l].open /\ session[l].pc = pc

\* established, identified and the first HELLO: a new session, which the
\* fan-out's list of sessions does not have.
Establish(l) ==
    /\ ~session[l].open /\ session[l].pc = "idle"
    /\ session' = [session EXCEPT ![l] = [Closed EXCEPT !.open = TRUE]]
    /\ got' = [got EXCEPT ![l] = <<>>] /\ lost' = [lost EXCEPT ![l] = {}]
    /\ fan' = [fan EXCEPT !.todo = @ \ {l}, !.to = IF @ = l THEN NoLink ELSE @]
    /\ UNCHANGED <<catchUpVars, events, since, dropped, kicked, leaked>>

\* (mutant: a JOIN for a room the link is in reaches the hub again)
BeginJoinAgain(l) ==
    /\ Step(l, "idle")
    /\ session' = [session EXCEPT ![l].joining = TRUE, ![l].held = <<>>, ![l].pc = "join"]
    /\ got' = [got EXCEPT ![l] = <<>>] /\ lost' = [lost EXCEPT ![l] = {}]
    /\ UNCHANGED <<catchUpVars, events, fan, since, dropped, kicked, leaked>>

\* JOIN: room messages are held from here until the join is finished.
BeginJoin(l) ==
    /\ Step(l, "idle") /\ ~session[l].in
    /\ session' = [session EXCEPT ![l].joining = TRUE, ![l].held = <<>>, ![l].pc = "join"]
    /\ got' = [got EXCEPT ![l] = <<>>] /\ lost' = [lost EXCEPT ![l] = {}]
    /\ UNCHANGED <<catchUpVars, events, fan, since, dropped, kicked, leaked>>

\* IDs in ascending order: there is one such sequence.
InIdOrder(ids) ==
    {s \in [1..Cardinality(ids) -> ids] : \A m, n \in DOMAIN s : m < n => s[m] < s[n]}
BodiesOf(s) == [n \in DOMAIN s |-> message[s[n]]]

\* What a join answers with: the replay, for an identity's first link.
Answers(id) == {BodiesOf(s) : s \in InIdOrder(IF Present(id) THEN {} ELSE Replay(id))}

\* hub.Join takes the join: replay and SeenUpTo for an identity's first link.
HubJoin(l) ==
    /\ Step(l, "join")
    /\ Join(OwnerOf[l])
    /\ \E replay \in Answers(OwnerOf[l]) :
           session' = [session EXCEPT ![l].pc = "replay", ![l].out = replay,
               ![l].seen = IF Present(OwnerOf[l]) THEN 0 ELSE LastMessageID]
    /\ since' = [since EXCEPT ![l] = posts]
    /\ UNCHANGED <<events, fan, got, lost, dropped, kicked, leaked>>

\* hub.Join refuses (a ban, an invite, a key, a limit): nothing is held on.
JoinRefused(l) ==
    /\ Step(l, "join")
    /\ session' = [session EXCEPT ![l].joining = FALSE, ![l].held = <<>>, ![l].pc = "idle"]
    /\ UNCHANGED <<catchUpVars, events, fan, got, lost, since, dropped, kicked, leaked>>

\* After JOINED the replay is queued, message by message.
SendReplay(l) ==
    /\ Step(l, "replay") /\ session[l].out # <<>>
    /\ Sends(l, Head(session[l].out))
    /\ session' = [session EXCEPT ![l].out = Tail(@)]
    /\ UNCHANGED <<catchUpVars, events, fan, since, dropped, kicked, leaked>>

\* finishJoin makes the link a member.
FinishJoin(l) ==
    /\ Step(l, "replay") /\ session[l].out = <<>>
    /\ session' = [session EXCEPT ![l].in = TRUE, ![l].joining = FALSE, ![l].pc = "flush"]
    /\ UNCHANGED <<catchUpVars, events, fan, got, lost, since, dropped, kicked, leaked>>

\* (mutant: finishJoin forgets what was held)
StillToSendNever(l, h) == FALSE

\* What finishJoin sends of the messages that were held: those after SeenUpTo.
StillToSend(l, h) == h[1] > session[l].seen

\* Held messages are sent after the mutex is given up, one by one.
Flush(l) ==
    /\ Step(l, "flush")
    /\ LET held == session[l].held
       IN  IF held = <<>>
           THEN /\ session' = [session EXCEPT ![l].pc = "idle", ![l].seen = 0]
                /\ SendsNone
           ELSE /\ session' = [session EXCEPT ![l].held = Tail(held)]
                /\ IF StillToSend(l, Head(held)) THEN Sends(l, Head(held)[2]) ELSE SendsNone
    /\ UNCHANGED <<catchUpVars, events, fan, since, dropped, kicked, leaked>>

\* PART, or a second HELLO: the session leaves the room, then tells the hub.
BeginLeave(l) ==
    /\ Step(l, "idle") /\ session[l].in
    /\ session' = [session EXCEPT ![l].in = FALSE, ![l].pc = "leave"]
    /\ UNCHANGED <<catchUpVars, events, fan, got, lost, since, dropped, kicked, leaked>>

\* The link closes: its session is forgotten, then the hub told of its rooms.
Close(l) ==
    /\ Step(l, "idle")
    /\ session' = [session EXCEPT ![l].open = FALSE, ![l].in = FALSE,
                                  ![l].pc = IF session[l].in THEN "leave" ELSE "idle"]
    /\ UNCHANGED <<catchUpVars, events, fan, got, lost, since, dropped, kicked, leaked>>

\* hub.Part or hub.Disconnect.
HubPart(l) ==
    /\ session[l].pc = "leave"
    /\ Part(OwnerOf[l])
    /\ session' = [session EXCEPT ![l].pc = "idle"]
    /\ UNCHANGED <<events, fan, got, lost, since, dropped, kicked, leaked>>

\* Its transaction fails, which is logged or told to the client and no more: the
\* session has left, and the hub counts the link until it restarts.
HubPartFails(l) ==
    /\ session[l].pc = "leave" /\ Present(OwnerOf[l])
    /\ leaked[OwnerOf[l]] < MaxLeaks
    /\ session' = [session EXCEPT ![l].pc = "idle"]
    /\ leaked' = [leaked EXCEPT ![OwnerOf[l]] = @ + 1]
    /\ UNCHANGED <<catchUpVars, events, fan, got, lost, since, dropped, kicked>>

-----------------------------------------------------------------------------
(* The fan-out goroutine. *)

Concerns(e, l) == session[l].open /\ (e.kind = "removed" => OwnerOf[l] = e.who)

TakeEvent ==
    /\ fan.todo = {} /\ fan.to = NoLink /\ events # <<>>
    /\ LET e == Head(events)
       IN  fan' = [kind |-> e.kind, id |-> e.id, body |-> e.body, who |-> e.who,
                   todo |-> {l \in Links : Concerns(e, l)}, to |-> NoLink]
    /\ events' = Tail(events)
    /\ UNCHANGED <<catchUpVars, session, got, lost, since, dropped, kicked, leaked>>

\* (mutant: a message for a joining link is not held)
HoldsNever(l) == FALSE

Holds(l) == session[l].joining

\* (mutant: a message that is held is sent as well)
OfferHeldToo(l) ==
    /\ fan.kind = "message" /\ fan.to = NoLink /\ l \in fan.todo
    /\ fan' = [fan EXCEPT !.todo = @ \ {l}, !.to = IF Holds(l) \/ session[l].in THEN l ELSE NoLink]
    /\ IF Holds(l) /\ Len(session[l].held) < MaxHeld
       THEN session' = [session EXCEPT ![l].held = Append(@, <<fan.id, fan.body>>)]
       ELSE UNCHANGED session
    /\ lost' = IF Holds(l) /\ Len(session[l].held) >= MaxHeld
               THEN [lost EXCEPT ![l] = @ \cup {fan.body}] ELSE lost
    /\ UNCHANGED <<catchUpVars, events, got, since, dropped, kicked, leaked>>

\* offerMessage, under the session's mutex: hold it, send it or leave it.
Offer(l) ==
    /\ fan.kind = "message" /\ fan.to = NoLink /\ l \in fan.todo
    /\ fan' = [fan EXCEPT !.todo = @ \ {l},
                          !.to = IF ~Holds(l) /\ session[l].in THEN l ELSE NoLink]
    /\ IF Holds(l) /\ Len(session[l].held) < MaxHeld
       THEN session' = [session EXCEPT ![l].held = Append(@, <<fan.id, fan.body>>)]
       ELSE UNCHANGED session
    /\ lost' = IF Holds(l) /\ Len(session[l].held) >= MaxHeld
               THEN [lost EXCEPT ![l] = @ \cup {fan.body}] ELSE lost
    /\ UNCHANGED <<catchUpVars, events, got, since, dropped, kicked, leaked>>

\* The frames are queued after the mutex is given up; a closed link takes none.
FanSend ==
    /\ fan.to # NoLink
    /\ IF session[fan.to].open THEN Sends(fan.to, fan.body) ELSE SendsNone
    /\ fan' = [fan EXCEPT !.to = NoLink]
    /\ UNCHANGED <<catchUpVars, events, session, since, dropped, kicked, leaked>>

\* RemovedEvent: the session is no longer in the room.
DropFromRoom(l) ==
    /\ fan.kind = "removed" /\ l \in fan.todo
    /\ fan' = [fan EXCEPT !.todo = @ \ {l}]
    /\ session' = [session EXCEPT ![l].in = FALSE]
    /\ UNCHANGED <<catchUpVars, events, got, lost, since, dropped, kicked, leaked>>

-----------------------------------------------------------------------------
HubSide == SayHere \/ Elsewhere \/ (\E id \in Identities : KickFrom(id)) \/ StopAndStart

\* Handlers once begun; what clients start, and when, is up to them.
Worker(l) ==
    \/ HubJoin(l) \/ JoinRefused(l) \/ SendReplay(l) \/ FinishJoin(l) \/ Flush(l)
    \/ HubPart(l) \/ HubPartFails(l)
Client(l) == Establish(l) \/ BeginJoin(l) \/ BeginLeave(l) \/ Close(l)
FanOut == TakeEvent \/ FanSend \/ \E l \in Links : Offer(l) \/ DropFromRoom(l)

RoomNext == HubSide \/ FanOut \/ \E l \in Links : Worker(l) \/ Client(l)

RoomSpec == RoomInit /\ [][RoomNext]_roomVars

\* The goroutines run and the hub answers.
FairRoomSpec == RoomSpec /\ WF_roomVars(FanOut) /\ \A l \in Links : WF_roomVars(Worker(l))

-----------------------------------------------------------------------------
(* Properties. *)

\* Whether a message is still on its way to a link.
Coming(l, b) ==
    \/ \E n \in 1..Len(events) : events[n].body = b
    \/ fan.body = b /\ (l \in fan.todo \/ fan.to = l)
    \/ /\ session[l].pc \in {"replay", "flush"}
       /\ \E h \in Range(session[l].held) : h[2] = b /\ h[1] > session[l].seen

Joined(l) == session[l].pc = "replay" \/ session[l].in

\* JOIN's "nothing is lost": every message posted after the hub took a link's
\* join has been handed to it or is on its way to it, while it is in the room (held
\* by the session, in the hub's queue or with the fan-out), but for the messages
\* that a limit cost: those the link's queue or its held messages had no room for,
\* and those whose event the hub's queue had no room for.
NothingLost ==
    ~Reused => \A l \in Links : Joined(l) =>
        \A b \in here : b > since[l] =>
            b \in Range(got[l]) \/ Coming(l, b) \/ b \in lost[l] \/ b \in dropped

\* "RRC links of this identity joined to the room": the hub's count is the number
\* of sessions in the room, or on their way in or out of it, and of those whose
\* leaving the hub failed to record.
PresenceCountsLinks ==
    ~kicked => \A id \in Identities :
        links[id] = leaked[id] + Cardinality({l \in Links : OwnerOf[l] = id /\
                        (session[l].in \/ session[l].pc \in {"replay", "leave"})})

\* A message said while a link is in the room is handed to it in the end, unless
\* the link leaves or a limit was hit for this message.
Delivered ==
    \A l \in Links, b \in Bodies :
        (session[l].in /\ b \in here /\ b > since[l]) ~>
            (b \in Range(got[l]) \/ ~session[l].in \/ b \in lost[l] \/ b \in dropped \/ Reused)

\* JOIN's "nothing is sent twice", as far as it holds: what was said after the
\* hub took the join is handed to the link once, though finishJoin sends what was
\* held while the fan-out already sends directly.  What was said before it may
\* come twice, from the replay and from an event the fan-out had yet to handle.
NewSentOnce ==
    \A l \in Links : \A m, n \in DOMAIN got[l] :
        m < n /\ got[l][m] = got[l][n] =>
            got[l][m] <= since[l] /\ \A k \in DOMAIN got[l] \ {m, n} : got[l][k] # got[l][n]

-----------------------------------------------------------------------------
(* What comments and documents say, and an interleaving refutes. *)

\* Nothing is on its way between the hub and the sessions.
Quiet == events = <<>> /\ fan.todo = {} /\ fan.to = NoLink /\ \A l \in Links : session[l].pc = "idle"

\* events.go: on a RemovedEvent "RRC adapters drop the identity's links from
\* the room": whom the hub has put out of the room is in it no more.
RemovedAreOut ==
    Quiet => \A l \in Links : session[l].in => Present(OwnerOf[l])
=============================================================================
