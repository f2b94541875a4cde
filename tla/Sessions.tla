------------------------------ MODULE Sessions ------------------------------
(***************************************************************************)
(* The RRC server's links: transport callbacks queued for the link's       *)
(* worker, the session a worker keeps, the writer behind its send queue,   *)
(* the five-second keepalive, and the fan-out of hub events.  All the      *)
(* links are one person's.  Of the frames only HELLO is told apart, and of *)
(* the events whispers and a ban; rooms and their messages are in RrcRoom. *)
(*                                                                         *)
(* A worker, a writer, the keepalive and the fan-out are goroutines of     *)
(* their own, and a step ends wherever one of them releases a lock or      *)
(* waits for the hub.                                                      *)
(***************************************************************************)
EXTENDS Naturals, Sequences, FiniteSets

CONSTANTS
    Links,
    Whispers,
    JobQueue,    \* room a worker's queue has for one link's jobs
    SendQueue,   \* frames a session holds for its writer
    EventQueue,  \* the hub's queue for this server
    MaxPending,  \* frames kept for a link that has not identified
    MaxFrames,   \* bound on the frames a client sends on one link
    MaxFailed,   \* bound on a link's failures to mark a whisper
    None

ASSUME SessionsConstants ==
    /\ {JobQueue, SendQueue, EventQueue} \subseteq Nat \ {0}
    /\ {MaxPending, MaxFrames, MaxFailed} \subseteq Nat
    /\ {None, "welcome", "ping", "ban"} \cap Whispers = {}

VARIABLES
    link,        \* link[l]: "new", "up" or "down", in the transport
    client,      \* client[l]: whether it has identified, and the frames it sent
    jobs,        \* jobs[l]: l's callbacks in its worker's queue
    late,        \* late[l]: callbacks in goroutines waiting for the queue
    worker,      \* worker[l]: what l's worker is doing
    sess,        \* sess[l]: the session, or None
    keepalive,   \* keepalive[l]: what it is about to do to l's session, or "no"
    whisper,     \* whisper[w]: "unsaid", "unsent" or "sent" (rrc_at)
    banned,      \* whether the person is banned from the hub
    events,      \* events queued for the fan-out
    fanout,      \* the whisper the fan-out has still to mark, or None
    dropped,     \* events the full queue dropped
    got,         \* got[l][w]: copies of w the client got on l
    unread,      \* unread[l]: whispers l's last read of the backlog failed to return
    unmarked,    \* whispers some mark of which failed
    failed       \* failed[l][w]: times l's worker sent w and failed to mark it

queues == <<jobs, late>>
server == <<worker, sess, keepalive>>
chat == <<whisper, banned>>
feed == <<events, fanout, dropped>>
history == <<got, unread, unmarked, failed>>
vars == <<link, client, queues, server, chat, feed, history>>

Lifecycle == {"established", "identified", "closed"}

\* replay: frames kept while the link had not identified, still to handle.
\* missed: whispers of the backlog still to send.  marking: the one just sent.
Idle == [pc |-> "idle", replay |-> 0, missed |-> {}, marking |-> None]

\* newSession.  due: the time the keepalive waits for is over: HelloTimeout since the
\* link's start, once welcomed PingInterval since the last frame, or PingTimeout
\* since the PING.
NewSession ==
    [identified |-> FALSE, welcomed |-> FALSE, pending |-> 0,
     state |-> "open", out |-> <<>>, pinged |-> FALSE, due |-> FALSE]

Session ==
    [identified : BOOLEAN, welcomed : BOOLEAN, pending : Nat,
     state : {"open", "closing", "flushed", "stopped"}, out : Seq(Whispers \cup {"welcome", "ping"}),
     pinged : BOOLEAN, due : BOOLEAN]

ASSUME NoneIsNoSession == None \notin Session

Init ==
    /\ link = [l \in Links |-> "new"]
    /\ client = [l \in Links |-> [identified |-> FALSE, frames |-> 0]]
    /\ jobs = [l \in Links |-> <<>>]
    /\ late = [l \in Links |-> {}]
    /\ worker = [l \in Links |-> Idle]
    /\ sess = [l \in Links |-> None]
    /\ keepalive = [l \in Links |-> "no"]
    /\ whisper = [w \in Whispers |-> "unsaid"]
    /\ banned = FALSE
    /\ events = <<>> /\ fanout = None /\ dropped = {}
    /\ got = [l \in Links |-> [w \in Whispers |-> 0]]
    /\ unread = [l \in Links |-> {}] /\ unmarked = {}
    /\ failed = [l \in Links |-> [w \in Whispers |-> 0]]
----------------------------------------------------------------------------
(* Transport callbacks *)

\* Mutant: under load a close is dropped as data is.
EnqueueDropping(l, kind) ==
    \/ /\ Len(jobs[l]) < JobQueue
       /\ jobs' = [jobs EXCEPT ![l] = Append(@, kind)]
       /\ UNCHANGED late
    \/ /\ UNCHANGED queues

\* Server.enqueue.  The queue may be full of other links' jobs.  Data is dropped
\* then, and a lifecycle callback waits in a goroutine of its own.
Enqueue(l, kind) ==
    \/ /\ Len(jobs[l]) < JobQueue
       /\ jobs' = [jobs EXCEPT ![l] = Append(@, kind)]
       /\ UNCHANGED late
    \/ /\ kind \in Lifecycle
       /\ late' = [late EXCEPT ![l] = @ \cup {kind}]
       /\ UNCHANGED jobs
    \/ /\ kind \notin Lifecycle
       /\ UNCHANGED queues

LateArrives(l, kind) ==
    /\ kind \in late[l]
    /\ Len(jobs[l]) < JobQueue
    /\ jobs' = [jobs EXCEPT ![l] = Append(@, kind)]
    /\ late' = [late EXCEPT ![l] = @ \ {kind}]
    /\ UNCHANGED <<link, client, server, chat, feed, history>>

LinkOpens(l) ==
    /\ link[l] = "new"
    /\ link' = [link EXCEPT ![l] = "up"]
    /\ Enqueue(l, "established")
    /\ UNCHANGED <<client, server, chat, feed, history>>

LinkIdentifies(l) ==
    /\ link[l] = "up" /\ ~client[l].identified
    /\ client' = [client EXCEPT ![l].identified = TRUE]
    /\ Enqueue(l, "identified")
    /\ UNCHANGED <<link, server, chat, feed, history>>

LinkSends(l) ==
    /\ link[l] = "up" /\ client[l].frames < MaxFrames
    /\ client' = [client EXCEPT ![l].frames = @ + 1]
    /\ Enqueue(l, "data")
    /\ UNCHANGED <<link, server, chat, feed, history>>

\* TeardownLink.  A link that is up reports its end like any other.
Teardown(l) ==
    IF link[l] = "up"
    THEN link' = [link EXCEPT ![l] = "down"] /\ Enqueue(l, "closed")
    ELSE UNCHANGED <<link, queues>>

LinkCloses(l) ==
    /\ link[l] = "up"
    /\ Teardown(l)
    /\ UNCHANGED <<client, server, chat, feed, history>>
----------------------------------------------------------------------------
(* The session's send queue *)

\* session.enqueue
Accepts(s) == s.state = "open" /\ Len(s.out) < SendQueue
Offer(s, frame) == IF Accepts(s) THEN [s EXCEPT !.out = Append(@, frame)] ELSE s

CloseAfterFlush(s) == IF s.state = "open" THEN [s EXCEPT !.state = "closing"] ELSE s

\* A frame taken by the writer reaches a link that is still up.
WriterSends(l) ==
    /\ sess[l] # None /\ sess[l].out # <<>>
    /\ sess' = [sess EXCEPT ![l].out = Tail(@)]
    /\ LET frame == Head(sess[l].out) IN
       got' = IF frame \in Whispers /\ link[l] = "up" THEN [got EXCEPT ![l][frame] = @ + 1] ELSE got
    /\ UNCHANGED <<link, client, queues, worker, keepalive, chat, feed, unread, unmarked, failed>>

\* A stopped session's writer returns without flushing.
WriterStops(l) ==
    /\ sess[l] # None /\ sess[l].state = "stopped" /\ sess[l].out # <<>>
    /\ sess' = [sess EXCEPT ![l].out = <<>>]
    /\ UNCHANGED <<link, client, queues, worker, keepalive, chat, feed, history>>

WriterFlushed(l) ==
    /\ sess[l] # None /\ sess[l].state = "closing" /\ sess[l].out = <<>>
    /\ sess' = [sess EXCEPT ![l].state = "flushed"]
    /\ Teardown(l)
    /\ UNCHANGED <<client, worker, keepalive, chat, feed, history>>

Writer(l) == WriterSends(l) \/ WriterStops(l) \/ WriterFlushed(l)
----------------------------------------------------------------------------
(* The worker *)

\* sessionFor
SessionFor(l) == IF sess[l] = None THEN NewSession ELSE sess[l]

Free(l) == worker[l].pc = "idle" /\ worker[l].replay = 0

TakeJob(l, kind) ==
    /\ Free(l)
    /\ jobs[l] # <<>> /\ Head(jobs[l]) = kind
    /\ jobs' = [jobs EXCEPT ![l] = Tail(@)]
    /\ UNCHANGED <<link, client, late, chat, feed, history>>

Established(l) ==
    /\ TakeJob(l, "established")
    /\ sess' = [sess EXCEPT ![l] = SessionFor(l)]
    /\ UNCHANGED <<worker, keepalive>>

\* Mutant: the session is not listed under its identity.
IdentifiedUnlisted(l) ==
    /\ TakeJob(l, "identified")
    /\ worker' = [worker EXCEPT ![l].pc = "check", ![l].replay = SessionFor(l).pending]
    /\ sess' = [sess EXCEPT ![l] = [SessionFor(l) EXCEPT !.pending = 0]]
    /\ UNCHANGED keepalive

\* From here sessionsOf finds the session, before the hub has been asked.
Identified(l) ==
    /\ TakeJob(l, "identified")
    /\ IF SessionFor(l).identified
       THEN UNCHANGED <<worker, sess>>
       ELSE /\ worker' = [worker EXCEPT ![l].pc = "check", ![l].replay = SessionFor(l).pending]
            /\ sess' = [sess EXCEPT ![l] = [SessionFor(l) EXCEPT !.identified = TRUE, !.pending = 0]]
    /\ UNCHANGED keepalive

\* hub.Identify, which refuses the banned and may fail: refuseLink, or the frames
\* that came too early.
CheckIdentity(l) ==
    /\ worker[l].pc = "check"
    /\ \/ /\ sess' = [sess EXCEPT ![l] = CloseAfterFlush(@)]
          /\ worker' = [worker EXCEPT ![l] = Idle]
       \/ /\ ~banned
          /\ worker' = [worker EXCEPT ![l].pc = "idle"]
          /\ UNCHANGED sess
    /\ UNCHANGED <<link, client, queues, keepalive, chat, feed, history>>

Closed(l) ==
    /\ TakeJob(l, "closed")
    /\ sess' = [sess EXCEPT ![l] = None]
    /\ keepalive' = [keepalive EXCEPT ![l] = "no"]
    /\ UNCHANGED worker

\* data, once the link has identified: a HELLO starts the session afresh; any other
\* frame, and one over the rate limit or undecodable, only shows the link is alive.
Handle(l, w) ==
    LET heard == [sess[l] EXCEPT !.due = @ /\ ~sess[l].welcomed, !.pinged = FALSE]
    IN  \/ /\ sess' = [sess EXCEPT ![l] = heard]
           /\ worker' = [worker EXCEPT ![l] = w]
        \/ /\ sess' = [sess EXCEPT ![l] = [heard EXCEPT !.welcomed = FALSE]]
           /\ worker' = [worker EXCEPT ![l] = [w EXCEPT !.pc = "identify"]]

Data(l) ==
    /\ TakeJob(l, "data")
    /\ IF SessionFor(l).identified
       THEN Handle(l, worker[l])
       ELSE /\ sess' = [sess EXCEPT ![l] = [SessionFor(l) EXCEPT
                            !.pending = IF @ < MaxPending THEN @ + 1 ELSE @]]
            /\ UNCHANGED worker
    /\ UNCHANGED keepalive

ReplayPending(l) ==
    /\ worker[l].pc = "idle" /\ worker[l].replay > 0
    /\ Handle(l, [worker[l] EXCEPT !.replay = @ - 1])
    /\ UNCHANGED <<link, client, queues, keepalive, chat, feed, history>>

\* hello, from the hub's answer to Identify on.
HelloIdentify(l) ==
    /\ worker[l].pc = "identify"
    /\ \/ /\ sess' = [sess EXCEPT ![l] = CloseAfterFlush(@)]
          /\ worker' = [worker EXCEPT ![l].pc = "idle"]
       \/ /\ ~banned
          /\ worker' = [worker EXCEPT ![l].pc = "welcome"]
          /\ UNCHANGED sess
    /\ UNCHANGED <<link, client, queues, keepalive, chat, feed, history>>

HelloWelcome(l) ==
    /\ worker[l].pc = "welcome"
    /\ IF Accepts(sess[l])
       THEN /\ sess' = [sess EXCEPT ![l] = [Offer(@, "welcome") EXCEPT !.welcomed = TRUE, !.due = FALSE]]
            /\ worker' = [worker EXCEPT ![l].pc = "missed"]
       ELSE /\ worker' = [worker EXCEPT ![l].pc = "idle"]
            /\ UNCHANGED sess
    /\ UNCHANGED <<link, client, queues, keepalive, chat, feed, history>>

\* sendMissedWhispers: read the backlog, then send and mark one after the other.
\* A read that fails ends it; a mark that fails is only logged.
Unsent == {w \in Whispers : whisper[w] = "unsent"}

AfterMissed(l, missed) ==
    [worker[l] EXCEPT !.pc = IF missed = {} THEN "idle" ELSE "send", !.missed = missed, !.marking = None]

ReadMissed(l) ==
    /\ worker[l].pc = "missed"
    /\ \E read \in {Unsent, {}} :
        /\ worker' = [worker EXCEPT ![l] = AfterMissed(l, read)]
        /\ unread' = [unread EXCEPT ![l] = Unsent \ read]
    /\ UNCHANGED <<link, client, queues, sess, keepalive, chat, feed, got, unmarked, failed>>

SendMissed(l, w) ==
    /\ worker[l].pc = "send" /\ w \in worker[l].missed
    /\ sess' = [sess EXCEPT ![l] = Offer(@, w)]
    /\ worker' = [worker EXCEPT ![l].pc = "mark", ![l].marking = w]
    /\ UNCHANGED <<link, client, queues, keepalive, chat, feed, history>>

\* Mutant: the backlog is sent and not marked.
MarkMissedNot(l) ==
    /\ worker[l].pc = "mark"
    /\ worker' = [worker EXCEPT ![l] = AfterMissed(l, @.missed \ {@.marking})]
    /\ UNCHANGED <<link, client, queues, sess, keepalive, chat, feed, history>>

\* WhisperSentRRC, whether or not the send queue took the frame.
MarkMissed(l) ==
    /\ worker[l].pc = "mark"
    /\ worker' = [worker EXCEPT ![l] = AfterMissed(l, @.missed \ {@.marking})]
    /\ \/ /\ whisper' = [whisper EXCEPT ![worker[l].marking] = "sent"]
          /\ UNCHANGED <<unmarked, failed>>
       \/ /\ failed[l][worker[l].marking] < MaxFailed
          /\ failed' = [failed EXCEPT ![l][worker[l].marking] = @ + 1]
          /\ unmarked' = unmarked \cup {worker[l].marking}
          /\ UNCHANGED whisper
    /\ UNCHANGED <<link, client, queues, sess, keepalive, banned, feed, got, unread>>

Hello(l) ==
    \/ HelloIdentify(l) \/ HelloWelcome(l) \/ ReadMissed(l) \/ MarkMissed(l)
    \/ \E w \in Whispers : SendMissed(l, w)

Work(l) ==
    \/ Established(l) \/ Identified(l) \/ CheckIdentity(l) \/ Data(l) \/ ReplayPending(l)
    \/ Closed(l) \/ Hello(l)
----------------------------------------------------------------------------
(* The keepalive.  It looks at a session under the lock and acts after it. *)

Time(l) ==
    /\ sess[l] # None
    /\ sess' = [sess EXCEPT ![l].due = TRUE]
    /\ UNCHANGED <<link, client, queues, worker, keepalive, chat, feed, history>>

\* Mutant: a PING that gets no answer is only followed by another.
OverduePinging(s) == s.due /\ ~s.welcomed

Overdue(s) == s.due /\ (s.welcomed => s.pinged)

\* The step under the lock; the session is closed, or pinged and marked as pinged,
\* without it.
KeepaliveLooks(l) ==
    /\ keepalive[l] = "no" /\ sess[l] # None /\ sess[l].state # "stopped"
    /\ \/ /\ Overdue(sess[l])
          /\ keepalive' = [keepalive EXCEPT ![l] = "close"]
       \/ /\ sess[l].due /\ sess[l].welcomed /\ ~sess[l].pinged
          /\ keepalive' = [keepalive EXCEPT ![l] = "ping"]
    /\ UNCHANGED <<link, client, queues, worker, sess, chat, feed, history>>

KeepaliveCloses(l) ==
    /\ keepalive[l] = "close"
    /\ keepalive' = [keepalive EXCEPT ![l] = "no"]
    /\ sess' = [sess EXCEPT ![l].state = "stopped"]
    /\ Teardown(l)
    /\ UNCHANGED <<client, worker, chat, feed, history>>

KeepalivePings(l) ==
    /\ keepalive[l] = "ping"
    /\ keepalive' = [keepalive EXCEPT ![l] = IF Accepts(sess[l]) THEN "mark" ELSE "no"]
    /\ sess' = [sess EXCEPT ![l] = Offer(@, "ping")]
    /\ UNCHANGED <<link, client, queues, worker, chat, feed, history>>

\* pingSent is set even when the answer came first.
KeepaliveMarks(l) ==
    /\ keepalive[l] = "mark"
    /\ keepalive' = [keepalive EXCEPT ![l] = "no"]
    /\ sess' = [sess EXCEPT ![l].pinged = TRUE, ![l].due = FALSE]
    /\ UNCHANGED <<link, client, queues, worker, chat, feed, history>>

Keepalive(l) == KeepaliveLooks(l) \/ KeepaliveCloses(l) \/ KeepalivePings(l) \/ KeepaliveMarks(l)
----------------------------------------------------------------------------
(* Hub events and the fan-out *)

Publish(e) ==
    IF Len(events) < EventQueue
    THEN events' = Append(events, e) /\ UNCHANGED dropped
    ELSE dropped' = dropped \cup {e} /\ UNCHANGED events

\* Banned people are not whispered to.
Say(w) ==
    /\ whisper[w] = "unsaid" /\ ~banned
    /\ whisper' = [whisper EXCEPT ![w] = "unsent"]
    /\ Publish(w)
    /\ UNCHANGED <<link, client, queues, server, banned, fanout, history>>

BanPerson ==
    /\ ~banned
    /\ banned' = TRUE
    /\ Publish("ban")
    /\ UNCHANGED <<link, client, queues, server, whisper, fanout, history>>

SessionsOf == {l \in Links : sess[l] # None /\ sess[l].identified}

TakeEvent ==
    /\ fanout = None /\ events # <<>>
    /\ events' = Tail(events)
    /\ UNCHANGED <<link, client, queues, worker, keepalive, chat, dropped, history>>

DeliverWhisper ==
    /\ TakeEvent
    /\ Head(events) \in Whispers
    /\ sess' = [l \in Links |-> IF l \in SessionsOf THEN Offer(sess[l], Head(events)) ELSE sess[l]]
    /\ fanout' = IF SessionsOf = {} THEN None ELSE Head(events)

\* Mutant: the person is told and the links stay.
DeliverBanTold ==
    /\ TakeEvent
    /\ Head(events) = "ban"
    /\ UNCHANGED <<sess, fanout>>

DeliverBan ==
    /\ TakeEvent
    /\ Head(events) = "ban"
    /\ sess' = [l \in Links |-> IF l \in SessionsOf THEN CloseAfterFlush(sess[l]) ELSE sess[l]]
    /\ UNCHANGED fanout

MarkWhisper ==
    /\ fanout # None
    /\ fanout' = None
    /\ \/ whisper' = [whisper EXCEPT ![fanout] = "sent"] /\ UNCHANGED unmarked
       \/ unmarked' = unmarked \cup {fanout} /\ UNCHANGED whisper
    /\ UNCHANGED <<link, client, queues, server, banned, events, dropped, got, unread, failed>>

FanOut == DeliverWhisper \/ DeliverBan \/ MarkWhisper
----------------------------------------------------------------------------
Next ==
    \/ \E l \in Links :
        \/ LinkOpens(l) \/ LinkIdentifies(l) \/ LinkSends(l) \/ LinkCloses(l)
        \/ \E kind \in Lifecycle : LateArrives(l, kind)
        \/ Work(l) \/ Writer(l) \/ Time(l) \/ Keepalive(l)
    \/ \E w \in Whispers : Say(w)
    \/ BanPerson \/ FanOut

Spec == Init /\ [][Next]_vars

\* Every goroutine gets to run, the ticker ticks and time passes.  Nothing is
\* assumed of the client.
FairSpec ==
    /\ Spec
    /\ \A l \in Links :
        /\ WF_vars(Work(l)) /\ WF_vars(Writer(l)) /\ WF_vars(Time(l)) /\ WF_vars(Keepalive(l))
        /\ \A kind \in Lifecycle : WF_vars(LateArrives(l, kind))
    /\ WF_vars(FanOut)
----------------------------------------------------------------------------
(* Properties *)

\* Once a link is down and its callbacks have been handled, no welcomed session
\* of it is left, so nobody stays in a room they are not in: a close that waited
\* in a goroutine of its own may overtake earlier callbacks, which then start a
\* session anew, but never data (enqueue, closed, sessionFor).
NoGhosts ==
    \A l \in Links :
        (link[l] = "down" /\ jobs[l] = <<>> /\ late[l] = {} /\ worker[l].pc = "idle")
            => sess[l] = None \/ ~sess[l].welcomed

\* No whisper falls between the backlog and the events: when a welcomed link's
\* worker has nothing left to do, every whisper said so far has been sent, is on
\* its way through the fan-out, or waits for the next HELLO because its event was
\* dropped, this link could not read it from the backlog, or it was sent and could
\* not be marked (sendMissedWhispers, deliver).
NoWhisperMissed ==
    \A l \in Links :
        (sess[l] # None /\ sess[l].welcomed /\ worker[l].pc = "idle")
            => Unsent \subseteq {events[k] : k \in DOMAIN events} \cup {fanout} \cup dropped
                                  \cup unread[l] \cup unmarked

\* A link gets at most two copies of a whisper, one from the event and one from the
\* backlog, however often it says HELLO, and one more for each copy of the backlog's
\* that its worker failed to mark; that the fan-out fails to mark one adds none.
AtMostTwoCopies == \A l \in Links, w \in Whispers : got[l][w] <= 2 + failed[l][w]

\* When the fan-out has handled a ban, no session of the person's stays open,
\* wherever their workers are in identifying them or in HELLO.
BannedIsClosed ==
    (banned /\ \A k \in DOMAIN events : events[k] # "ban") /\ "ban" \notin dropped
        => \A l \in SessionsOf : sess[l].state = "open" => worker[l].pc = "check"

\* Every link ends once its client falls silent: unidentified, refused, banned,
\* mid-HELLO or welcomed, with its queues full or empty (keepalive, writer, stop).
SilentLinksEnd == \A l \in Links : link[l] = "up" ~> link[l] = "down"
=============================================================================
