-------------------------------- MODULE Inbox --------------------------------
(***************************************************************************)
(* What the LXMF group does with a message sent to it: the transport's     *)
(* callback, the bounded inbox, the set of messages seen, the hub requests *)
(* of handle, and the reply.  A client or a propagation node may hand over *)
(* the same message any number of times.                                   *)
(*                                                                         *)
(* All messages are one person's, sent from one app: one announce, one     *)
(* ban, one membership and one budget of posts.  A step ends wherever      *)
(* handle waits for the hub.  Time passes in ticks.                        *)
(***************************************************************************)
EXTENDS Naturals, Sequences, Functions

CONSTANTS
    Messages,
    Kind,        \* Kind[m]: "post", "join", "leave" or "blank"
    InboxMax,    \* capacity of inbox (512)
    SeenMax,     \* messages the seenSet remembers (4096)
    ReplyMax,    \* capacity of replies (512)
    PerMinute,   \* PostsPerMinute
    Minute,      \* ticks in a minute
    MaxFaults,   \* bound on restarts and failing hub requests
    None

ASSUME InboxConstants ==
    /\ Kind \in [Messages -> {"post", "join", "leave", "blank"}]
    /\ {InboxMax, SeenMax, ReplyMax, PerMinute, Minute} \subseteq Nat \ {0}
    /\ MaxFaults \in Nat
    /\ None \notin Messages \cup [tokens : Nat, age : Nat]

VARIABLES
    announced,   \* whether the transport has the sender's announce
    member,      \* whether they are in the group
    banned,      \* whether they are banned from the hub
    inbox,       \* messages for the receiver
    seen,        \* the seenSet, oldest first
    msg,         \* the message the receiver is handling, or None
    asking,      \* the hub request it waits for
    replies,     \* number of replies queued
    rows,        \* rows[m]: messages stored with m as their origin
    bucket,      \* the identity's token bucket, or None; a token is Minute
    faults,
    \* History, of this run of the program.
    answered,    \* messages said, replied to, or ignored on purpose
    untold,      \* messages handled whose sender should have been told and was not
    ran,         \* commands run since the seenSet last forgot them
    again,       \* commands run twice without being forgotten
    deleted,     \* messages whose row was deleted while the seenSet knew them
    took         \* took[k]: posts allowed since k ticks ago

group == <<inbox, seen, msg, asking>>
hub == <<member, banned, rows, bucket, took>>
history == <<answered, untold, ran, again, deleted>>
inboxVars == <<announced, group, hub, replies, faults, history>>

InboxInit ==
    /\ announced = FALSE /\ member = FALSE /\ banned = FALSE
    /\ inbox = <<>> /\ seen = <<>>
    /\ msg = None /\ asking = "receive"
    /\ replies = 0
    /\ rows = [m \in Messages |-> 0]
    /\ bucket = None
    /\ faults = 0
    /\ answered = {} /\ untold = {} /\ ran = {} /\ again = {} /\ deleted = {}
    /\ took = [k \in 0 .. Minute |-> 0]
----------------------------------------------------------------------------
(* The budget of posts *)

Full == PerMinute * Minute

AtMost(limit, n) == IF n > limit THEN limit ELSE n

Tokens == IF bucket = None THEN Full
          ELSE AtMost(Full, bucket.tokens + bucket.age * PerMinute)

Allowed == Tokens >= Minute

\* Mutant: the time already paid for is paid for again.
AllowPostUndated ==
    /\ bucket' = [tokens |-> IF Allowed THEN Tokens - Minute ELSE Tokens,
                  age |-> IF bucket = None THEN 0 ELSE bucket.age]
    /\ took' = IF Allowed THEN [k \in 0 .. Minute |-> took[k] + 1] ELSE took

\* allowPost.  What it takes is not given back when the transaction fails.
AllowPost ==
    /\ bucket' = [tokens |-> IF Allowed THEN Tokens - Minute ELSE Tokens, age |-> 0]
    /\ took' = IF Allowed THEN [k \in 0 .. Minute |-> took[k] + 1] ELSE took

TimePasses ==
    /\ bucket' = IF bucket = None THEN None
                 ELSE [bucket EXCEPT !.age = AtMost(Minute + 1, @ + 1)]
    /\ took' = [k \in 0 .. Minute |-> IF k = 0 THEN 0 ELSE took[k - 1]]
    /\ UNCHANGED <<announced, group, member, banned, rows, replies, faults, history>>

\* maintain's share: a bucket that must be full by now is forgotten.
ForgetBucket ==
    /\ bucket # None /\ bucket.age > Minute
    /\ bucket' = None
    /\ UNCHANGED <<announced, group, member, banned, rows, took, replies, faults, history>>

\* A post over RRC or from the page, on the same budget.
PostElsewhere ==
    /\ ~banned
    /\ AllowPost
    /\ UNCHANGED <<announced, group, member, banned, rows, replies, faults, history>>
----------------------------------------------------------------------------
(* Receiving *)

\* OnMessage.  A full inbox drops the message.
OnMessage(m) ==
    /\ Len(inbox) < InboxMax
    /\ inbox' = Append(inbox, m)
    /\ UNCHANGED <<announced, seen, msg, asking, hub, replies, faults, history>>

\* seenSet.add, of a message not in it
SeenAdd(m) ==
    LET order == Append(seen, m)
        forgotten == IF Len(order) > SeenMax THEN {Head(order)} ELSE {}
    IN  /\ seen' = IF Len(order) > SeenMax THEN Tail(order) ELSE order
        /\ ran' = ran \ forgotten
        /\ answered' = answered \ (forgotten \cup {m})
        /\ untold' = untold \ (forgotten \cup {m})
        /\ deleted' = deleted \ forgotten

TakeMessage ==
    /\ msg = None /\ inbox # <<>>
    /\ inbox' = Tail(inbox)
    /\ UNCHANGED <<announced, hub, replies, faults, again>>

\* Mutant: a message is counted as seen before it is known who sent it.
HandleSeenFirst ==
    /\ TakeMessage
    /\ IF Head(inbox) \in Range(seen)
       THEN UNCHANGED <<seen, msg, asking, answered, untold, ran, deleted>>
       ELSE /\ SeenAdd(Head(inbox))
            /\ msg' = IF announced THEN Head(inbox) ELSE None
            /\ asking' = IF announced THEN "identify" ELSE asking

\* Mutant: what add returns is not looked at.
HandleAlways ==
    /\ TakeMessage
    /\ IF ~announced
       THEN UNCHANGED <<seen, msg, asking, answered, untold, ran, deleted>>
       ELSE /\ SeenAdd(Head(inbox))
            /\ msg' = Head(inbox)
            /\ asking' = "identify"

\* handle, up to its first hub request.
Handle ==
    /\ TakeMessage
    /\ IF ~announced \/ Head(inbox) \in Range(seen)
       THEN UNCHANGED <<seen, msg, asking, answered, untold, ran, deleted>>
       ELSE /\ SeenAdd(Head(inbox))
            /\ msg' = Head(inbox)
            /\ asking' = "identify"

\* reply, which never waits.
Reply == replies' = IF replies < ReplyMax THEN replies + 1 ELSE replies

Replied == replies < ReplyMax

\* handle returns, with the message dealt with or its sender left untold.
Done(dealt) ==
    /\ msg' = None /\ asking' = "receive"
    /\ answered' = answered \cup {m \in {msg} : dealt}
    /\ untold' = untold \cup {m \in {msg} : ~dealt}
    /\ UNCHANGED <<announced, inbox, seen, deleted>>

\* A banned sender and an empty message get no reply, on purpose.
Identify ==
    /\ asking = "identify"
    /\ IF banned \/ Kind[msg] = "blank"
       THEN Done(TRUE)
       ELSE /\ asking' = IF Kind[msg] = "post" THEN "post" ELSE "command"
            /\ UNCHANGED <<announced, inbox, seen, msg, answered, untold, deleted>>
    /\ UNCHANGED <<hub, replies, faults, ran, again>>

\* AddMessage: one row for each origin.
AddMessage(m) == rows' = IF rows[m] = 0 THEN [rows EXCEPT ![m] = 1] ELSE rows

\* Refused for what was said or where, with the budget untouched; refused by the
\* budget; or taken, which is also the answer for one that is stored already.
PostRefused == Reply /\ Done(Replied) /\ UNCHANGED <<rows, bucket, took>>

PostAllowed ==
    /\ ~banned /\ member
    /\ AllowPost
    /\ IF Allowed THEN AddMessage(msg) /\ Done(TRUE) /\ UNCHANGED replies
                  ELSE Reply /\ Done(Replied) /\ UNCHANGED rows

\* Mutant: a refusal waits for room in the reply queue.
PostWaiting ==
    /\ asking = "post"
    /\ (replies < ReplyMax /\ PostRefused) \/ PostAllowed
    /\ UNCHANGED <<member, banned, faults, ran, again>>

Post ==
    /\ asking = "post"
    /\ PostRefused \/ PostAllowed
    /\ UNCHANGED <<member, banned, faults, ran, again>>

\* /join or /leave, which may be refused for reasons of its own.
Command ==
    /\ asking = "command"
    /\ IF banned
       THEN UNCHANGED <<member, ran, again>>
       ELSE /\ member' \in {member, Kind[msg] = "join"}
            /\ ran' = ran \cup {msg}
            /\ again' = again \cup (ran \cap {msg})
    /\ Reply
    /\ Done(Replied)
    /\ UNCHANGED <<banned, rows, bucket, took, faults>>

\* The hub fails: the sender of a post or a command is told, and one whose
\* Identify or PersonOf failed is not, nor are the copies to come handled.
Fails ==
    /\ msg # None /\ faults < MaxFaults
    /\ faults' = faults + 1
    /\ (asking = "post" /\ AllowPost) \/ UNCHANGED <<bucket, took>>
    /\ \/ asking \in {"identify", "command"} /\ Done(FALSE) /\ UNCHANGED replies
       \/ asking \in {"post", "command"} /\ Done(Replied) /\ Reply
    /\ UNCHANGED <<member, banned, rows, ran, again>>

Receiver == Handle \/ Identify \/ Post \/ Command \/ Fails
----------------------------------------------------------------------------
(* Around the receiver *)

\* The announce that RequestPath asked for, or any other.
Announce ==
    /\ ~announced
    /\ announced' = TRUE
    /\ UNCHANGED <<group, hub, replies, faults, history>>

\* A hub ban puts them out of the group.
Ban ==
    /\ ~banned
    /\ banned' = TRUE /\ member' = FALSE
    /\ UNCHANGED <<announced, group, rows, bucket, took, replies, faults, history>>

Unban ==
    /\ banned
    /\ banned' = FALSE
    /\ UNCHANGED <<announced, group, member, rows, bucket, took, replies, faults, history>>

\* A stored message is deleted or pruned.
DeleteMessage(m) ==
    /\ rows[m] > 0
    /\ rows' = [rows EXCEPT ![m] = @ - 1]
    /\ deleted' = deleted \cup ({m} \cap (Range(seen) \ {msg}))
    /\ UNCHANGED <<announced, group, member, banned, bucket, took, replies, faults,
                   answered, untold, ran, again>>

\* The scheduler hands a reply to a goroutine of its own (sendReply).
SendReply ==
    /\ replies > 0
    /\ replies' = replies - 1
    /\ UNCHANGED <<announced, group, hub, faults, history>>

\* Notes and notices (watchEvents) share the queue.
Notice ==
    /\ replies < ReplyMax
    /\ replies' = replies + 1
    /\ UNCHANGED <<announced, group, hub, faults, history>>

\* What is in memory is lost.
Restart ==
    /\ faults < MaxFaults
    /\ faults' = faults + 1
    /\ inbox' = <<>> /\ seen' = <<>> /\ msg' = None /\ asking' = "receive"
    /\ replies' = 0
    /\ bucket' = None
    /\ took' = [k \in 0 .. Minute |-> 0]
    /\ answered' = {} /\ untold' = {} /\ ran' = {} /\ deleted' = {}
    /\ UNCHANGED <<announced, member, banned, rows, again>>

InboxNext ==
    \/ \E m \in Messages : OnMessage(m) \/ DeleteMessage(m)
    \/ Receiver
    \/ TimePasses \/ ForgetBucket \/ PostElsewhere
    \/ Announce \/ Ban \/ Unban
    \/ SendReply \/ Notice \/ Restart

InboxSpec == InboxInit /\ [][InboxNext]_inboxVars

\* The receiver's goroutine runs.  Nothing is assumed of the senders of replies.
FairInboxSpec == InboxSpec /\ WF_inboxVars(Handle \/ Identify \/ Post \/ Command)
----------------------------------------------------------------------------
(* Properties *)

\* A message that was deleted is not put back by a copy of it: AddMessage, which
\* looks for a row, would store it again, and the seenSet keeps the copy from the
\* hub until it has forgotten the message (handle, AddMessage).
DeletedStaysDeleted == \A m \in deleted : rows[m] = 0

\* A command runs once, however often it is handed over, until the seenSet has
\* forgotten it: after SeenMax other messages, or a restart (handle, seenSet).
CommandsRunOnce == again = {}

\* A message counted as seen, whose copies are now discarded, is being handled, was
\* said, got a reply or is ignored on purpose; or it is one whose reply found the
\* queue full, or one for which Identify or PersonOf failed, which is then discarded
\* although nobody was told (handle: "one we could not read must still be handled
\* when the client sends it again").
SeenIsAnswered == Range(seen) \subseteq answered \cup untold \cup {msg}

\* Posts are allowed at no more than PerMinute, over and above a first burst of
\* PerMinute, in any stretch of time up to a minute, wherever they come from,
\* whether or not they are stored, and when the bucket is forgotten (allowPost).
RateKept == \A k \in 0 .. Minute : Minute * took[k] <= Full + k * PerMinute

\* The receiver always comes back for the next message, whatever the hub answers
\* and even if no reply is ever sent (receive, reply).
ReceiverReturns == []<>(msg = None)
=============================================================================
