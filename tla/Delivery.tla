------------------------------ MODULE Delivery ------------------------------
(***************************************************************************)
(* The durable LXMF delivery queue: rows of the store's deliveries table,  *)
(* written by the hub loop (post, RecordDelivery, DeleteMessages,          *)
(* RemoveMember, maintain), and the lxmfgroup adapter that empties it: one *)
(* scheduler goroutine working through a snapshot of the due rows, and a   *)
(* pool of senders that each make one attempt and record what happened.    *)
(*                                                                         *)
(* Hub requests are atomic (one goroutine, one transaction each).  The     *)
(* scheduler and the senders interleave with them and with each other.     *)
(* Time is abstract: a queued row is due or not yet, a message is younger  *)
(* or older than GiveUpAfter, and both change by steps of the clock.       *)
(***************************************************************************)
EXTENDS Integers, FiniteSets

CONSTANTS
    Identities,      \* identities that may join the LXMF group
    Senders,         \* the sender goroutines (Config.Senders)
    MaxPosts,        \* bound: messages posted in a behaviour
    Parts,           \* Parts[b]: packets the text of the b-th message needs
    DirectAttempts,  \* Config.DirectAttempts
    HasNode,         \* whether a propagation node is configured
    Limit,           \* rows one DueDeliveries call returns (256)
    Window,          \* finishes the finished map remembers at least (2048)
    MaxFaults,       \* bound: crashes and failed store writes
    MaxChanges,      \* bound: deletions, prunings, joins and leaves
    NoJob            \* a parked sender's job

Bodies == 1..MaxPosts     \* the b-th message posted, whatever ID it was given
Ids == 1..MaxPosts        \* messages.id
Keys == Ids \X Identities \* (message_id, identity): deliveryKey, primary key
NoBody == 0

ASSUME ConstantsOK ==
    /\ IsFiniteSet(Identities) /\ IsFiniteSet(Senders)
    /\ MaxPosts \in Nat /\ DirectAttempts \in Nat \ {0}
    /\ Limit \in Nat \ {0} /\ Window \in Nat
    /\ MaxFaults \in Nat /\ MaxChanges \in Nat
    /\ HasNode \in BOOLEAN
    /\ Parts \in [Bodies -> Nat \ {0}]

\* One round dispatches at most Limit rows while at most |Senders| attempts are
\* under way (256 and 16 in the program), so 2048 finishes outlast every round.
ASSUME WindowCoversRound == Cardinality(Senders) + Limit <= Window

VARIABLES
    message,   \* id -> the message stored under it, or NoBody
    rows,      \* key -> its row of the deliveries table
    members,   \* the members table
    away,      \* members whose away_until lies ahead
    old,       \* messages said longer than GiveUpAfter ago
    pc,        \* the scheduler: waiting, about to snapshot, or in a round
    due,       \* rows of this round's snapshot not looked at yet
    inFlight,  \* Group.inFlight
    since,     \* Group.seq counted from this round's snapshotSeq
    finished,  \* Group.finished on the same scale; 0: absent, or not after it.
               \* Between rounds nothing is compared with either: both are 0.
    worker,    \* sender -> what it is doing
    \* History, read by no action above: what the properties are about.
    posts,     \* messages posted so far
    given,     \* given[b]: the ID the b-th message was stored under
    sent,      \* <<to, body, part>> that the recipient or the node confirmed
    resent,    \* whether a confirmed part was sent and confirmed again
    promised,  \* <<body, to>> queued by post, until cancelled
    gaveUp,    \* <<body, to>> recorded as failed
    faults,    \* crashes and failed writes so far
    changes    \* deletions, prunings, joins and leaves so far

storeVars == <<message, rows, members, away, old>>
groupVars == <<pc, due, inFlight, since, finished, worker>>
postVars == <<posts, given>>
sendVars == <<sent, resent>>
vars == <<storeVars, groupVars, postVars, sendVars, promised, gaveUp, faults, changes>>

RowStates == {"none", "queued", "proven", "propagated", "failed"}
Final == {"proven", "propagated", "failed"}
Row == [state: RowStates, attempts: 0..DirectAttempts, parts: Nat, due: BOOLEAN]
NoRow == [state |-> "none", attempts |-> 0, parts |-> 0, due |-> FALSE]
NewRow == [state |-> "queued", attempts |-> 0, parts |-> 0, due |-> TRUE]

\* hub.PendingDelivery: the row and message as they were in the snapshot.
Pending == [key: Keys, body: Bodies, row: Row, away: BOOLEAN]
Results == {"none", "gaveUp", "later", "away"}
Worker == [phase: {"sending", "failed", "done"}, job: Pending,
           attempts: 0..DirectAttempts, parts: Nat, propagate: BOOLEAN, result: Results]

ASSUME NoJobIsNoWorker == NoJob \notin Worker

Busy == {s \in Senders : worker[s] # NoJob}
QueuedKeys == {k \in Keys : rows[k].state = "queued"}
Attempted(n) == IF n < DirectAttempts THEN n + 1 ELSE n  \* saturates

Init ==
    /\ message = [i \in Ids |-> NoBody]
    /\ rows = [k \in Keys |-> NoRow]
    /\ members \in SUBSET Identities /\ away = {} /\ old = {}
    /\ pc = "wait" /\ due = {} /\ inFlight = {}
    /\ since = 0 /\ finished = [k \in Keys |-> 0]
    /\ worker = [s \in Senders |-> NoJob]
    /\ posts = 0 /\ given = [b \in Bodies |-> 0]
    /\ sent = {} /\ resent = FALSE
    /\ promised = {} /\ gaveUp = {} /\ faults = 0 /\ changes = 0

-----------------------------------------------------------------------------
(* The hub's side: one action per request that touches the queue. *)

\* INTEGER PRIMARY KEY without AUTOINCREMENT: one more than the largest ID in
\* the table now, not the largest there ever was.
IsNextId(i) ==
    /\ \A j \in Ids : message[j] # NoBody => j < i
    /\ i = 1 \/ (i > 1 /\ message[i - 1] # NoBody)

\* post: the message and the rows of its recipients in one transaction.  Whom
\* lxmfRecipients leaves out (paused, banned, the author) is any set here.
Post(i, to) ==
    /\ posts < MaxPosts
    /\ IsNextId(i)
    /\ to \subseteq members
    /\ posts' = posts + 1
    /\ message' = [message EXCEPT ![i] = posts + 1]
    /\ rows' = [k \in Keys |-> IF k[1] = i /\ k[2] \in to THEN NewRow ELSE rows[k]]
    /\ promised' = promised \cup ({posts + 1} \X to)
    /\ given' = [given EXCEPT ![posts + 1] = i]
    /\ UNCHANGED <<members, away, old, groupVars, sendVars, gaveUp, faults, changes>>

Changes == changes < MaxChanges /\ changes' = changes + 1

\* DeleteMessages: the messages and every row of theirs, whatever its state.
DeleteMessages(ids) ==
    /\ Changes
    /\ ids # {} /\ \A i \in ids : message[i] # NoBody
    /\ message' = [i \in Ids |-> IF i \in ids THEN NoBody ELSE message[i]]
    /\ rows' = [k \in Keys |-> IF k[1] \in ids THEN NoRow ELSE rows[k]]
    /\ promised' = {p \in promised : \A i \in ids : p[1] # message[i]}
    /\ UNCHANGED <<members, away, old, groupVars, postVars, sendVars, gaveUp, faults>>

\* maintain: PruneMessages up to a cutoff, then FinishDeliveries on the final
\* rows that have not changed for a day (any of them, to this model).
Maintain(cutoff, stale) ==
    LET pruned(i) == message[i] # NoBody /\ message[i] <= cutoff
    IN  /\ Changes
        /\ stale \subseteq {k \in Keys : rows[k].state \in Final}
        /\ message' = [i \in Ids |-> IF pruned(i) THEN NoBody ELSE message[i]]
        /\ rows' = [k \in Keys |-> IF pruned(k[1]) \/ k \in stale THEN NoRow ELSE rows[k]]
        /\ promised' = {p \in promised : p[1] > cutoff}
        /\ UNCHANGED <<members, away, old, groupVars, postVars, sendVars, gaveUp, faults>>

AddMember(m) ==
    /\ Changes
    /\ m \notin members
    /\ members' = members \cup {m}
    /\ UNCHANGED <<message, rows, away, old, groupVars, postVars, sendVars,
                   promised, gaveUp, faults>>

\* RemoveMember: /leave, /forget, a kick or a ban.
RemoveMember(m) ==
    /\ Changes
    /\ m \in members
    /\ rows' = [k \in Keys |-> IF k[2] = m THEN NoRow ELSE rows[k]]
    /\ members' = members \ {m}
    /\ away' = away \ {m}
    /\ promised' = {p \in promised : p[2] # m}
    /\ UNCHANGED <<message, old, groupVars, postVars, sendVars, gaveUp, faults>>

-----------------------------------------------------------------------------
(* The scheduler: schedule(), one goroutine. *)

\* A wake-up or the ten-second tick starts a round: snapshotSeq := seq.
TakeSeq ==
    /\ pc = "wait"
    /\ pc' = "snapshot"
    /\ UNCHANGED <<storeVars, due, inFlight, since, finished, worker, postVars,
                   sendVars, promised, gaveUp, faults, changes>>

PendingOf(k) == [key |-> k, body |-> message[k[1]], row |-> rows[k], away |-> k[2] \in away]

\* DueDeliveries reads one snapshot of the store: the first Limit due rows by
\* message ID, less those whose message is gone.
DueDeliveries(ks) ==
    LET ready == {k \in QueuedKeys : rows[k].due}
    IN  /\ pc = "snapshot"
        /\ ks \subseteq ready
        /\ Cardinality(ks) <= Limit
        /\ ks = ready \/ Cardinality(ks) = Limit
        /\ \A k \in ks, l \in ready \ ks : k[1] <= l[1]
        /\ due' = {PendingOf(k) : k \in {l \in ks : message[l[1]] # NoBody}}
        /\ pc' = "round"
        /\ UNCHANGED <<storeVars, inFlight, since, finished, worker, postVars,
                       sendVars, promised, gaveUp, faults, changes>>

IsHead(d) == d \in due /\ \A e \in due : d.key[1] <= e.key[1]
\* (mutant: a busy check that forgets the attempts finished since the snapshot)
IsBusyNoSeq(k) == k \in inFlight
IsBusy(k) == k \in inFlight \/ finished[k] > 0

\* The row is being sent, or an attempt at it finished after the snapshot.
SkipBusy(d) ==
    /\ pc = "round" /\ IsHead(d) /\ IsBusy(d.key)
    /\ due' = due \ {d}
    /\ UNCHANGED <<storeVars, pc, inFlight, since, finished, worker, postVars,
                   sendVars, promised, gaveUp, faults, changes>>

\* (mutant: deliver without its GiveUpAfter check)
BeginNoGiveUp(d, propagate) ==
    [phase |-> "sending", job |-> d, attempts |-> d.row.attempts, parts |-> d.row.parts,
     propagate |-> propagate, result |-> "none"]

\* What deliver does first: give up on an old message, or choose the way, by
\* an away_until read in the snapshot that may have passed since.
Begin(d, propagate) ==
    [phase |-> IF d.body \in old THEN "failed" ELSE "sending", job |-> d,
     attempts |-> d.row.attempts, parts |-> d.row.parts, propagate |-> propagate,
     result |-> IF d.body \in old THEN "gaveUp" ELSE "none"]

\* The non-blocking send reaches a parked sender.
Dispatch(d, s, propagate) ==
    /\ pc = "round" /\ IsHead(d) /\ ~IsBusy(d.key)
    /\ worker[s] = NoJob
    /\ propagate => d.away /\ HasNode
    /\ due' = due \ {d}
    /\ inFlight' = inFlight \cup {d.key}
    /\ worker' = [worker EXCEPT ![s] = Begin(d, propagate)]
    /\ UNCHANGED <<storeVars, pc, since, finished, postVars, sendVars,
                   promised, gaveUp, faults, changes>>

\* No more rows, or every sender is busy: the rest wait for the next round.
EndRound ==
    /\ pc = "round"
    /\ \/ due = {}
       \/ Busy = Senders /\ \E d \in due : IsHead(d) /\ ~IsBusy(d.key)
    /\ pc' = "wait"
    /\ due' = {}
    /\ since' = 0 /\ finished' = [k \in Keys |-> 0]
    /\ UNCHANGED <<storeVars, inFlight, worker, postVars, sendVars, promised,
                   gaveUp, faults, changes>>

-----------------------------------------------------------------------------
(* A sender: sender(), deliver() and RecordDelivery. *)

Sending(s) == worker[s] # NoJob /\ worker[s].phase = "sending"
\* (mutant: the parts loop stops one short)
AllSentOffByOne(s) == worker[s].parts + 1 >= Parts[worker[s].job.body]
AllSent(s) == worker[s].parts >= Parts[worker[s].job.body]

\* A part is proved by the recipient, or taken by the propagation node.
SendPart(s) ==
    /\ Sending(s) /\ ~AllSent(s)
    /\ LET w == worker[s]
           p == <<w.job.key[2], w.job.body, w.parts + 1>>
       IN  /\ worker' = [worker EXCEPT ![s].parts = w.parts + 1]
           /\ sent' = sent \cup {p}
           /\ resent' = (resent \/ p \in sent)
    /\ UNCHANGED <<storeVars, pc, due, inFlight, since, finished, postVars,
                   promised, gaveUp, faults, changes>>

\* How deliver classifies an error: a stamp it will not make, a peer or a node
\* it has no announce for, a second direct failure, or anything else.
FailureResults(w) ==
    LET direct == ~w.propagate /\ Attempted(w.attempts) >= DirectAttempts
    IN  {"gaveUp", "later", IF direct THEN "away" ELSE "later"}

SendFails(s, result) ==
    /\ Sending(s) /\ ~AllSent(s)
    /\ result \in FailureResults(worker[s])
    /\ worker' = [worker EXCEPT ![s].phase = "failed", ![s].result = result,
                                ![s].attempts = Attempted(@)]
    /\ UNCHANGED <<storeVars, pc, due, inFlight, since, finished, postVars,
                   sendVars, promised, gaveUp, faults, changes>>

HasResult(s) == worker[s] # NoJob /\ (worker[s].phase = "failed" \/ (Sending(s) /\ AllSent(s)))

\* (mutant: a failed attempt that does not record the parts it got through)
RecordedOldParts(w) ==
    [state |-> IF w.phase = "sending"
               THEN (IF w.propagate THEN "propagated" ELSE "proven")
               ELSE (IF w.result = "gaveUp" THEN "failed" ELSE "queued"),
     attempts |-> w.attempts, parts |-> w.job.row.parts, due |-> w.result = "away"]

\* The row RecordDelivery writes for what an attempt did.
Recorded(w) ==
    [state |-> IF w.phase = "sending"
               THEN (IF w.propagate THEN "propagated" ELSE "proven")
               ELSE (IF w.result = "gaveUp" THEN "failed" ELSE "queued"),
     attempts |-> w.attempts, parts |-> w.parts, due |-> w.result = "away"]

\* (mutant: an away mark that is inserted, not only updated)
AwayAfterUpsert(w) ==
    CASE w.result = "away" -> away \cup {w.job.key[2]}
      [] w.phase = "sending" /\ ~w.propagate -> away \ {w.job.key[2]}
      [] OTHER -> away

\* SetAway: an UPDATE, so only of someone who still is a member.
AwayAfter(w) ==
    CASE w.result = "away" -> away \cup ({w.job.key[2]} \cap members)
      [] w.phase = "sending" /\ ~w.propagate -> away \ {w.job.key[2]}
      [] OTHER -> away

\* RecordDelivery: an upsert, whether or not the row is still there; then the
\* member's away mark.
RecordDelivery(s) ==
    /\ HasResult(s)
    /\ LET w == worker[s]
           k == w.job.key
       IN  /\ rows' = [rows EXCEPT ![k] = Recorded(w)]
           /\ away' = AwayAfter(w)
           /\ gaveUp' = IF w.result = "gaveUp"
                        THEN gaveUp \cup {<<w.job.body, k[2]>>} ELSE gaveUp
           /\ worker' = [worker EXCEPT ![s].phase = "done"]
    /\ UNCHANGED <<message, members, old, pc, due, inFlight, since, finished,
                   postVars, sendVars, promised, faults, changes>>

\* The transaction fails; record logs it and the attempt is forgotten.
RecordFails(s) ==
    /\ HasResult(s) /\ faults < MaxFaults
    /\ worker' = [worker EXCEPT ![s].phase = "done"]
    /\ faults' = faults + 1
    /\ UNCHANGED <<storeVars, pc, due, inFlight, since, finished, postVars,
                   sendVars, promised, gaveUp, changes>>

\* Bookkeeping after the attempt.  The finished map may be over its 4096
\* entries (evict) or not; outside a round the stamps play no part.
Finish(s, evict) ==
    /\ worker[s] # NoJob /\ worker[s].phase = "done"
    /\ inFlight' = inFlight \ {worker[s].job.key}
    /\ worker' = [worker EXCEPT ![s] = NoJob]
    /\ IF pc = "wait" THEN UNCHANGED <<since, finished>>
       ELSE LET stamped == [finished EXCEPT ![worker[s].job.key] = since + 1]
            IN  /\ since' = since + 1
                /\ finished' = [k \in Keys |-> IF evict /\ stamped[k] + Window < since'
                                               THEN 0 ELSE stamped[k]]
    /\ UNCHANGED <<storeVars, pc, due, postVars, sendVars, promised, gaveUp, faults, changes>>

-----------------------------------------------------------------------------
(* The clock, and a crash. *)

RetryDue(k) ==
    /\ rows[k].state = "queued" /\ ~rows[k].due
    /\ rows' = [rows EXCEPT ![k].due = TRUE]
    /\ UNCHANGED <<message, members, away, old, groupVars, postVars, sendVars,
                   promised, gaveUp, faults, changes>>

AwayExpires(m) ==
    /\ m \in away
    /\ away' = away \ {m}
    /\ UNCHANGED <<message, rows, members, old, groupVars, postVars, sendVars,
                   promised, gaveUp, faults, changes>>

Age(b) ==
    /\ b <= posts /\ b \notin old
    /\ \A c \in Bodies : c < b => c \in old
    /\ old' = old \cup {b}
    /\ UNCHANGED <<message, rows, members, away, groupVars, postVars, sendVars,
                   promised, gaveUp, faults, changes>>

\* The process dies, or stops with attempts under way, and starts again: the
\* store is all that is left.
Crash ==
    /\ faults < MaxFaults
    /\ faults' = faults + 1
    /\ pc' = "wait" /\ due' = {} /\ inFlight' = {}
    /\ since' = 0 /\ finished' = [k \in Keys |-> 0]
    /\ worker' = [s \in Senders |-> NoJob]
    /\ UNCHANGED <<storeVars, postVars, sendVars, promised, gaveUp, changes>>

-----------------------------------------------------------------------------
HubStep ==
    \/ \E i \in Ids, to \in SUBSET members : Post(i, to)
    \/ \E ids \in SUBSET Ids : DeleteMessages(ids)
    \/ \E cutoff \in 0..MaxPosts, stale \in SUBSET Keys : Maintain(cutoff, stale)
    \/ \E m \in Identities : AddMember(m) \/ RemoveMember(m)

Round ==
    \/ TakeSeq
    \/ \E ks \in SUBSET QueuedKeys : DueDeliveries(ks)
    \/ \E d \in due : SkipBusy(d) \/ \E s \in Senders, p \in BOOLEAN : Dispatch(d, s, p)
    \/ EndRound

Attempt(s) == SendPart(s) \/ (\E r \in Results : SendFails(s, r)) \/ RecordDelivery(s)

SenderStep(s) ==
    \/ Attempt(s)
    \/ RecordFails(s)
    \/ \E evict \in BOOLEAN : Finish(s, evict)

Clock ==
    \/ \E k \in Keys : RetryDue(k)
    \/ \E m \in Identities : AwayExpires(m)
    \/ \E b \in Bodies : Age(b)

Next == HubStep \/ Round \/ (\E s \in Senders : SenderStep(s)) \/ Clock \/ Crash

Spec == Init /\ [][Next]_vars

\* The goroutines run, every send returns with a proof or an error, the ticker
\* ticks and the clock moves.  Nothing is assumed of the network or of people.
FairSpec ==
    /\ Spec
    /\ WF_vars(Round)
    /\ \A s \in Senders : WF_vars(Attempt(s)) /\ WF_vars(Finish(s, TRUE) \/ Finish(s, FALSE))
    /\ \A k \in Keys : WF_vars(RetryDue(k))
    /\ \A b \in Bodies : WF_vars(Age(b))

-----------------------------------------------------------------------------
(* Properties. *)

TypeOK ==
    /\ message \in [Ids -> Bodies \cup {NoBody}]
    /\ rows \in [Keys -> Row]
    /\ members \subseteq Identities /\ away \subseteq members /\ old \subseteq Bodies
    /\ pc \in {"wait", "snapshot", "round"}
    /\ due \subseteq Pending /\ inFlight \subseteq Keys
    /\ since \in Nat /\ finished \in [Keys -> Nat]
    /\ worker \in [Senders -> Worker \cup {NoJob}]
    /\ posts \in 0..MaxPosts /\ given \in [Bodies -> Ids \cup {0}]
    /\ sent \subseteq (Identities \X Bodies \X Nat) /\ resent \in BOOLEAN
    /\ promised \subseteq (Bodies \X Identities) /\ gaveUp \subseteq (Bodies \X Identities)
    /\ faults \in 0..MaxFaults /\ changes \in 0..MaxChanges

\* An ID was given again: to a message posted after the newest one was deleted,
\* or after every message was pruned.
Reused == \E b, c \in Bodies : b < c /\ c <= posts /\ given[b] = given[c]

Attempting(s) == worker[s] # NoJob /\ worker[s].phase \in {"sending", "failed"}

\* An attempt works on the row as it is: from the snapshot to the moment the
\* outcome is recorded, the row it started from is unchanged or was cancelled.
\* inFlight, finished and snapshotSeq are there for this.
AttemptIsCurrent ==
    ~Reused => \A s \in Senders : Attempting(s) =>
        LET j == worker[s].job IN rows[j.key].state = "none" \/ rows[j.key] = j.row

\* parts_done: "a retry carries on where the last one stopped".  A part that
\* was confirmed goes out again only if a crash or a failed write came between
\* the confirmation and its record.
PartsSentOnce == resent => faults > 0 \/ Reused

\* post.go: "a restart can never lose a delivery that was promised".  While
\* the message and the membership last, a promised delivery is still queued,
\* or every part of it was confirmed, or it was given up on.
Kept(i, m) ==
    \/ rows[<<i, m>>].state = "queued"
    \/ \A p \in 1..Parts[message[i]] : <<m, message[i], p>> \in sent
    \/ <<message[i], m>> \in gaveUp
NoDeliveryLost ==
    ~Reused => \A i \in Ids, m \in Identities :
        message[i] # NoBody /\ <<message[i], m>> \in promised => Kept(i, m)

\* A finished delivery is never queued again by an attempt that finishes late.
FinalIsFinal ==
    [][\A k \in Keys : rows[k].state \in Final /\ rows'[k].state = "queued" => Reused']_vars

\* Every queued delivery of a stored message is settled in the end: confirmed,
\* given up on, or cancelled.
Settles ==
    \A k \in Keys : (rows[k].state = "queued" /\ message[k[1]] # NoBody)
                     ~> (rows[k].state # "queued" \/ message[k[1]] = NoBody)
=============================================================================
