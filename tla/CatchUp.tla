------------------------------ MODULE CatchUp ------------------------------
(***************************************************************************)
(* One room of the hub as RRC sees it: the messages stored for it, who is  *)
(* in it (presence counts an identity's RRC links), and the cursors that   *)
(* decide what someone who comes back is shown.  Every action is one       *)
(* request on the hub's loop goroutine, in one transaction.                *)
(*                                                                         *)
(* Messages of all rooms share one ID sequence, so posts elsewhere take    *)
(* IDs too.  The room is one of the configured rooms: it is never          *)
(* forgotten.  Bodies number the messages in the order they were posted.   *)
(***************************************************************************)
EXTENDS Integers, FiniteSets

CONSTANTS
    Identities,
    MaxPosts,     \* bound: messages posted in a behaviour, in any room
    MaxLinks,     \* bound: RRC links of one identity in the room
    ReplayFirst,  \* Config.ReplayFirstVisit (10)
    ReplayMax,    \* Config.ReplayMax (50)
    MaxFaults,    \* bound: crashes and restarts
    MaxChanges    \* bound: deletions, prunings, kicks and maintenance runs

ASSUME CatchUpConstants ==
    /\ MaxPosts \in Nat /\ MaxLinks \in Nat /\ MaxFaults \in Nat /\ MaxChanges \in Nat
    /\ ReplayFirst \in Nat /\ ReplayMax \in Nat

Bodies == 1..MaxPosts
Ids == 1..MaxPosts
NoBody == 0
NoCursor == -1

VARIABLES
    message,  \* id -> the message stored under it, or NoBody
    here,     \* the messages that were posted to this room
    cursor,   \* identity -> message_id of its RRC cursor, or NoCursor
    links,    \* identity -> presenceEntry.rrcLinks
    \* History, read by no action.
    posts,    \* messages posted so far
    given,    \* given[b]: the ID the b-th message was stored under
    leftAt,   \* identity -> posts when it was last in the room
    abrupt,   \* identities that last left it by a crash or a kick
    faults, changes

histVars == <<posts, given, leftAt, abrupt>>
catchUpVars == <<message, here, cursor, links, posts, given, leftAt, abrupt, faults, changes>>

InRoom(i) == message[i] \in here
RoomIds == {i \in Ids : InRoom(i)}
Present(id) == links[id] > 0

Largest(S) == IF S = {} THEN 0 ELSE CHOOSE i \in S : \A j \in S : j <= i

\* max(id) of the room's messages, or 0.
LastMessageID == Largest(RoomIds)

\* The last n of a set of IDs: ORDER BY id DESC LIMIT n.
LatestOf(S, n) == {i \in S : Cardinality({j \in S : j > i}) < n}

-----------------------------------------------------------------------------
(* What a join replays: catchUp. *)

MessagesAfter(c) == {i \in RoomIds : i > c}

\* (mutant: the cursor's own message is replayed again)
ReplayInclusive(id) ==
    LET missed == {i \in RoomIds : i >= cursor[id]}
    IN  IF cursor[id] = NoCursor THEN LatestOf(RoomIds, ReplayFirst)
        ELSE IF Cardinality(missed) > ReplayMax THEN LatestOf(RoomIds, ReplayMax)
        ELSE missed

Replay(id) ==
    LET missed == MessagesAfter(cursor[id])
    IN  IF cursor[id] = NoCursor THEN LatestOf(RoomIds, ReplayFirst)
        ELSE IF Cardinality(missed) > ReplayMax THEN LatestOf(RoomIds, ReplayMax)
        ELSE missed

\* (mutant: SetCursor without its max)
MovedTo(id, last) == [cursor EXCEPT ![id] = last]

\* SetCursor: an upsert that "never moves back".
SetCursor(id, last) == [cursor EXCEPT ![id] = IF @ > last THEN @ ELSE last]

-----------------------------------------------------------------------------
(* The hub's requests. *)

Init ==
    /\ message = [i \in Ids |-> NoBody] /\ here = {}
    /\ cursor = [id \in Identities |-> NoCursor]
    /\ links = [id \in Identities |-> 0]
    /\ posts = 0 /\ given = [b \in Bodies |-> 0]
    /\ leftAt = [id \in Identities |-> 0] /\ abrupt = {}
    /\ faults = 0 /\ changes = 0

\* INTEGER PRIMARY KEY without AUTOINCREMENT: one more than the largest ID in
\* the table now.
IsNextId(i) ==
    /\ \A j \in Ids : message[j] # NoBody => j < i
    /\ i = 1 \/ (i > 1 /\ message[i - 1] # NoBody)

\* post, to this room or to another.
Post(i, toHere) ==
    /\ posts < MaxPosts
    /\ IsNextId(i)
    /\ posts' = posts + 1
    /\ message' = [message EXCEPT ![i] = posts + 1]
    /\ here' = IF toHere THEN here \cup {posts + 1} ELSE here
    /\ given' = [given EXCEPT ![posts + 1] = i]
    /\ UNCHANGED <<cursor, links, leftAt, abrupt, faults, changes>>

\* join: the first link of an identity is caught up and its cursor set; a
\* further link only counts.
Join(id) ==
    /\ links[id] < MaxLinks
    /\ cursor' = IF Present(id) THEN cursor ELSE SetCursor(id, LastMessageID)
    /\ links' = [links EXCEPT ![id] = @ + 1]
    /\ UNCHANGED <<message, here, histVars, faults, changes>>

\* (mutant: part without its check that the identity is present)
PartUnchecked(id) ==
    /\ cursor' = IF links[id] = 1 THEN SetCursor(id, LastMessageID) ELSE cursor
    /\ links' = [links EXCEPT ![id] = @ - 1]
    /\ UNCHANGED <<message, here, histVars, faults, changes>>

\* part: the last link of an identity to leave sets its cursor.
Part(id) ==
    IF ~Present(id) THEN UNCHANGED catchUpVars
    ELSE /\ cursor' = IF links[id] = 1 THEN SetCursor(id, LastMessageID) ELSE cursor
         /\ links' = [links EXCEPT ![id] = @ - 1]
         /\ leftAt' = IF links[id] = 1 THEN [leftAt EXCEPT ![id] = posts] ELSE leftAt
         /\ abrupt' = IF links[id] = 1 THEN abrupt \ {id} ELSE abrupt
         /\ UNCHANGED <<message, here, posts, given, faults, changes>>

\* forgetPresence, after a kick: the cursor stays where it was.
Kick(id) ==
    /\ changes < MaxChanges /\ changes' = changes + 1
    /\ Present(id)
    /\ links' = [links EXCEPT ![id] = 0]
    /\ leftAt' = [leftAt EXCEPT ![id] = posts]
    /\ abrupt' = abrupt \cup {id}
    /\ UNCHANGED <<message, here, cursor, posts, given, faults>>

\* (mutant: those who have left have their cursors saved too)
AllCursorsSavedForAll == [id \in Identities |-> SetCursor(id, LastMessageID)[id]]

\* saveAllCursors: of everyone in the room by RRC.
AllCursorsSaved ==
    [id \in Identities |-> IF Present(id) THEN SetCursor(id, LastMessageID)[id] ELSE cursor[id]]

DeleteMessages(ids) ==
    /\ changes < MaxChanges /\ changes' = changes + 1
    /\ ids # {} /\ \A i \in ids : message[i] # NoBody
    /\ message' = [i \in Ids |-> IF i \in ids THEN NoBody ELSE message[i]]
    /\ UNCHANGED <<here, cursor, links, histVars, faults>>

\* maintain: saveAllCursors, whose failure is logged and no more, then
\* PruneMessages up to a cutoff.
Maintain(cutoff) ==
    /\ changes < MaxChanges /\ changes' = changes + 1
    /\ cursor' \in {AllCursorsSaved, cursor}
    /\ message' = [i \in Ids |-> IF message[i] <= cutoff THEN NoBody ELSE message[i]]
    /\ UNCHANGED <<here, links, histVars, faults>>

Gone ==
    /\ links' = [id \in Identities |-> 0]
    /\ leftAt' = [id \in Identities |-> IF Present(id) THEN posts ELSE leftAt[id]]

\* The process dies: presence is only in memory.
Crash ==
    /\ faults < MaxFaults /\ faults' = faults + 1
    /\ Gone
    /\ abrupt' = abrupt \cup {id \in Identities : Present(id)}
    /\ UNCHANGED <<message, here, cursor, posts, given, changes>>

\* Run's ctx is done: cursors are saved, and the process starts again.
Restart ==
    /\ faults < MaxFaults /\ faults' = faults + 1
    /\ Gone
    /\ cursor' = AllCursorsSaved
    /\ abrupt' = abrupt \ {id \in Identities : Present(id)}
    /\ UNCHANGED <<message, here, posts, given, changes>>

Next ==
    \/ \E i \in Ids, toHere \in BOOLEAN : Post(i, toHere)
    \/ \E id \in Identities : Join(id) \/ Part(id) \/ Kick(id)
    \/ \E ids \in SUBSET Ids : DeleteMessages(ids)
    \/ \E cutoff \in 0..MaxPosts : Maintain(cutoff)
    \/ Crash \/ Restart

Spec == Init /\ [][Next]_catchUpVars

-----------------------------------------------------------------------------
(* Properties. *)

TypeOK ==
    /\ message \in [Ids -> Bodies \cup {NoBody}] /\ here \subseteq Bodies
    /\ cursor \in [Identities -> Ids \cup {0, NoCursor}]
    /\ links \in [Identities -> 0..MaxLinks]
    /\ posts \in 0..MaxPosts /\ given \in [Bodies -> Ids \cup {0}]
    /\ leftAt \in [Identities -> 0..MaxPosts] /\ abrupt \subseteq Identities
    /\ faults \in 0..MaxFaults /\ changes \in 0..MaxChanges

\* An ID was given twice.
Reused == \E b, c \in Bodies : b < c /\ c <= posts /\ given[b] = given[c]

\* The room's messages someone has missed: posted after they were last in it.
Missed(id) == {i \in RoomIds : message[i] > leftAt[id]}

\* Someone who comes back is replayed everything they missed that is still
\* stored (or the latest ReplayMax, and told so): whatever came between, kicks,
\* crashes, restarts, deletions and pruning included.
MissedIsReplayed ==
    ~Reused => \A id \in Identities : ~Present(id) /\ cursor[id] # NoCursor =>
        Missed(id) \subseteq Replay(id) \/ Cardinality(MessagesAfter(cursor[id])) > ReplayMax

\* And nothing else, if they left by parting, by a closed link or by a
\* shutdown, which all save the cursor.
OnlyMissedIsReplayed ==
    ~Reused => \A id \in Identities \ abrupt : ~Present(id) /\ cursor[id] # NoCursor =>
        Replay(id) \subseteq Missed(id)

\* A crash or a kick replays again what was seen since the last save, never
\* what was seen before it: a replay starts where the one before it ended.
\* (SetCursor: "A cursor never moves back".)
CursorsOnlyAdvance == [][\A id \in Identities : cursor'[id] >= cursor[id]]_catchUpVars
=============================================================================
