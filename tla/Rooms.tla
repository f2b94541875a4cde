-------------------------------- MODULE Rooms --------------------------------
(***************************************************************************)
(* The life of one room: founded by its first JOIN, run by its operators   *)
(* (modes, roles, bans, invites, registration), and forgotten when it is   *)
(* empty or no longer used.  Presence is in memory and the rest is in the  *)
(* store, so a restart empties the room without leaving it.                *)
(*                                                                         *)
(* Every action is one request of the hub.  A refused request is no step.  *)
(* Hub ranks do not change here, and every identity is a person of its     *)
(* own.  The LXMF group's share of the group room is in People.  Messages  *)
(* and cursors belong to the name and not to the room: CatchUp has them.   *)
(***************************************************************************)
EXTENDS Naturals, FiniteSets

CONSTANTS
    Identities,
    Rank,        \* Rank[i]: the hub rank, 0 (member) to 3 (owner)
    Default,     \* whether the configuration names the room
    MaxLinks,    \* bound on the links of one identity
    Nil

ASSUME RoomsConstants ==
    /\ Rank \in [Identities -> 0 .. 3]
    /\ Default \in BOOLEAN
    /\ MaxLinks \in Nat
    /\ Nil \notin Identities

VARIABLES
    room,        \* the row in rooms, or None
    ops,         \* room_roles: operators,
    voiced,      \*   those with a voice,
    bans,        \*   and those banned
    invites,     \* invites[i]: "no", "live" or "expired"
    links        \* links[i]: RRC links of i joined to the room

roles == <<ops, voiced, bans>>
roomsVars == <<room, ops, voiced, bans, invites, links>>

\* i invite-only, k a key is set, m moderated, n no outside messages.  (Left out:
\* p, which only hides the room from lists and readers, and t with the topic.)
Modes == {"i", "k", "m", "n"}

\* recent: last_used is within PruneRoomsAfter.
Row == [founder : Identities \cup {Nil}, registered : BOOLEAN, modes : SUBSET Modes,
        recent : BOOLEAN]

ASSUME RoomsNone == Nil \notin Row

Exists == room # Nil
Present(i) == links[i] > 0
Empty == \A i \in Identities : ~Present(i)

\* ensureDefaultRooms makes the configured rooms, registered.
NewRow(founder, registered) ==
    [founder |-> founder, registered |-> registered, modes |-> {}, recent |-> TRUE]

RoomsInit ==
    /\ room = IF Default THEN NewRow(Nil, TRUE) ELSE Nil
    /\ ops = {} /\ voiced = {} /\ bans = {}
    /\ invites = [i \in Identities |-> "no"]
    /\ links = [i \in Identities |-> 0]
----------------------------------------------------------------------------
(* Who may do what *)

IsRoomOp(i) == room.founder = i \/ Rank[i] >= 1 \/ i \in ops

\* mayActOnRoomTarget: a room's operator does not reach hub staff.
MayActOn(a, t) ==
    \/ Rank[t] = 0
    \/ a = t
    \/ Rank[t] # 3 /\ (Rank[a] = 3 \/ Rank[t] < Rank[a])

\* opRoom
OpRoom(a) == Exists /\ IsRoomOp(a)

Invited(i) == invites[i] = "live"

\* Invite-only first, then the key, then the room's bans.
MayJoin(i, knowsKey) ==
    /\ Exists => /\ "i" \in room.modes => IsRoomOp(i) \/ Invited(i)
                 /\ "k" \in room.modes => IsRoomOp(i) \/ Invited(i) \/ knowsKey
    /\ i \notin bans
----------------------------------------------------------------------------
(* Joining and leaving *)

Join(i, knowsKey) ==
    /\ links[i] < MaxLinks
    /\ MayJoin(i, knowsKey)
    /\ room' = IF Exists THEN [room EXCEPT !.recent = TRUE] ELSE NewRow(i, FALSE)
    /\ invites' = IF Invited(i) THEN [invites EXCEPT ![i] = "no"] ELSE invites
    /\ links' = [links EXCEPT ![i] = @ + 1]
    /\ UNCHANGED roles

\* Mutant: the row goes and what refers to it stays.
DeleteRoomOnly ==
    /\ room' = Nil
    /\ UNCHANGED <<roles, invites>>

\* The row's roles and invites go with it.  The messages said in the room and the
\* cursors of those who were in it refer to its name only and stay: the next room
\* of the name replays them.
DeleteRoom ==
    /\ room' = Nil
    /\ ops' = {} /\ voiced' = {} /\ bans' = {}
    /\ invites' = [i \in Identities |-> "no"]

\* forgetEmptyRoom, when the last link of i leaves.
ForgetEmptyRoom(i) ==
    IF Exists /\ \A j \in Identities \ {i} : ~Present(j)
    THEN IF room.registered \/ Default
         THEN room' = [room EXCEPT !.recent = TRUE] /\ UNCHANGED <<roles, invites>>
         ELSE DeleteRoom
    ELSE UNCHANGED <<room, roles, invites>>

\* part, from a PART, a /leave or a closed link.
Part(i) ==
    /\ Present(i)
    /\ links' = [links EXCEPT ![i] = @ - 1]
    /\ IF links[i] = 1 THEN ForgetEmptyRoom(i) ELSE UNCHANGED <<room, roles, invites>>

\* forgetPresence: out with every link, and nothing else that part does.
ForgetPresence(t) == links' = [links EXCEPT ![t] = 0]

\* A hub kick or ban: removeEverywhere.
HubRemove(t) ==
    /\ Present(t)
    /\ ForgetPresence(t)
    /\ UNCHANGED <<room, roles, invites>>

\* Presence is lost with the process.
PresenceLost ==
    /\ ~Empty
    /\ links' = [i \in Identities |-> 0]
    /\ UNCHANGED <<room, roles, invites>>
----------------------------------------------------------------------------
(* /room *)

Kick(a, t) ==
    /\ OpRoom(a)
    /\ MayActOn(a, t)
    /\ Present(t)
    /\ ForgetPresence(t)
    /\ UNCHANGED <<room, roles, invites>>

\* Mutant: the ban only keeps them from joining again.
BanStaying(a, t) ==
    /\ OpRoom(a)
    /\ MayActOn(a, t)
    /\ bans' = bans \cup {t}
    /\ UNCHANGED <<room, ops, voiced, invites, links>>

RoomBan(a, t) ==
    /\ OpRoom(a)
    /\ MayActOn(a, t)
    /\ bans' = bans \cup {t}
    /\ ForgetPresence(t)
    /\ UNCHANGED <<room, ops, voiced, invites>>

RoomUnban(a, t) ==
    /\ OpRoom(a)
    /\ t \in bans
    /\ bans' = bans \ {t}
    /\ UNCHANGED <<room, ops, voiced, invites, links>>

\* Without +i and +k an invitation is only a notice.
Invite(a, t) ==
    /\ OpRoom(a)
    /\ room.modes \cap {"i", "k"} # {}
    /\ invites' = [invites EXCEPT ![t] = "live"]
    /\ UNCHANGED <<room, roles, links>>

Uninvite(a, t) ==
    /\ OpRoom(a)
    /\ invites' = [invites EXCEPT ![t] = "no"]
    /\ UNCHANGED <<room, roles, links>>

\* op, voice and devoice; deop also looks at who is deopped.
Op(a, t) ==
    /\ OpRoom(a)
    /\ ops' = ops \cup {t}
    /\ UNCHANGED <<room, voiced, bans, invites, links>>

Deop(a, t) ==
    /\ OpRoom(a)
    /\ room.founder = t => Rank[a] = 3
    /\ MayActOn(a, t)
    /\ ops' = ops \ {t}
    /\ UNCHANGED <<room, voiced, bans, invites, links>>

Voice(a, t, on) ==
    /\ OpRoom(a)
    /\ voiced' = IF on THEN voiced \cup {t} ELSE voiced \ {t}
    /\ UNCHANGED <<room, ops, bans, invites, links>>

Mode(a, m, on) ==
    /\ OpRoom(a)
    /\ room' = [room EXCEPT !.modes = IF on THEN @ \cup {m} ELSE @ \ {m}]
    /\ UNCHANGED <<roles, invites, links>>

\* The founder, from inside the room.
Register(a) ==
    /\ Present(a)
    /\ Exists /\ room.founder = a
    /\ room' = [room EXCEPT !.registered = TRUE, !.modes = @ \cup {"n"}]
    /\ ops' = ops \cup {a}
    /\ UNCHANGED <<voiced, bans, invites, links>>

Unregister(a) ==
    /\ Present(a)
    /\ Exists /\ room.founder = a
    /\ room.registered /\ ~Default
    /\ room' = [room EXCEPT !.registered = FALSE]
    /\ UNCHANGED <<roles, invites, links>>

\* A message over RRC, from inside or, without +n, from outside.
RoomPost(i) ==
    /\ Exists
    /\ Present(i) \/ "n" \notin room.modes
    /\ i \notin bans
    /\ "m" \in room.modes => IsRoomOp(i) \/ i \in voiced
    /\ room' = [room EXCEPT !.recent = TRUE]
    /\ UNCHANGED <<roles, invites, links>>

RoomVerb(a, t) ==
    \/ Kick(a, t) \/ RoomBan(a, t) \/ RoomUnban(a, t)
    \/ Invite(a, t) \/ Uninvite(a, t)
    \/ Op(a, t) \/ Deop(a, t)
    \/ \E on \in BOOLEAN : Voice(a, t, on)
----------------------------------------------------------------------------
(* Time *)

InviteExpires(i) ==
    /\ Invited(i)
    /\ invites' = [invites EXCEPT ![i] = "expired"]
    /\ UNCHANGED <<room, roles, links>>

\* PruneRoomsAfter passes without a use.
Age ==
    /\ Exists
    /\ room' = [room EXCEPT !.recent = FALSE]
    /\ UNCHANGED <<roles, invites, links>>

\* Mutant: only registered rooms are pruned.
PrunableRegistered == Exists /\ ~Default /\ Empty /\ ~room.recent /\ room.registered

Prunable == Exists /\ ~Default /\ Empty /\ ~room.recent

\* The minute's maintenance: PruneInvites and pruneRooms.
MaintainRoom ==
    /\ IF Prunable THEN DeleteRoom
       ELSE /\ invites' = [i \in Identities |-> IF invites[i] = "expired" THEN "no" ELSE invites[i]]
            /\ UNCHANGED <<room, roles>>
    /\ UNCHANGED links

RoomsNext ==
    \/ \E i \in Identities :
        \/ Part(i) \/ HubRemove(i) \/ RoomPost(i)
        \/ Register(i) \/ Unregister(i) \/ InviteExpires(i)
        \/ \E knowsKey \in BOOLEAN : Join(i, knowsKey)
        \/ \E t \in Identities : RoomVerb(i, t)
        \/ \E m \in Modes, on \in BOOLEAN : Mode(i, m, on)
    \/ PresenceLost \/ Age \/ MaintainRoom

RoomsSpec == RoomsInit /\ [][RoomsNext]_roomsVars

\* Maintenance runs every minute and time passes.
FairRoomsSpec == RoomsSpec /\ WF_roomsVars(MaintainRoom) /\ WF_roomsVars(Age)
----------------------------------------------------------------------------
(* Properties *)

\* Whoever is banned from the room is not in it, however many links they had
\* and whichever came first, the ban or the join (roomBan, join).
BannedAreOut == \A i \in Identities : i \in bans => ~Present(i)

\* A room that is forgotten leaves no operator, voice, ban or invitation to the next
\* one of its name, and no room is forgotten under the people in it
\* (forgetEmptyRoom, pruneRooms and DeleteRoom's cascade, over kicks, restarts and
\* several links).  What was said in it does pass on: see DeleteRoom.
NoRightOutlivesTheRoom ==
    ~Exists => /\ Empty
               /\ roles = <<{}, {}, {}>>
               /\ \A i \in Identities : invites[i] = "no"

\* A room left without members goes in the end, however they left: a kick, a
\* ban or a restart forgets them without forgetting the room, and pruneRooms
\* makes up for it, unless messages from outside keep the room in use.
AbandonedRoomsGo ==
    ~Default => (<>[]Empty => []<>(Exists /\ room.recent) \/ <>[]~Exists)
=============================================================================
