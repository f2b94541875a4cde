-------------------------------- MODULE Pause --------------------------------
(***************************************************************************)
(* Whether the LXMF group delivers to an app: its setting (on, off, auto), *)
(* the automatic pause while any app of its person is in the group room    *)
(* over RRC, and the note, when delivery resumes, of how many messages     *)
(* were missed.  The pause is never stored: lxmfPaused works it out from   *)
(* the setting, the links between apps and who is present, and only joins, *)
(* parts and changes of the setting look whether it has changed.           *)
(*                                                                         *)
(* Every action is one request of the hub.  An app is present or not: only *)
(* its first link in and its last link out touch the pause.  Messages are  *)
(* never deleted here; CatchUp has what deletions do to cursors.           *)
(***************************************************************************)
EXTENDS Integers

CONSTANTS
    Apps,       \* identities
    MaxPosts    \* bound on messages

ASSUME PauseConstants == MaxPosts \in Nat

NoCursor == -1

VARIABLES
    team,       \* the persons, each as the set of its apps
    member,     \* members of the LXMF group
    mode,       \* mode[a]: "on", "off" or "auto"
    present,    \* apps in the group room over RRC
    last,       \* LastMessageID of the group room
    cursor,     \* cursor[a]: a's cursor there for LXMF, or NoCursor
    note,       \* note[a]: the count this request announced to a, 0 if none
    \* History.
    recorded,   \* paused apps whose pause began with its cursor recorded
    missed,     \* missed[a]: messages said since then
    due         \* due[a]: the count this request should have announced to a

vars == <<team, member, mode, present, last, cursor, note, recorded, missed, due>>

NoNote == [a \in Apps |-> 0]

Init ==
    /\ team = {{a} : a \in Apps}
    /\ member = {} /\ present = {}
    /\ mode = [a \in Apps |-> "on"]
    /\ last = 0
    /\ cursor = [a \in Apps |-> NoCursor]
    /\ note = NoNote
    /\ recorded = {}
    /\ missed = [a \in Apps |-> 0]
    /\ due = NoNote
----------------------------------------------------------------------------
(* The pause *)

\* identitiesOf
AppsOf(a) == CHOOSE t \in team : a \in t

\* personOnRRC
OnRRC(a) == AppsOf(a) \cap present # {}

\* lxmfPaused, under a's setting and under another.
PausedAs(m, a) == m = "off" \/ (m = "auto" /\ OnRRC(a))
Paused(a) == PausedAs(mode[a], a)

\* The person's members on auto, whom autoPauseChanged pauses and resumes.
AutoApps(a) == {b \in AppsOf(a) \cap member : mode[b] = "auto"}

\* Mutant: the pause is recorded only where there is no cursor yet.
PauseFirst(ps) ==
    /\ cursor' = [a \in Apps |-> IF a \in ps /\ cursor[a] = NoCursor THEN last ELSE cursor[a]]
    /\ note' = NoNote

\* lxmfPauseChanged, for apps that pause
Pause(ps) ==
    /\ cursor' = [a \in Apps |-> IF a \in ps THEN last ELSE cursor[a]]
    /\ note' = NoNote

\* and for apps that resume.  Without a cursor nothing is announced.
Resume(rs) ==
    LET told == {a \in rs : cursor[a] # NoCursor} IN
    /\ note' = [a \in Apps |-> IF a \in told THEN last - cursor[a] ELSE 0]
    /\ cursor' = [a \in Apps |-> IF a \in told THEN last ELSE cursor[a]]

NoChange == UNCHANGED cursor /\ note' = NoNote
----------------------------------------------------------------------------
(* Requests that look whether the pause changes *)

\* The first RRC link of a joins the group room.  Presence is as it was before.
JoinRoom(a) ==
    /\ a \notin present
    /\ IF OnRRC(a) THEN NoChange ELSE Pause(AutoApps(a))
    /\ present' = present \cup {a}
    /\ UNCHANGED <<team, member, mode, last>>

\* Mutant: the last link of one app resumes them all, whoever is still there.
PartRoomAll(a) ==
    /\ a \in present
    /\ Resume(AutoApps(a))
    /\ present' = present \ {a}
    /\ UNCHANGED <<team, member, mode, last>>

\* The last one leaves it.
PartRoom(a) ==
    /\ a \in present
    /\ IF AppsOf(a) \cap present = {a} THEN Resume(AutoApps(a)) ELSE NoChange
    /\ present' = present \ {a}
    /\ UNCHANGED <<team, member, mode, last>>

\* /lxmf and the page's setting.  It is kept for non-members too.
SetLXMFMode(a, m) ==
    /\ mode' = [mode EXCEPT ![a] = m]
    /\ CASE a \in member /\ ~Paused(a) /\ PausedAs(m, a) -> Pause({a})
         [] a \in member /\ Paused(a) /\ ~PausedAs(m, a) -> Resume({a})
         [] OTHER -> NoChange
    /\ UNCHANGED <<team, member, present, last>>

Watched ==
    \E a \in Apps :
        \/ JoinRoom(a) \/ PartRoom(a)
        \/ \E m \in {"on", "off", "auto"} : SetLXMFMode(a, m)
----------------------------------------------------------------------------
(* Requests that do not *)

\* A message in the group room goes to the members not paused (lxmfRecipients).
Post ==
    /\ last < MaxPosts
    /\ last' = last + 1
    /\ NoChange
    /\ UNCHANGED <<team, member, mode, present>>

JoinGroup(a) ==
    /\ a \notin member
    /\ member' = member \cup {a}
    /\ mode' = [mode EXCEPT ![a] = "on"]
    /\ NoChange
    /\ UNCHANGED <<team, present, last>>

LeaveGroup(a) ==
    /\ a \in member
    /\ member' = member \ {a}
    /\ NoChange
    /\ UNCHANGED <<team, mode, present, last>>

Split(apps) == ({t \ apps : t \in team} \ {{}}) \cup {{b} : b \in apps}

\* a becomes an app of b's person.
LinkApp(a, b) ==
    /\ AppsOf(a) # AppsOf(b)
    /\ team' = ({t \ {a} : t \in team \ {AppsOf(b)}} \ {{}}) \cup {AppsOf(b) \cup {a}}
    /\ NoChange
    /\ UNCHANGED <<member, mode, present, last>>

UnlinkApp(a) ==
    /\ AppsOf(a) # {a}
    /\ team' = Split({a})
    /\ NoChange
    /\ UNCHANGED <<member, mode, present, last>>

\* /forget: a leaves the group, and every other app the person.
ForgetApp(a) ==
    /\ team' = Split(AppsOf(a))
    /\ member' = member \ {a}
    /\ NoChange
    /\ UNCHANGED <<mode, present, last>>

\* /room kick and /room ban of one app in the group room.
RoomRemove(a) ==
    /\ a \in present \cup member
    /\ member' = member \ {a}
    /\ present' = present \ {a}
    /\ NoChange
    /\ UNCHANGED <<team, mode, last>>

\* A hub kick or ban of the whole person: removeEverywhere.
RemovePerson(a) ==
    /\ team' = Split(AppsOf(a))
    /\ member' = member \ AppsOf(a)
    /\ present' = present \ AppsOf(a)
    /\ NoChange
    /\ UNCHANGED <<mode, last>>

\* Presence is lost with the process.
Restart ==
    /\ present # {}
    /\ present' = {}
    /\ NoChange
    /\ UNCHANGED <<team, member, mode, last>>

Unwatched ==
    \/ Post \/ Restart
    \/ \E a \in Apps :
        \/ JoinGroup(a) \/ LeaveGroup(a) \/ UnlinkApp(a) \/ ForgetApp(a)
        \/ RoomRemove(a) \/ RemovePerson(a)
        \/ \E b \in Apps : LinkApp(a, b)
----------------------------------------------------------------------------
(* History *)

Begins(a) == ~Paused(a) /\ Paused(a)'
Ends(a) == Paused(a) /\ ~Paused(a)'

\* What a resume tells an app whose pause was never recorded is left open.
NextWatched ==
    /\ Watched
    /\ recorded' = (recorded \ {a \in Apps : Ends(a)}) \cup {a \in member : Begins(a)}
    /\ missed' = [a \in Apps |-> IF a \in recorded \cap recorded' THEN missed[a] ELSE 0]
    /\ due' = [a \in Apps |-> IF ~Ends(a) THEN 0 ELSE IF a \in recorded THEN missed[a] ELSE note'[a]]

NextUnwatched ==
    /\ Unwatched
    /\ recorded' = (recorded \cap member') \ {a \in Apps : Ends(a)}
    /\ missed' = [a \in Apps |-> IF a \in recorded' THEN missed[a] + (last' - last) ELSE 0]
    /\ due' = NoNote

Next == NextWatched \/ NextUnwatched

Spec == Init /\ [][Next]_vars
----------------------------------------------------------------------------
(* Properties *)

PauseTypeOK ==
    /\ member \subseteq Apps /\ present \subseteq Apps /\ recorded \subseteq Apps
    /\ mode \in [Apps -> {"on", "off", "auto"}]
    /\ last \in Nat
    /\ cursor \in [Apps -> Nat \cup {NoCursor}]
    /\ note \in [Apps -> Int] /\ due \in [Apps -> Int]
    /\ missed \in [Apps -> Int]

\* While an app is paused, and its pause began with a join or a setting, its
\* cursor stays where the pause began, whatever other apps of the person join,
\* part, are linked, unlinked or kicked and however the hub restarts: what is
\* after it is what was missed (lxmfPauseChanged, autoPauseChanged).
PausePointKept ==
    \A a \in recorded : a \in member /\ Paused(a) /\ cursor[a] = last - missed[a]

\* When such a pause ends by a part or a setting, the app is told the number of
\* messages said in the meantime, and no app is told so whose pause goes on.
NoteIsExact == note = due
=============================================================================
