--------------------------- MODULE CatchUpProofs ---------------------------
(***************************************************************************)
(* Proofs about CatchUp, for every set of identities, every value of the   *)
(* replay limits and every bound; and the first half of those about        *)
(* RrcRoom, for any links and queue lengths: that the room behind the RRC  *)
(* server is still the room CatchUp describes, the invariant RoomInv, and  *)
(* why a step keeps its types, the order of the event queue, the shape of  *)
(* the sessions and the hub's count of links.                              *)
(***************************************************************************)
EXTENDS RrcRoom, FiniteSetTheorems, WellFoundedInduction, TLAPS

-----------------------------------------------------------------------------
(* max(id), and the latest n. *)

\* Below is a relation the library shows to be well founded.
Below == {p \in Nat \X Nat : p[1] < p[2]}

\* A set of IDs that is not empty has a largest one.
LEMMA HasLargest ==
    ASSUME NEW S, S \subseteq Ids, S # {}
    PROVE  \E i \in S : \A j \in S : j <= i
<1> DEFINE T == {MaxPosts - i : i \in S}
<1>1. T \subseteq Nat /\ T # {}
  <2>1. \A i \in S : MaxPosts - i \in Nat
    BY CatchUpConstants DEF Ids
  <2> QED BY <2>1, Zenon
<1>2. OpToRel(<, Nat) = Below
  BY DEF OpToRel, Below
<1>3. IsWellFoundedOn(Below, Nat)
  BY <1>2, NatLessThanWellFounded, Zenon
<1>4. PICK x \in T : \A y \in T : <<y, x>> \notin Below
  <2> HIDE DEF T
  <2> QED BY <1>1, <1>3, WFMin, Zenon
<1>5. PICK i \in S : x = MaxPosts - i
  BY <1>4
<1>6. ASSUME NEW j \in S PROVE j <= i
  <2>1. MaxPosts - j \in T
    OBVIOUS
  <2>2. <<MaxPosts - j, MaxPosts - i>> \notin Below
    BY <1>4, <1>5, <2>1
  <2>3. ~(MaxPosts - j < MaxPosts - i)
    BY <1>1, <1>5, <2>1, <2>2 DEF Below
  <2> QED BY <2>3, CatchUpConstants DEF Ids
<1> QED BY <1>6

\* LastMessageID is the ID of a message of the room, above all others, or 0.
LEMMA LargestIs ==
    ASSUME NEW S, S \subseteq Ids
    PROVE  /\ Largest(S) \in S \cup {0}
           /\ Largest(S) \in Int
           /\ \A j \in S : j <= Largest(S)
<1>1. CASE S = {}
  BY <1>1 DEF Largest
<1>2. CASE S # {}
  <2> DEFINE IsLargest(i) == \A j \in S : j <= i
  <2>1. \E i \in S : IsLargest(i)
    BY <1>2, HasLargest
  <2>2. Largest(S) = CHOOSE i \in S : IsLargest(i)
    BY <1>2 DEF Largest
  <2>3. Largest(S) \in S /\ IsLargest(Largest(S))
    <3> HIDE DEF IsLargest
    <3> QED BY <2>1, <2>2, Zenon
  <2>4. S \subseteq Int
    BY CatchUpConstants DEF Ids
  <2> QED BY <2>3, <2>4, Zenon
<1> QED BY <1>1, <1>2

\* When more than n messages come after c, the latest n all come after it.
LEMMA LatestAreAfter ==
    ASSUME NEW S, S \subseteq Ids, NEW c \in Int, NEW n \in Nat,
           Cardinality({i \in S : i > c}) > n
    PROVE  LatestOf(S, n) \subseteq {i \in S : i > c}
<1> SUFFICES ASSUME NEW i \in LatestOf(S, n), ~(i > c) PROVE FALSE
  BY DEF LatestOf
<1> DEFINE A == {j \in S : j > c}
<1> DEFINE B == {j \in S : j > i}
<1>1. A \subseteq B
  <2>1. i \in S
    BY DEF LatestOf
  <2>2. S \subseteq Int
    BY CatchUpConstants DEF Ids
  <2>3. ASSUME NEW j \in S, j > c PROVE j > i
    BY <2>1, <2>2, <2>3
  <2> QED BY <2>3
<1>2. IsFiniteSet(Ids)
  BY CatchUpConstants, FS_Interval DEF Ids
<1>3. IsFiniteSet(B) /\ IsFiniteSet(A)
  BY <1>2, FS_Subset
<1>4. Cardinality(A) <= Cardinality(B)
  BY <1>1, <1>3, FS_Subset
<1>5. Cardinality(A) \in Nat /\ Cardinality(B) \in Nat
  BY <1>3, FS_CardinalityType
<1>6. Cardinality(B) < n
  BY DEF LatestOf
<1> QED BY <1>4, <1>5, <1>6

-----------------------------------------------------------------------------
(* The inductive invariant, in named parts. *)

\* What is stored was posted, under the ID it was given.
StoredOK ==
    /\ \A i \in Ids : message[i] # NoBody => message[i] <= posts /\ given[message[i]] = i
    /\ here \subseteq 1..posts
    /\ \A b \in 1..posts : given[b] \in Ids
    /\ \A id \in Identities : leftAt[id] <= posts

\* Until an ID is given twice, IDs count the posts.
InOrder == ~Reused => \A b \in 1..posts : given[b] = b

\* No cursor is ahead of what was posted while its identity was in the room...
CursorBound ==
    ~Reused => \A id \in Identities :
        cursor[id] <= IF Present(id) THEN posts ELSE leftAt[id]

\* ...nor behind it, if the identity left in order.
CursorReach ==
    ~Reused => \A id \in Identities \ abrupt : ~Present(id) /\ cursor[id] # NoCursor =>
        \A i \in RoomIds : message[i] <= leftAt[id] => i <= cursor[id]

Inv == TypeOK /\ StoredOK /\ InOrder /\ CursorBound /\ CursorReach

\* The IDs of the room's messages are IDs, so LastMessageID is above them all.
LEMMA LastIs ==
    /\ LastMessageID \in RoomIds \cup {0}
    /\ LastMessageID \in Ids \cup {0}
    /\ \A i \in RoomIds : i <= LastMessageID
<1>1. RoomIds \subseteq Ids
  BY DEF RoomIds
<1> QED BY <1>1, LargestIs DEF LastMessageID

\* While the IDs count the posts, no message's ID is above their number.
LEMMA LastIsPosted ==
    ASSUME TypeOK, StoredOK, InOrder, ~Reused
    PROVE  LastMessageID <= posts
<1>1. CASE LastMessageID = 0
  BY <1>1 DEF TypeOK
<1>2. CASE LastMessageID \in RoomIds
  <2> DEFINE i == LastMessageID
  <2>1. i \in Ids /\ message[i] \in here
    BY <1>2 DEF RoomIds, InRoom
  <2>2. message[i] \in 1..posts /\ message[i] # NoBody
    BY <2>1, CatchUpConstants DEF StoredOK, TypeOK, NoBody, Bodies
  <2>3. given[message[i]] = i
    BY <2>1, <2>2 DEF StoredOK
  <2>4. given[message[i]] = message[i]
    BY <2>2 DEF InOrder
  <2> QED BY <2>2, <2>3, <2>4, CatchUpConstants DEF TypeOK
<1> QED BY <1>1, <1>2, LastIs

\* SetCursor gives the larger of the two, and touches no other cursor.
LEMMA SetCursorIs ==
    ASSUME TypeOK, NEW id \in Identities, NEW last \in Ids \cup {0}
    PROVE  /\ SetCursor(id, last) \in [Identities -> Ids \cup {0, NoCursor}]
           /\ SetCursor(id, last)[id] \in {cursor[id], last}
           /\ SetCursor(id, last)[id] >= cursor[id] /\ SetCursor(id, last)[id] >= last
           /\ \A other \in Identities \ {id} : SetCursor(id, last)[other] = cursor[other]
<1>1. cursor[id] \in Int /\ last \in Int /\ cursor[id] \in Ids \cup {0, NoCursor}
  BY CatchUpConstants DEF TypeOK, Ids, NoCursor
<1>2. cursor \in [Identities -> Ids \cup {0, NoCursor}]
  BY DEF TypeOK
<1> QED BY <1>1, <1>2 DEF SetCursor

\* saveAllCursors moves the cursors of those present to LastMessageID.
LEMMA AllSavedIs ==
    ASSUME TypeOK
    PROVE  /\ AllCursorsSaved \in [Identities -> Ids \cup {0, NoCursor}]
           /\ \A id \in Identities :
                /\ ~Present(id) => AllCursorsSaved[id] = cursor[id]
                /\ Present(id) => AllCursorsSaved[id] = SetCursor(id, LastMessageID)[id]
<1>1. ASSUME NEW id \in Identities
      PROVE  SetCursor(id, LastMessageID)[id] \in Ids \cup {0, NoCursor}
  BY SetCursorIs, LastIs
<1>2. \A id \in Identities : cursor[id] \in Ids \cup {0, NoCursor}
  BY DEF TypeOK
<1> QED BY <1>1, <1>2 DEF AllCursorsSaved

-----------------------------------------------------------------------------
(* Every request keeps the parts of the invariant. *)

\* The invariant holds in an empty room.
LEMMA InitInv == Init => Inv
<1> SUFFICES ASSUME Init PROVE Inv
  OBVIOUS
<1>1. TypeOK
  BY CatchUpConstants DEF Init, TypeOK, Ids, Bodies, NoBody, NoCursor
<1>2. StoredOK
  BY CatchUpConstants DEF Init, StoredOK, Ids, NoBody
<1>3. InOrder
  BY DEF Init, InOrder
<1>4. CursorBound
  BY DEF Init, CursorBound, Present, NoCursor
<1>5. CursorReach
  BY DEF Init, CursorReach
<1> QED BY <1>1, <1>2, <1>3, <1>4, <1>5 DEF Inv

\* Every request keeps the types: SetCursor is only given an ID or 0, and
\* part counts a link out only if one is in.
LEMMA TypeStep ==
    ASSUME TypeOK, [Next]_catchUpVars
    PROVE  TypeOK'
<1>1. CASE UNCHANGED catchUpVars
  BY <1>1 DEF TypeOK, catchUpVars
<1>2. ASSUME NEW i \in Ids, NEW toHere \in BOOLEAN, Post(i, toHere) PROVE TypeOK'
  <2>1. posts + 1 \in Bodies /\ posts + 1 \in 0..MaxPosts
    BY <1>2, CatchUpConstants DEF Post, TypeOK, Bodies
  <2>2. message' \in [Ids -> Bodies \cup {NoBody}] /\ given' \in [Bodies -> Ids \cup {0}]
    BY <1>2, <2>1 DEF Post, TypeOK
  <2>3. here' \subseteq Bodies
    BY <1>2, <2>1 DEF Post, TypeOK
  <2> QED BY <1>2, <2>1, <2>2, <2>3 DEF Post, TypeOK
<1>3. ASSUME NEW id \in Identities, Join(id) PROVE TypeOK'
  <2>1. cursor' \in [Identities -> Ids \cup {0, NoCursor}]
    BY <1>3, SetCursorIs, LastIs DEF Join, TypeOK
  <2>2. links' \in [Identities -> 0..MaxLinks]
    BY <1>3, CatchUpConstants DEF Join, TypeOK
  <2> QED BY <1>3, <2>1, <2>2 DEF Join, TypeOK, histVars
<1>4. ASSUME NEW id \in Identities, Part(id) PROVE TypeOK'
  <2>1. CASE ~Present(id)
    BY <1>4, <2>1 DEF Part, TypeOK, catchUpVars
  <2>2. CASE Present(id)
    <3>1. cursor' \in [Identities -> Ids \cup {0, NoCursor}]
      BY <1>4, <2>2, SetCursorIs, LastIs DEF Part, TypeOK
    <3>2. links' \in [Identities -> 0..MaxLinks]
      BY <1>4, <2>2, CatchUpConstants DEF Part, TypeOK, Present
    <3>3. leftAt' \in [Identities -> 0..MaxPosts] /\ abrupt' \subseteq Identities
      BY <1>4, <2>2 DEF Part, TypeOK
    <3> QED BY <1>4, <2>2, <3>1, <3>2, <3>3, Zenon DEF Part, TypeOK
  <2> QED BY <2>1, <2>2
<1>5. ASSUME NEW id \in Identities, Kick(id) PROVE TypeOK'
  <2>1. links' \in [Identities -> 0..MaxLinks] /\ changes' \in 0..MaxChanges
    BY <1>5, CatchUpConstants DEF Kick, TypeOK
  <2> QED BY <1>5, <2>1 DEF Kick, TypeOK
<1>6. ASSUME NEW ids \in SUBSET Ids, DeleteMessages(ids) PROVE TypeOK'
  <2>1. message' \in [Ids -> Bodies \cup {NoBody}] /\ changes' \in 0..MaxChanges
    BY <1>6, CatchUpConstants DEF DeleteMessages, TypeOK
  <2> QED BY <1>6, <2>1 DEF DeleteMessages, TypeOK, histVars
<1>7. ASSUME NEW cutoff \in 0..MaxPosts, Maintain(cutoff) PROVE TypeOK'
  <2>1. message' \in [Ids -> Bodies \cup {NoBody}] /\ changes' \in 0..MaxChanges
    BY <1>7, CatchUpConstants DEF Maintain, TypeOK
  <2>2. cursor' \in [Identities -> Ids \cup {0, NoCursor}]
    BY <1>7, AllSavedIs DEF Maintain, TypeOK
  <2> QED BY <1>7, <2>1, <2>2 DEF Maintain, TypeOK, histVars
<1>8. CASE Crash
  <2>1. links' \in [Identities -> 0..MaxLinks] /\ faults' \in 0..MaxFaults
    BY <1>8, CatchUpConstants DEF Crash, Gone, TypeOK
  <2>2. leftAt' \in [Identities -> 0..MaxPosts] /\ abrupt' \subseteq Identities
    BY <1>8 DEF Crash, Gone, TypeOK
  <2> QED BY <1>8, <2>1, <2>2 DEF Crash, TypeOK
<1>9. CASE Restart
  <2>1. links' \in [Identities -> 0..MaxLinks] /\ faults' \in 0..MaxFaults
    BY <1>9, CatchUpConstants DEF Restart, Gone, TypeOK
  <2>2. leftAt' \in [Identities -> 0..MaxPosts] /\ abrupt' \subseteq Identities
    BY <1>9 DEF Restart, Gone, TypeOK
  <2>3. cursor' \in [Identities -> Ids \cup {0, NoCursor}]
    BY <1>9, AllSavedIs DEF Restart
  <2> QED BY <1>9, <2>1, <2>2, <2>3 DEF Restart, TypeOK
<1> QED BY <1>1, <1>2, <1>3, <1>4, <1>5, <1>6, <1>7, <1>8, <1>9, Zenon DEF Next

\* What a request other than a post may do to the messages...
MessagesOnlyGo ==
    /\ posts' = posts /\ given' = given /\ here' = here
    /\ \A i \in Ids : message'[i] \in {message[i], NoBody}

\* ...and to an identity: it stays away, is in the room after it, or leaves.
StaysAway(id) ==
    /\ ~Present(id) /\ ~Present(id)'
    /\ cursor'[id] = cursor[id] /\ leftAt'[id] = leftAt[id]
    /\ id \in abrupt' <=> id \in abrupt
IsIn(id) ==
    /\ Present(id)' /\ leftAt'[id] = leftAt[id]
    /\ cursor'[id] \in {cursor[id], LastMessageID}
Leaves(id) ==
    /\ Present(id) /\ ~Present(id)' /\ leftAt'[id] = posts
    /\ cursor'[id] \in {cursor[id], LastMessageID}
    /\ id \in abrupt' \/ cursor'[id] >= LastMessageID

IsPost == \E i \in Ids, toHere \in BOOLEAN : Post(i, toHere)

\* The requests other than post are all of these kinds: join and part, a
\* kick, a deletion, maintenance, a crash and a restart.
LEMMA RequestIs ==
    ASSUME TypeOK, [Next]_catchUpVars, ~IsPost
    PROVE  MessagesOnlyGo /\ \A id \in Identities : StaysAway(id) \/ IsIn(id) \/ Leaves(id)
<1> DEFINE Goal == MessagesOnlyGo /\ \A id \in Identities : StaysAway(id) \/ IsIn(id) \/ Leaves(id)
<1>1. CASE UNCHANGED catchUpVars
  BY <1>1 DEF catchUpVars, MessagesOnlyGo, StaysAway, IsIn, Present
<1>2. ASSUME NEW me \in Identities, Join(me) PROVE Goal
  <2>1. MessagesOnlyGo
    BY <1>2 DEF Join, histVars, MessagesOnlyGo
  <2>2. IsIn(me)
    <3>1. Present(me)'
      BY <1>2 DEF Join, Present, TypeOK
    <3>2. cursor'[me] \in {cursor[me], LastMessageID}
      BY <1>2, SetCursorIs, LastIs DEF Join
    <3> QED BY <1>2, <3>1, <3>2 DEF Join, histVars, IsIn
  <2>3. ASSUME NEW id \in Identities \ {me} PROVE StaysAway(id) \/ IsIn(id)
    <3>1. cursor'[id] = cursor[id]
      BY <1>2, SetCursorIs, LastIs DEF Join
    <3> QED BY <1>2, <3>1 DEF Join, histVars, Present, StaysAway, IsIn, TypeOK
  <2> QED BY <2>1, <2>2, <2>3
<1>3. ASSUME NEW me \in Identities, Part(me) PROVE Goal
  <2>1. CASE ~Present(me)
    BY <1>1, <1>3, <2>1 DEF Part
  <2>2. CASE Present(me)
    <3>1. MessagesOnlyGo
      BY <1>3, <2>2 DEF Part, MessagesOnlyGo
    <3>2. ASSUME NEW id \in Identities \ {me} PROVE StaysAway(id) \/ IsIn(id)
      <4>1. cursor'[id] = cursor[id]
        BY <1>3, <2>2, SetCursorIs, LastIs DEF Part
      <4>2. leftAt'[id] = leftAt[id] /\ links'[id] = links[id]
        BY <1>3, <2>2 DEF Part, TypeOK
      <4>3. id \in abrupt' <=> id \in abrupt
        BY <1>3, <2>2 DEF Part
      <4> QED BY <4>1, <4>2, <4>3 DEF Present, StaysAway, IsIn
    <3>3. CASE links[me] = 1
      <4>1. ~Present(me)' /\ leftAt'[me] = posts
        BY <1>3, <2>2, <3>3 DEF Part, Present, TypeOK
      <4>2. cursor'[me] \in {cursor[me], LastMessageID} /\ cursor'[me] >= LastMessageID
        BY <1>3, <2>2, <3>3, SetCursorIs, LastIs, Zenon DEF Part
      <4> QED BY <2>2, <4>1, <4>2, <3>1, <3>2 DEF Leaves
    <3>4. CASE links[me] # 1
      <4>1. Present(me)' /\ leftAt'[me] = leftAt[me] /\ cursor'[me] = cursor[me]
        BY <1>3, <2>2, <3>4, CatchUpConstants DEF Part, Present, TypeOK
      <4> QED BY <4>1, <3>1, <3>2 DEF IsIn
    <3> QED BY <3>3, <3>4
  <2> QED BY <2>1, <2>2
<1>4. ASSUME NEW me \in Identities, Kick(me) PROVE Goal
  <2>1. MessagesOnlyGo
    BY <1>4 DEF Kick, MessagesOnlyGo
  <2>2. Leaves(me)
    BY <1>4 DEF Kick, Present, Leaves, TypeOK
  <2>3. ASSUME NEW id \in Identities \ {me} PROVE StaysAway(id) \/ IsIn(id)
    BY <1>4 DEF Kick, Present, StaysAway, IsIn, TypeOK
  <2> QED BY <2>1, <2>2, <2>3
<1>5. ASSUME NEW ids \in SUBSET Ids, DeleteMessages(ids) PROVE Goal
  <2>1. MessagesOnlyGo
    BY <1>5, Zenon DEF DeleteMessages, histVars, MessagesOnlyGo
  <2>2. ASSUME NEW id \in Identities PROVE StaysAway(id) \/ IsIn(id)
    BY <1>5 DEF DeleteMessages, histVars, Present, StaysAway, IsIn
  <2> QED BY <2>1, <2>2
<1>6. ASSUME NEW cutoff \in 0..MaxPosts, Maintain(cutoff) PROVE Goal
  <2>1. MessagesOnlyGo
    BY <1>6 DEF Maintain, histVars, MessagesOnlyGo
  <2>2. ASSUME NEW id \in Identities PROVE StaysAway(id) \/ IsIn(id)
    <3>1. IF Present(id) THEN cursor'[id] \in {cursor[id], LastMessageID} ELSE cursor'[id] = cursor[id]
      BY <1>6, AllSavedIs, SetCursorIs, LastIs DEF Maintain
    <3> QED BY <1>6, <3>1 DEF Maintain, histVars, Present, StaysAway, IsIn
  <2> QED BY <2>1, <2>2
<1>7. CASE Crash
  <2>1. MessagesOnlyGo
    BY <1>7, Zenon DEF Crash, Gone, MessagesOnlyGo
  <2>2. ASSUME NEW id \in Identities PROVE StaysAway(id) \/ Leaves(id)
    BY <1>7 DEF Crash, Gone, Present, StaysAway, Leaves
  <2> QED BY <2>1, <2>2
<1>8. CASE Restart
  <2>1. MessagesOnlyGo
    BY <1>8 DEF Restart, Gone, MessagesOnlyGo
  <2>2. ASSUME NEW id \in Identities PROVE StaysAway(id) \/ Leaves(id)
    <3>1. CASE Present(id)
      <4>1. cursor'[id] \in {cursor[id], LastMessageID} /\ cursor'[id] >= LastMessageID
        BY <1>8, <3>1, AllSavedIs, SetCursorIs, LastIs, Zenon DEF Restart
      <4> QED BY <1>8, <3>1, <4>1 DEF Restart, Gone, Present, Leaves
    <3>2. CASE ~Present(id)
      <4>1. cursor'[id] = cursor[id]
        BY <1>8, <3>2, AllSavedIs DEF Restart
      <4> QED BY <1>8, <3>2, <4>1 DEF Restart, Gone, Present, StaysAway
    <3> QED BY <3>1, <3>2, Zenon
  <2> QED BY <2>1, <2>2
<1> QED BY <1>1, <1>2, <1>3, <1>4, <1>5, <1>6, <1>7, <1>8, Zenon DEF Next, IsPost

\* Until an ID is given twice none was, and none leaves the past as it was.
LEMMA ReusedStays ==
    ASSUME TypeOK, [Next]_catchUpVars, ~Reused'
    PROVE  ~Reused
<1>1. CASE IsPost
  <2>1. PICK i \in Ids, toHere \in BOOLEAN : Post(i, toHere)
    BY <1>1 DEF IsPost
  <2>2. \A b \in Bodies : b <= posts => given'[b] = given[b]
    BY <2>1 DEF Post, TypeOK, Bodies
  <2>3. posts' = posts + 1 /\ posts \in Int
    BY <2>1 DEF Post, TypeOK
  <2>4. ASSUME NEW b \in Bodies, NEW c \in Bodies, b < c, c <= posts, given[b] = given[c]
        PROVE  FALSE
    <3>1. b <= posts /\ c <= posts'
      BY <2>3, <2>4, CatchUpConstants DEF Bodies
    <3> QED BY <2>2, <2>4, <3>1 DEF Reused
  <2> QED BY <2>4 DEF Reused
<1>2. CASE ~IsPost
  BY <1>2, RequestIs DEF MessagesOnlyGo, Reused
<1> QED BY <1>1, <1>2

\* Post stores a message under the ID it gives; the others only take away.
LEMMA StoredStep ==
    ASSUME TypeOK, StoredOK, [Next]_catchUpVars
    PROVE  StoredOK'
<1>1. CASE IsPost
  <2>1. PICK i \in Ids, toHere \in BOOLEAN : Post(i, toHere)
    BY <1>1 DEF IsPost
  <2>2. posts' = posts + 1 /\ posts \in Nat /\ posts + 1 \in Bodies
    BY <2>1, CatchUpConstants DEF Post, TypeOK, Bodies
  <2>3. given' = [given EXCEPT ![posts + 1] = i] /\ given \in [Bodies -> Ids \cup {0}]
    BY <2>1 DEF Post, TypeOK
  <2>4. given'[posts + 1] = i /\ \A b \in 1..posts : given'[b] = given[b]
    <3>1. \A b \in 1..posts : b \in Bodies /\ b # posts + 1
      BY <2>2, CatchUpConstants DEF Bodies
    <3> QED BY <2>2, <2>3, <3>1
  <2>5. ASSUME NEW j \in Ids, message'[j] # NoBody
        PROVE  message'[j] <= posts' /\ given'[message'[j]] = j
    <3>1. CASE j = i
      <4>1. message'[j] = posts + 1
        BY <2>1, <3>1, Zenon DEF Post, TypeOK
      <4> QED BY <2>2, <2>4, <3>1, <4>1
    <3>2. CASE j # i
      <4>1. message'[j] = message[j]
        BY <2>1, <3>2 DEF Post, TypeOK
      <4>2. message[j] \in 1..posts /\ given[message[j]] = j
        BY <2>2, <2>5, <4>1, CatchUpConstants DEF StoredOK, TypeOK, NoBody, Bodies
      <4> QED BY <2>2, <2>4, <4>1, <4>2
    <3> QED BY <3>1, <3>2
  <2>6. here' \subseteq 1..posts'
    BY <2>1, <2>2 DEF Post, StoredOK
  <2>7. \A b \in 1..posts' : given'[b] \in Ids
    BY <2>2, <2>4 DEF StoredOK
  <2>8. \A id \in Identities : leftAt'[id] <= posts'
    BY <2>1, <2>2 DEF Post, StoredOK, TypeOK
  <2> QED BY <2>5, <2>6, <2>7, <2>8 DEF StoredOK
<1>2. CASE ~IsPost
  <2>1. MessagesOnlyGo
    BY <1>2, RequestIs, Zenon
  <2>2. \A id \in Identities : leftAt'[id] <= posts'
    BY <1>2, <2>1, RequestIs DEF MessagesOnlyGo, StaysAway, IsIn, Leaves, StoredOK, TypeOK
  <2>3. \A i \in Ids : message'[i] # NoBody => message'[i] = message[i]
    BY <2>1 DEF MessagesOnlyGo
  <2> QED BY <2>1, <2>2, <2>3 DEF MessagesOnlyGo, StoredOK
<1> QED BY <1>1, <1>2, Zenon

\* The number of the message that Post stores.
LEMMA NextBody ==
    ASSUME TypeOK, NEW i \in Ids, NEW toHere \in BOOLEAN, Post(i, toHere)
    PROVE  posts' = posts + 1 /\ posts \in Nat /\ posts + 1 \in Bodies /\ posts + 1 # NoBody
<1>1. posts < MaxPosts /\ posts' = posts + 1
  BY Zenon DEF Post
<1>2. posts \in 0..MaxPosts
  BY Zenon DEF TypeOK
<1> QED BY <1>1, <1>2, CatchUpConstants DEF Bodies, NoBody

\* A post gets the next ID, unless it gets one that was given before.
LEMMA PostIsNext ==
    ASSUME TypeOK, StoredOK, InOrder, ~Reused', ~Reused,
           NEW i \in Ids, NEW toHere \in BOOLEAN, Post(i, toHere)
    PROVE  i = posts + 1
<1>1. posts' = posts + 1 /\ posts \in Nat /\ posts + 1 \in Bodies
  BY NextBody, Zenon
<1>2. i > posts
  <2> SUFFICES ASSUME i <= posts PROVE FALSE
    BY <1>1, CatchUpConstants DEF Ids
  <2>1. i \in 1..posts /\ i \in Bodies /\ i < posts + 1
    BY <1>1, CatchUpConstants DEF Ids, Bodies
  <2>2. given[i] = i
    BY <2>1 DEF InOrder
  <2>3. given'[i] = i /\ given'[posts + 1] = i
    BY <1>1, <2>1, <2>2 DEF Post, TypeOK
  <2> QED BY <1>1, <2>1, <2>3 DEF Reused
<1>3. CASE i = 1
  BY <1>1, <1>2, <1>3
<1>4. CASE i > 1 /\ message[i - 1] # NoBody
  <2>1. i - 1 \in Ids
    BY <1>4, CatchUpConstants DEF Ids
  <2>2. message[i - 1] \in 1..posts /\ given[message[i - 1]] = i - 1
    BY <1>1, <1>4, <2>1, CatchUpConstants DEF StoredOK, TypeOK, NoBody, Bodies
  <2>3. message[i - 1] = i - 1
    BY <2>2 DEF InOrder
  <2> QED BY <1>1, <1>2, <2>2, <2>3, CatchUpConstants DEF Ids
<1> QED BY <1>3, <1>4, Zenon DEF Post, IsNextId

\* max(id) + 1 counts the posts for as long as it repeats no ID.
LEMMA InOrderStep ==
    ASSUME TypeOK, StoredOK, InOrder, [Next]_catchUpVars
    PROVE  InOrder'
<1> SUFFICES ASSUME ~Reused' PROVE (\A b \in 1..posts : given[b] = b)'
  BY DEF InOrder
<1>0. ~Reused
  BY ReusedStays
<1>1. CASE IsPost
  <2>1. PICK i \in Ids, toHere \in BOOLEAN : Post(i, toHere)
    BY <1>1 DEF IsPost
  <2>2. i = posts + 1
    BY <1>0, <2>1, PostIsNext
  <2>3. posts' = posts + 1 /\ posts \in Nat /\ posts + 1 \in Bodies
    BY <2>1, CatchUpConstants DEF Post, TypeOK, Bodies
  <2>4. ASSUME NEW b \in 1..posts + 1 PROVE given'[b] = b
    BY <1>0, <2>1, <2>2, <2>3, CatchUpConstants DEF Post, InOrder, TypeOK, Bodies
  <2> QED BY <2>3, <2>4
<1>2. CASE ~IsPost
  BY <1>0, <1>2, RequestIs DEF MessagesOnlyGo, InOrder
<1> QED BY <1>1, <1>2

\* Cursors are set to LastMessageID only for those in the room or leaving it,
\* so none runs ahead of what was said there before its identity left.
LEMMA CursorBoundStep ==
    ASSUME TypeOK, StoredOK, InOrder, CursorBound, [Next]_catchUpVars
    PROVE  CursorBound'
<1> SUFFICES ASSUME ~Reused', NEW id \in Identities
             PROVE  cursor'[id] <= IF Present(id)' THEN posts' ELSE leftAt'[id]
  BY DEF CursorBound, Present
<1>0. ~Reused
  BY ReusedStays
<1>t. cursor[id] \in Int /\ posts \in Int /\ leftAt[id] \in Int /\ leftAt[id] <= posts
  BY CatchUpConstants DEF TypeOK, StoredOK, Ids, NoCursor
<1>b. cursor[id] <= posts /\ (~Present(id) => cursor[id] <= leftAt[id])
  BY <1>0, <1>t DEF CursorBound
<1>1. CASE IsPost
  <2>1. PICK i \in Ids, toHere \in BOOLEAN : Post(i, toHere)
    BY <1>1, Zenon DEF IsPost
  <2> QED BY <1>t, <1>b, <2>1 DEF Post, Present
<1>2. CASE ~IsPost
  <2>1. posts' = posts
    BY <1>2, RequestIs DEF MessagesOnlyGo
  <2>2. LastMessageID <= posts
    BY <1>0, LastIsPosted
  <2>3. StaysAway(id) \/ IsIn(id) \/ Leaves(id)
    BY <1>2, RequestIs
  <2> QED BY <1>b, <2>1, <2>2, <2>3, Zenon DEF StaysAway, IsIn, Leaves
<1> QED BY <1>1, <1>2

\* Leaving in order sets the cursor to LastMessageID, above all the room has.
LEMMA CursorReachStep ==
    ASSUME TypeOK, StoredOK, InOrder, CursorReach, [Next]_catchUpVars
    PROVE  CursorReach'
<1> SUFFICES ASSUME ~Reused', NEW id \in Identities, id \notin abrupt', ~Present(id)',
                    cursor'[id] # NoCursor,
                    NEW i \in Ids, message'[i] \in here', message'[i] <= leftAt'[id]
             PROVE  i <= cursor'[id]
  BY DEF CursorReach, RoomIds, InRoom, NoCursor
<1>0. ~Reused
  BY ReusedStays, Zenon
<1>1. CASE IsPost
  <2>1. PICK n \in Ids, toHere \in BOOLEAN : Post(n, toHere)
    BY <1>1, Zenon DEF IsPost
  <2>2. posts \in Int /\ leftAt[id] \in Int /\ leftAt[id] <= posts
    BY DEF TypeOK, StoredOK
  <2>3. leftAt' = leftAt /\ cursor' = cursor /\ abrupt' = abrupt /\ ~Present(id)
    BY <2>1, Zenon DEF Post, Present
  <2>4. i # n
    BY <2>1, <2>2, <2>3 DEF Post, TypeOK
  <2>5. message'[i] = message[i]
    BY <2>1, <2>4, Zenon DEF Post, TypeOK
  <2>6. message[i] \in here
    BY <2>1, <2>2, <2>3, <2>5 DEF Post
  <2> QED BY <1>0, <2>3, <2>5, <2>6 DEF CursorReach, RoomIds, InRoom
<1>2. CASE ~IsPost
  <2>1. MessagesOnlyGo
    BY <1>2, RequestIs, Zenon
  <2>2. message[i] \in here /\ message'[i] = message[i]
    BY <2>1 DEF MessagesOnlyGo, TypeOK, NoBody, Bodies
  <2>3. i \in RoomIds
    BY <2>2, Zenon DEF RoomIds, InRoom
  <2>4. CASE StaysAway(id)
    BY <1>0, <2>2, <2>3, <2>4, Zenon DEF StaysAway, CursorReach
  <2>5. CASE Leaves(id)
    <3>1. cursor'[id] >= LastMessageID /\ cursor'[id] \in Int
      BY <2>5, LastIs, CatchUpConstants DEF Leaves, TypeOK, Ids, NoCursor
    <3>2. i <= LastMessageID /\ i \in Int /\ LastMessageID \in Int
      BY <2>3, LastIs, CatchUpConstants DEF Ids
    <3> QED BY <3>1, <3>2
  <2>6. ~IsIn(id)
    BY DEF IsIn
  <2> QED BY <1>2, <2>4, <2>5, <2>6, RequestIs, Zenon
<1> QED BY <1>1, <1>2

\* The invariant holds in every behaviour of the room.
THEOREM Invariance == Spec => []Inv
<1>1. Inv /\ [Next]_catchUpVars => Inv'
  BY TypeStep, StoredStep, InOrderStep, CursorBoundStep, CursorReachStep DEF Inv
<1> QED BY InitInv, <1>1, PTL DEF Spec

-----------------------------------------------------------------------------
(* The properties. *)

\* The state of the room is always of its type: a link count never goes
\* below zero or a cursor above the IDs there can be.
THEOREM TypeCorrect == Spec => []TypeOK
<1>1. Inv => TypeOK
  BY DEF Inv
<1> QED BY Invariance, <1>1, PTL

\* Someone who comes back is replayed all they missed that is still stored,
\* or the latest ReplayMax of it, after any sequence of requests, kicks,
\* crashes and restarts in which no ID was given twice.
THEOREM NothingMissed == Spec => []MissedIsReplayed
<1>1. ASSUME Inv PROVE MissedIsReplayed
  <2> SUFFICES ASSUME ~Reused, NEW id \in Identities, ~Present(id), cursor[id] # NoCursor,
                      ~(Cardinality(MessagesAfter(cursor[id])) > ReplayMax),
                      NEW i \in Missed(id)
               PROVE  i \in Replay(id)
    BY DEF MissedIsReplayed
  <2>1. i \in RoomIds /\ i \in Ids /\ message[i] \in here /\ message[i] > leftAt[id]
    BY Zenon DEF Missed, RoomIds, InRoom
  <2>2. message[i] # NoBody /\ message[i] \in 1..posts
    BY <1>1, <2>1 DEF Inv, TypeOK, StoredOK, NoBody, Bodies
  <2>3. message[i] = i
    BY <1>1, <2>1, <2>2, Zenon DEF Inv, StoredOK, InOrder
  <2>4. cursor[id] <= leftAt[id]
    BY <1>1 DEF Inv, CursorBound
  <2>5. cursor[id] \in Int /\ leftAt[id] \in Int /\ i \in Int
    BY <1>1, <2>1, CatchUpConstants DEF Inv, TypeOK, Ids, NoCursor
  <2>6. i \in MessagesAfter(cursor[id])
    BY <2>1, <2>3, <2>4, <2>5 DEF MessagesAfter
  <2> QED BY <2>6 DEF Replay
<1> QED BY Invariance, <1>1, PTL

\* And, unless a kick or a crash put them out, nothing they had seen.
THEOREM NothingRepeated == Spec => []OnlyMissedIsReplayed
<1>1. ASSUME Inv PROVE OnlyMissedIsReplayed
  <2> SUFFICES ASSUME ~Reused, NEW id \in Identities \ abrupt, ~Present(id),
                      cursor[id] # NoCursor, NEW i \in Replay(id)
               PROVE  i \in Missed(id)
    BY DEF OnlyMissedIsReplayed
  <2>1. RoomIds \subseteq Ids /\ cursor[id] \in Int /\ ReplayMax \in Nat
    BY <1>1, CatchUpConstants DEF Inv, TypeOK, RoomIds, Ids, NoCursor
  <2>2. MessagesAfter(cursor[id]) = {j \in RoomIds : j > cursor[id]}
    BY DEF MessagesAfter
  <2>3. i \in RoomIds /\ i > cursor[id]
    BY <2>1, <2>2, LatestAreAfter DEF Replay
  <2>6. ~(i <= cursor[id])
    BY <2>1, <2>3, CatchUpConstants DEF Ids
  <2>4. ~(message[i] <= leftAt[id])
    BY <1>1, <2>3, <2>6, Zenon DEF Inv, CursorReach
  <2>5. message[i] \in Int /\ leftAt[id] \in Int
    BY <1>1, <2>1, <2>3, CatchUpConstants DEF Inv, TypeOK, Bodies, NoBody
  <2> QED BY <2>3, <2>4, <2>5 DEF Missed
<1> QED BY Invariance, <1>1, PTL

\* A cursor never moves back, whoever sets it and in whatever order.
THEOREM CursorsAdvance == Spec => CursorsOnlyAdvance
<1>1. ASSUME TypeOK, [Next]_catchUpVars PROVE \A id \in Identities : cursor'[id] >= cursor[id]
  <2> SUFFICES ASSUME NEW id \in Identities PROVE cursor'[id] >= cursor[id]
    OBVIOUS
  <2>t. cursor[id] \in Int
    BY <1>1, CatchUpConstants DEF TypeOK, Ids, NoCursor
  <2>s. \A me \in Identities : SetCursor(me, LastMessageID)[id] >= cursor[id]
    BY <1>1, <2>t, SetCursorIs, LastIs
  <2>a. AllCursorsSaved[id] >= cursor[id]
    BY <1>1, <2>t, <2>s, AllSavedIs
  <2>1. CASE UNCHANGED cursor
    BY <2>1, <2>t
  <2>2. ASSUME NEW me \in Identities, Join(me) \/ Part(me) PROVE cursor'[id] >= cursor[id]
    BY <2>2, <2>t, <2>s DEF Join, Part, catchUpVars
  <2>3. ASSUME Restart \/ \E cutoff \in 0..MaxPosts : Maintain(cutoff) PROVE cursor'[id] >= cursor[id]
    BY <2>3, <2>a, <2>t DEF Restart, Maintain
  <2> QED BY <1>1, <2>1, <2>2, <2>3, Zenon DEF Next, Post, Kick, DeleteMessages, Crash, catchUpVars
<1>2. TypeOK /\ [Next]_catchUpVars => [\A id \in Identities : cursor'[id] >= cursor[id]]_catchUpVars
  BY <1>1
<1> QED BY TypeCorrect, <1>2, PTL DEF Spec, CursorsOnlyAdvance
-----------------------------------------------------------------------------
(* The RRC server in front of the room: types, and the invariant. *)

Event == [kind : {"message", "removed"}, id : Ids \cup {0}, body : Bodies \cup {NoBody},
          who : Identities \cup {NoLink}]
Fan == [kind : {"none", "message", "removed"}, id : Ids \cup {0}, body : Bodies \cup {NoBody},
        who : Identities \cup {NoLink}, todo : SUBSET Links, to : Links \cup {NoLink}]
Session == [open : BOOLEAN, in : BOOLEAN, joining : BOOLEAN, held : Seq(Ids \X Bodies),
            pc : {"idle", "join", "replay", "flush", "leave"}, out : Seq(Bodies), seen : Ids \cup {0}]

RoomTypes ==
    /\ events \in Seq(Event) /\ fan \in Fan /\ session \in [Links -> Session]
    /\ got \in [Links -> Seq(Bodies)] /\ lost \in [Links -> SUBSET Bodies]
    /\ since \in [Links -> 0..MaxPosts]
    /\ dropped \subseteq Bodies \cup {NoBody} /\ kicked \in BOOLEAN
    /\ leaked \in [Identities -> Nat]

\* A message has an ID and a body; nobody is removed unless kicked.
EventOK(e) ==
    /\ e.kind = "message" => e.body # NoBody /\ e.id # 0
    /\ e.kind # "message" => e.body = NoBody
    /\ e.kind = "removed" => kicked

\* Messages leave the queue for the fan-out in the order of posting.
QueueOK ==
    /\ EventOK(fan) /\ (fan.to # NoLink => fan.kind = "message" /\ fan.to \notin fan.todo)
    /\ fan.body <= posts
    /\ \A n \in DOMAIN events : EventOK(events[n]) /\ events[n].body <= posts
    /\ \A n \in DOMAIN events : events[n].body # NoBody =>
           fan.body < events[n].body /\ \A m \in DOMAIN events : m < n => events[m].body < events[n].body

\* A session in the room is open and between handlers, or sends what was held;
\* a handler, but for that of a close, has an open session.
SessionShape(s) ==
    /\ s.in => s.open /\ s.pc \in {"idle", "flush"}
    /\ s.joining <=> s.pc \in {"join", "replay"}
    /\ s.pc \in {"join", "replay", "flush"} => s.open

Server == RoomTypes /\ QueueOK /\ \A l \in Links : SessionShape(session[l])

\* Whether a message may still come to a link as an event: it is yet to be posted,
\* in the queue, or with the fan-out, which has not come to the link...
Ahead(l) == l \in fan.todo \/ fan.to = l
Pending(l, b) ==
    b > posts \/ (\E n \in DOMAIN events : events[n].body = b) \/ (fan.body = b /\ Ahead(l))

\* ...after all that its session holds, which came in the same order.
InTurn(l) ==
    \A k \in DOMAIN session[l].held :
        /\ \A b \in Bodies : Pending(l, b) => session[l].held[k][2] < b
        /\ \A j \in DOMAIN session[l].held : j < k => session[l].held[j][2] < session[l].held[k][2]

\* Until an ID is given twice, a message's ID is its body, and what a session was
\* told it has seen was posted before its join.
EventIds ==
    /\ \A n \in DOMAIN events : events[n].kind = "message" => events[n].id = events[n].body
    /\ fan.kind = "message" => fan.id = fan.body
HeldIds(l) ==
    /\ \A k \in DOMAIN session[l].held : session[l].held[k][1] = session[l].held[k][2]
    /\ session[l].pc \in {"replay", "flush"} => session[l].seen <= since[l]
IdsAreBodies == ~Reused => EventIds /\ \A l \in Links : HeldIds(l)

\* How often a message has been handed to a link.
Twice(s, b) == \E m, n \in DOMAIN s : m < n /\ s[m] = b /\ s[n] = b
Thrice(s, b) == \E m, n, k \in DOMAIN s : m < n /\ n < k /\ s[m] = b /\ s[n] = b /\ s[k] = b
NoRepeats(s) == \A m, n \in DOMAIN s : s[m] = s[n] => m = n

\* Whether the event, and the replay, may still bring it.
InHeld(l, b) == \E k \in DOMAIN session[l].held : session[l].held[k][2] = b
EventToCome(l, b) == Pending(l, b) \/ InHeld(l, b)
ReplayToCome(l, b) == session[l].pc = "replay" /\ b \in Range(session[l].out)

\* Each of the two brings it once, and the replay nothing said after the join.
OnceEach(l, b) ==
    /\ ~Thrice(got[l], b)
    /\ Twice(got[l], b) => ~EventToCome(l, b) /\ ~ReplayToCome(l, b)
    /\ EventToCome(l, b) /\ ReplayToCome(l, b) => b \notin Range(got[l])
    /\ b > since[l] \/ session[l].pc = "join" =>
           /\ ~ReplayToCome(l, b) /\ ~Twice(got[l], b)
           /\ EventToCome(l, b) => b \notin Range(got[l])
SentOK(l) ==
    /\ session[l].pc = "replay" => NoRepeats(session[l].out)
    /\ \A b \in Bodies : OnceEach(l, b)

RoomInv ==
    /\ Inv /\ Server /\ PresenceCountsLinks /\ IdsAreBodies /\ NothingLost
    /\ \A l \in Links : InTurn(l) /\ SentOK(l)
-----------------------------------------------------------------------------
(* The room's part of a step. *)

\* A step of the RRC server is a request to the hub, or none.
LEMMA RoomStepIs ==
    ASSUME [RoomNext]_roomVars
    PROVE  [Next]_catchUpVars
<1>1. CASE HubSide
  <2>1. CASE SayHere
    BY <2>1, Zenon DEF SayHere, Next
  <2>2. CASE Elsewhere
    <3>1. ASSUME NEW i \in Ids, DeleteMessages({i}) PROVE Next
      <4>1. {i} \in SUBSET Ids
        OBVIOUS
      <4> QED BY <3>1, <4>1 DEF Next
    <3> QED BY <2>2, <3>1, Zenon DEF Elsewhere, Next
  <2>3. CASE \E id \in Identities : KickFrom(id)
    BY <2>3 DEF KickFrom, Next
  <2>4. CASE StopAndStart
    BY <2>4, Zenon DEF StopAndStart, Next
  <2> QED BY <1>1, <2>1, <2>2, <2>3, <2>4, Zenon DEF HubSide
<1>2. CASE FanOut
  BY <1>2, ZenonT(30) DEF FanOut, TakeEvent, FanSend, Offer, DropFromRoom
<1>3. ASSUME NEW l \in Links, Worker(l) \/ Client(l) PROVE [Next]_catchUpVars
  <2>1. OwnerOf[l] \in Identities
    BY RoomConstants, Zenon
  <2>2. CASE HubJoin(l) \/ HubPart(l)
    BY <2>1, <2>2, Zenon DEF HubJoin, HubPart, Next
  <2> QED BY <1>3, <2>2 DEF Worker, Client, JoinRefused, SendReplay, FinishJoin, Flush, HubPartFails,
                            Establish, BeginJoin, BeginLeave, Close
<1>4. CASE UNCHANGED roomVars
  BY <1>4 DEF roomVars
<1> QED BY <1>1, <1>2, <1>3, <1>4 DEF RoomNext

\* The RRC server in front of the hub leaves it the room it is by itself.
THEOREM RoomIsCatchUp == RoomSpec => Spec
<1>1. RoomInit => Init
  BY DEF RoomInit
<1>2. [RoomNext]_roomVars => [Next]_catchUpVars
  BY RoomStepIs
<1> QED BY <1>1, <1>2, PTL DEF RoomSpec, Spec
-----------------------------------------------------------------------------
(* Types. *)

\* A link with no session, and a fan-out with nothing to do.
LEMMA IdleTypes == Closed \in Session /\ Idle \in Fan
<1>1. Closed \in Session
  BY DEF Closed, Session
<1>2. Idle \in Fan
  BY DEF Idle, Fan
<1> QED BY <1>1, <1>2, Zenon

\* The server begins idle.
LEMMA RoomInitTypes ==
    ASSUME RoomInit
    PROVE  RoomTypes
<1>1. Closed \in Session /\ Idle \in Fan
  BY IdleTypes, Zenon
<1>3. events \in Seq(Event) /\ got \in [Links -> Seq(Bodies)]
  BY DEF RoomInit
<1>4. since \in [Links -> 0..MaxPosts]
  BY CatchUpConstants DEF RoomInit
<1>5. lost \in [Links -> SUBSET Bodies] /\ leaked \in [Identities -> Nat]
  BY DEF RoomInit
<1> QED BY <1>1, <1>3, <1>4, <1>5, Zenon DEF RoomInit, RoomTypes

\* publish adds an event at the end, or drops it, which dropped tells.
LEMMA PublishIs ==
    ASSUME RoomTypes, NEW e \in Event, Publish(e)
    PROVE  /\ events' \in Seq(Event) /\ dropped' \subseteq Bodies \cup {NoBody}
           /\ \/ events' = events /\ dropped' = dropped \cup {e.body}
              \/ events' = Append(events, e) /\ dropped' = dropped
<1>1. Append(events, e) \in Seq(Event)
  BY DEF RoomTypes
<1>2. e.body \in Bodies \cup {NoBody}
  BY Zenon DEF Event
<1> QED BY <1>1, <1>2, Zenon DEF Publish, RoomTypes

\* The hub's events are events.
LEMMA HubEvents ==
    /\ \A i \in Ids, b \in Bodies : MessageEvent(i, b) \in Event
    /\ \A id \in Identities : RemovedEvent(id) \in Event
BY DEF MessageEvent, RemovedEvent, Event

\* What the hub answers a join with: messages of the room, each once.
LEMMA AnswerIs ==
    ASSUME TypeOK, StoredOK, NEW id \in Identities, NEW replay \in Answers(id)
    PROVE  /\ replay \in Seq(Bodies) /\ NoRepeats(replay)
           /\ \A n \in DOMAIN replay : replay[n] <= posts
<1> DEFINE ids == IF Present(id) THEN {} ELSE Replay(id)
<1>1. ids \subseteq RoomIds
  BY DEF Replay, LatestOf, MessagesAfter
<1>2. PICK s \in InIdOrder(ids) : replay = BodiesOf(s)
  BY DEF Answers
<1>3. IsFiniteSet(ids)
  <2>1. RoomIds \subseteq Ids /\ IsFiniteSet(Ids)
    BY CatchUpConstants, FS_Interval DEF Ids, RoomIds
  <2> QED BY <1>1, <2>1, FS_Subset
<1>4. Cardinality(ids) \in Nat
  BY <1>3, FS_CardinalityType
<1>5. /\ s \in [1..Cardinality(ids) -> ids] /\ DOMAIN s = 1..Cardinality(ids)
      /\ \A m, n \in DOMAIN s : m < n => s[m] < s[n]
  <2> HIDE DEF ids
  <2> QED BY <1>2 DEF InIdOrder
<1>6. DOMAIN replay = 1..Cardinality(ids) /\ \A n \in DOMAIN replay : replay[n] = message[s[n]]
  <2> HIDE DEF ids
  <2> QED BY <1>2, <1>5, Zenon DEF BodiesOf
<1>7. ASSUME NEW n \in DOMAIN replay
      PROVE  s[n] \in Ids /\ replay[n] \in Bodies /\ replay[n] <= posts /\ given[replay[n]] = s[n]
  <2>1. s[n] \in RoomIds
    <3> HIDE DEF ids
    <3> QED BY <1>1, <1>5, <1>6, Zenon
  <2>2. s[n] \in Ids /\ message[s[n]] \in here
    BY <2>1, Zenon DEF RoomIds, InRoom
  <2>3. message[s[n]] \in Bodies /\ message[s[n]] \in 1..posts /\ message[s[n]] # NoBody
    BY <2>2 DEF TypeOK, StoredOK, Bodies, NoBody
  <2> QED BY <1>6, <2>2, <2>3, Zenon DEF StoredOK, TypeOK
<1>8. replay \in [1..Cardinality(ids) -> Bodies]
  <2> HIDE DEF ids
  <2>1. replay = [n \in 1..Cardinality(ids) |-> message[s[n]]]
    BY <1>2, <1>5 DEF BodiesOf
  <2> QED BY <1>6, <1>7, <2>1, Zenon
<1>9. replay \in Seq(Bodies)
  <2> HIDE DEF ids
  <2> QED BY <1>4, <1>8
<1>10. NoRepeats(replay)
  <2> SUFFICES ASSUME NEW m \in DOMAIN replay, NEW n \in DOMAIN replay, replay[m] = replay[n] PROVE m = n
    BY Zenon DEF NoRepeats
  <2>1. s[m] = s[n] /\ s[m] \in Int
    BY <1>7, CatchUpConstants DEF Ids
  <2>2. m \in Int /\ n \in Int /\ m \in DOMAIN s /\ n \in DOMAIN s
    <3> HIDE DEF ids
    <3> QED BY <1>4, <1>5, <1>6
  <2>3. ~(m < n) /\ ~(n < m)
    BY <1>5, <2>1, <2>2
  <2> QED BY <2>2, <2>3
<1> QED BY <1>7, <1>9, <1>10

\* A link's frames and one more.
LEMMA OneMoreFrame == \A s \in Seq(Bodies), b \in Bodies : Append(s, b) \in Seq(Bodies)
OBVIOUS

\* A message is handed to the link's queue, or refused and lost to it.
Handed(l, b) ==
    /\ got' \in [Links -> Seq(Bodies)] /\ lost' \in [Links -> SUBSET Bodies]
    /\ \A k \in Links \ {l} : got'[k] = got[k] /\ lost'[k] = lost[k]
    /\ \/ got'[l] = Append(got[l], b) /\ lost' = lost
       \/ got' = got /\ lost'[l] = lost[l] \cup {b}

\* sendFrames does one of the two.
LEMMA SendsIs ==
    ASSUME RoomTypes, NEW l \in Links, NEW b \in Bodies, Sends(l, b)
    PROVE  Handed(l, b)
<1>1. got \in [Links -> Seq(Bodies)] /\ lost \in [Links -> SUBSET Bodies]
  BY Zenon DEF RoomTypes
<1>2. CASE got' = [got EXCEPT ![l] = Append(@, b)] /\ UNCHANGED lost
  <2>1. Append(got[l], b) \in Seq(Bodies)
    BY <1>1, OneMoreFrame, Zenon
  <2> QED BY <1>1, <1>2, <2>1, Zenon DEF Handed
<1>3. CASE lost' = [lost EXCEPT ![l] = @ \cup {b}] /\ UNCHANGED got
  <2>1. lost[l] \cup {b} \in SUBSET Bodies
    BY <1>1
  <2> QED BY <1>1, <1>3, <2>1, Zenon DEF Handed
<1> QED BY <1>2, <1>3, Zenon DEF Sends

\* A step of a link's worker or client is its own...
OwnStep(l) ==
    /\ session' \in [Links -> Session] /\ got' \in [Links -> Seq(Bodies)]
    /\ lost' \in [Links -> SUBSET Bodies] /\ since' \in [Links -> 0..MaxPosts]
    /\ leaked' \in [Identities -> Nat]
    /\ \A k \in Links \ {l} :
           session'[k] = session[k] /\ got'[k] = got[k] /\ lost'[k] = lost[k] /\ since'[k] = since[k]
    /\ UNCHANGED <<events, dropped, kicked>>
    /\ HubPartFails(l) \/ leaked' = leaked

\* ...and, but for a new session, leaves the fan-out alone.
LEMMA LinkStepOwn ==
    ASSUME TypeOK, StoredOK, RoomTypes, NEW l \in Links, Worker(l) \/ Client(l)
    PROVE  OwnStep(l) /\ (Establish(l) \/ fan' = fan)
<1> DEFINE s == session[l]
<1>1. /\ session \in [Links -> Session] /\ got \in [Links -> Seq(Bodies)]
      /\ lost \in [Links -> SUBSET Bodies] /\ since \in [Links -> 0..MaxPosts]
      /\ leaked \in [Identities -> Nat]
  BY ZenonT(30) DEF RoomTypes
<1>2. s \in Session /\ got[l] \in Seq(Bodies) /\ Closed \in Session
  BY <1>1, IdleTypes, Zenon
<1>e. <<>> \in Seq(Ids \X Bodies) /\ <<>> \in Seq(Bodies)
  OBVIOUS
<1>3. CASE HubJoin(l)
  <2>1. PICK replay \in Answers(OwnerOf[l]) :
            session' = [session EXCEPT ![l].pc = "replay", ![l].out = replay,
               ![l].seen = IF Present(OwnerOf[l]) THEN 0 ELSE LastMessageID]
    BY <1>3, Zenon DEF HubJoin
  <2>2. replay \in Seq(Bodies)
    BY <2>1, AnswerIs, RoomConstants
  <2>3. LastMessageID \in Ids \cup {0}
    BY LastIs
  <2>4. session' \in [Links -> Session] /\ \A k \in Links \ {l} : session'[k] = session[k]
    BY <1>1, <1>2, <2>1, <2>2, <2>3, Zenon DEF Session
  <2>5. since' \in [Links -> 0..MaxPosts] /\ \A k \in Links \ {l} : since'[k] = since[k]
    BY <1>1, <1>3 DEF HubJoin, TypeOK
  <2> QED BY <1>1, <1>3, <2>4, <2>5, Zenon DEF HubJoin, OwnStep
<1>4. CASE JoinRefused(l)
  <2>1. session' \in [Links -> Session] /\ \A k \in Links \ {l} : session'[k] = session[k]
    BY <1>1, <1>2, <1>e, <1>4, Zenon DEF JoinRefused, Session
  <2> QED BY <1>1, <1>4, <2>1, Zenon DEF JoinRefused, OwnStep
<1>5. CASE FinishJoin(l)
  <2>1. session' \in [Links -> Session] /\ \A k \in Links \ {l} : session'[k] = session[k]
    BY <1>1, <1>2, <1>e, <1>5, Zenon DEF FinishJoin, Session
  <2> QED BY <1>1, <1>5, <2>1, Zenon DEF FinishJoin, OwnStep
<1>12. CASE SendReplay(l)
  <2>1. s.out \in Seq(Bodies) /\ s.out # <<>>
    BY <1>2, <1>12, Zenon DEF SendReplay, Session
  <2>2. Head(s.out) \in Bodies /\ Tail(s.out) \in Seq(Bodies)
    BY <2>1
  <2>3. session' \in [Links -> Session] /\ \A k \in Links \ {l} : session'[k] = session[k]
    BY <1>1, <1>2, <1>12, <2>2, Zenon DEF SendReplay, Session
  <2>4. Handed(l, Head(s.out))
    BY <1>12, <2>2, SendsIs, Zenon DEF SendReplay
  <2> QED BY <1>1, <1>12, <2>3, <2>4, Zenon DEF SendReplay, Handed, OwnStep
<1>13. CASE HubPartFails(l)
  <2>1. session' \in [Links -> Session] /\ \A k \in Links \ {l} : session'[k] = session[k]
    BY <1>1, <1>2, <1>13, Zenon DEF HubPartFails, Session
  <2>2. leaked' \in [Identities -> Nat]
    <3>1. OwnerOf[l] \in Identities
      BY RoomConstants, Zenon
    <3>2. leaked[OwnerOf[l]] + 1 \in Nat
      BY <1>1, <3>1
    <3> QED BY <1>1, <1>13, <3>2, Zenon DEF HubPartFails
  <2> QED BY <1>1, <1>13, <2>1, <2>2, Zenon DEF HubPartFails, OwnStep
<1>6. CASE Flush(l)
  <2>1. CASE s.held = <<>>
    <3>0. session' = [session EXCEPT ![l].pc = "idle", ![l].seen = 0]
      BY <1>6, <2>1 DEF Flush
    <3>1. session' \in [Links -> Session] /\ \A k \in Links \ {l} : session'[k] = session[k]
      BY <1>1, <1>2, <3>0, Zenon DEF Session
    <3> QED BY <1>1, <1>6, <2>1, <3>1 DEF Flush, SendsNone, OwnStep
  <2>2. CASE s.held # <<>>
    <3>1. s.held \in Seq(Ids \X Bodies)
      BY <1>2 DEF Session
    <3>2. Tail(s.held) \in Seq(Ids \X Bodies) /\ Head(s.held) \in Ids \X Bodies
      BY <3>1, <2>2
    <3>3. Head(s.held)[2] \in Bodies
      BY <3>2
    <3>4. session' = [session EXCEPT ![l].held = Tail(s.held)]
      BY <1>6, <2>2 DEF Flush
    <3>5. session' \in [Links -> Session] /\ \A k \in Links \ {l} : session'[k] = session[k]
      BY <1>1, <1>2, <3>2, <3>4, Zenon DEF Session
    <3>6. SendsNone \/ Sends(l, Head(s.held)[2])
      BY <1>6, <2>2, Zenon DEF Flush
    <3>7. SendsNone \/ Handed(l, Head(s.held)[2])
      BY <3>3, <3>6, SendsIs, Zenon
    <3> QED BY <1>1, <1>6, <3>5, <3>7, Zenon DEF Flush, SendsNone, Handed, OwnStep
  <2> QED BY <2>1, <2>2
<1>7. CASE HubPart(l)
  <2>1. session' \in [Links -> Session] /\ \A k \in Links \ {l} : session'[k] = session[k]
    BY <1>1, <1>2, <1>7, Zenon DEF HubPart, Session
  <2> QED BY <1>1, <1>7, <2>1, Zenon DEF HubPart, OwnStep
<1>8. CASE Establish(l)
  <2>1. [Closed EXCEPT !.open = TRUE] \in Session
    BY <1>2, Zenon DEF Session
  <2>2. session' \in [Links -> Session] /\ \A k \in Links \ {l} : session'[k] = session[k]
    BY <1>1, <1>8, <2>1 DEF Establish
  <2>3. got' \in [Links -> Seq(Bodies)] /\ \A k \in Links \ {l} : got'[k] = got[k]
    BY <1>1, <1>8 DEF Establish
  <2>4. lost' \in [Links -> SUBSET Bodies] /\ \A k \in Links \ {l} : lost'[k] = lost[k]
    BY <1>1, <1>8 DEF Establish
  <2> QED BY <1>1, <1>8, <2>2, <2>3, <2>4, Zenon DEF Establish, OwnStep
<1>9. CASE BeginJoin(l)
  <2>1. session' \in [Links -> Session] /\ \A k \in Links \ {l} : session'[k] = session[k]
    BY <1>1, <1>2, <1>e, <1>9, Zenon DEF BeginJoin, Session
  <2>2. got' \in [Links -> Seq(Bodies)] /\ \A k \in Links \ {l} : got'[k] = got[k]
    BY <1>1, <1>9 DEF BeginJoin
  <2>3. lost' \in [Links -> SUBSET Bodies] /\ \A k \in Links \ {l} : lost'[k] = lost[k]
    BY <1>1, <1>9 DEF BeginJoin
  <2> QED BY <1>1, <1>9, <2>1, <2>2, <2>3, Zenon DEF BeginJoin, OwnStep
<1>10. CASE BeginLeave(l)
  <2>1. session' \in [Links -> Session] /\ \A k \in Links \ {l} : session'[k] = session[k]
    BY <1>1, <1>2, <1>10, Zenon DEF BeginLeave, Session
  <2> QED BY <1>1, <1>10, <2>1, Zenon DEF BeginLeave, OwnStep
<1>11. CASE Close(l)
  <2>1. session' \in [Links -> Session] /\ \A k \in Links \ {l} : session'[k] = session[k]
    BY <1>1, <1>2, <1>11, Zenon DEF Close, Session
  <2> QED BY <1>1, <1>11, <2>1, Zenon DEF Close, OwnStep
<1> QED BY <1>3, <1>4, <1>5, <1>6, <1>7, <1>8, <1>9, <1>10, <1>11, <1>12, <1>13, Zenon DEF Worker, Client

\* A new session is none of those the fan-out has left to do.
LEMMA EstablishFan ==
    ASSUME RoomTypes, NEW l \in Links, Establish(l)
    PROVE  /\ fan' \in Fan /\ fan'.todo = fan.todo \ {l}
           /\ fan'.to = (IF fan.to = l THEN NoLink ELSE fan.to)
           /\ fan'.kind = fan.kind /\ fan'.id = fan.id /\ fan'.body = fan.body
BY Zenon DEF RoomTypes, Fan, Establish

\* What offerMessage does with a message: hold it, send it, or leave it.
LEMMA OfferIs ==
    ASSUME RoomTypes, NEW l \in Links, EventOK(fan), Offer(l)
    PROVE  /\ fan' \in Fan /\ fan'.todo = fan.todo \ {l}
           /\ fan'.to = (IF ~session[l].joining /\ session[l].in THEN l ELSE NoLink)
           /\ fan'.kind = fan.kind /\ fan'.id = fan.id /\ fan'.body = fan.body
           /\ session' \in [Links -> Session] /\ lost' \in [Links -> SUBSET Bodies]
           /\ \/ session' = session
              \/ /\ session[l].joining
                 /\ session'[l] = [session[l] EXCEPT !.held = Append(@, <<fan.id, fan.body>>)]
                 /\ \A k \in Links \ {l} : session'[k] = session[k]
           /\ \A k \in Links : lost[k] \subseteq lost'[k]
           /\ session[l].joining => session' # session \/ fan.body \in lost'[l]
<1> DEFINE s == session[l]
<1>1. /\ session \in [Links -> Session] /\ s \in Session /\ fan \in Fan
      /\ lost \in [Links -> SUBSET Bodies]
  BY DEF RoomTypes
<1>2. fan' \in Fan /\ fan'.todo = fan.todo \ {l}
      /\ fan'.to = (IF ~s.joining /\ s.in THEN l ELSE NoLink)
      /\ fan'.kind = fan.kind /\ fan'.id = fan.id /\ fan'.body = fan.body
  BY <1>1, Zenon DEF Fan, Offer, Holds
<1>3. <<fan.id, fan.body>> \in Ids \X Bodies
  BY <1>1, Zenon DEF Fan, Offer, EventOK
<1>4. s.held \in Seq(Ids \X Bodies)
  BY <1>1 DEF Session
<1> DEFINE h == Append(s.held, <<fan.id, fan.body>>)
<1>5. h \in Seq(Ids \X Bodies) /\ h # s.held
  BY <1>3, <1>4
<1>6. CASE s.joining /\ Len(s.held) < MaxHeld
  <2>1. session' = [session EXCEPT ![l].held = h] /\ lost' = lost
    BY <1>1, <1>4, <1>6, RoomConstants DEF Offer, Holds, RoomTypes, Session
  <2>2. session' \in [Links -> Session] /\ session'[l] = [s EXCEPT !.held = h]
        /\ session'[l].held = h /\ \A k \in Links \ {l} : session'[k] = session[k]
    <3> HIDE DEF h
    <3> QED BY <1>1, <1>5, <2>1, Zenon DEF Session
  <2>3. session' # session
    BY <1>5, <2>2, Zenon
  <2> QED BY <1>2, <1>6, <2>1, <2>2, <2>3, Zenon DEF RoomTypes
<1>7. CASE ~(s.joining /\ Len(s.held) < MaxHeld)
  <2>1. session' = session
    BY <1>7 DEF Offer, Holds
  <2>2. fan.body \in Bodies
    BY <1>3
  <2>3. CASE ~s.joining
    <3>1. lost' = lost
      BY <2>3, Zenon DEF Offer, Holds
    <3> QED BY <1>1, <1>2, <2>1, <2>3, <3>1, Zenon
  <2>4. CASE s.joining
    <3>1. Len(s.held) >= MaxHeld
      BY <1>4, <1>7, <2>4, RoomConstants
    <3>2. lost' = [lost EXCEPT ![l] = @ \cup {fan.body}]
      BY <2>4, <3>1, Zenon DEF Offer, Holds
    <3>3. lost[l] \cup {fan.body} \in SUBSET Bodies
      BY <1>1, <2>2
    <3> QED BY <1>1, <1>2, <2>1, <3>2, <3>3, Zenon
  <2> QED BY <2>3, <2>4, Zenon
<1> QED BY <1>6, <1>7, Zenon

\* The fan-out takes the first event, for the open sessions it concerns.
LEMMA TakeEventIs ==
    ASSUME RoomTypes, TakeEvent
    PROVE  /\ fan' \in Fan /\ fan'.to = NoLink
           /\ fan'.kind = events[1].kind /\ fan'.id = events[1].id /\ fan'.body = events[1].body
           /\ \A l \in Links : l \in fan'.todo <=> Concerns(events[1], l)
           /\ events[1] \in Event /\ 1 \in DOMAIN events
           /\ events' \in Seq(Event) /\ \A n \in DOMAIN events' : n + 1 \in DOMAIN events
                                            /\ events'[n] = events[n + 1] /\ n \in Nat \ {0}
<1>1. events \in Seq(Event) /\ events # <<>>
  BY Zenon DEF RoomTypes, TakeEvent
<1>2. Head(events) = events[1] /\ events[1] \in Event /\ 1 \in DOMAIN events
  BY <1>1
<1>3. events' \in Seq(Event) /\ \A n \in DOMAIN events' : n + 1 \in DOMAIN events
                                     /\ events'[n] = events[n + 1] /\ n \in Nat \ {0}
  <2>1. events' = Tail(events)
    BY Zenon DEF TakeEvent
  <2> QED BY <1>1, <2>1
<1>4. fan' = [kind |-> events[1].kind, id |-> events[1].id, body |-> events[1].body, who |-> events[1].who,
              todo |-> {l \in Links : Concerns(events[1], l)}, to |-> NoLink]
  BY <1>2, Zenon DEF TakeEvent
<1>5. fan' \in Fan
  <2>1. {l \in Links : Concerns(events[1], l)} \in SUBSET Links
    BY Zenon
  <2> DEFINE td == {l \in Links : Concerns(events[1], l)}
  <2> HIDE DEF td
  <2> QED BY <1>2, <1>4, <2>1, Zenon DEF Event, Fan, td
<1> QED BY <1>2, <1>3, <1>4, <1>5, Zenon

\* A message goes to the link it is for, unless that has closed.
LEMMA FanSendIs ==
    ASSUME RoomTypes, EventOK(fan), fan.kind = "message", FanSend
    PROVE  /\ fan' \in Fan /\ fan'.to = NoLink /\ fan'.todo = fan.todo
           /\ fan'.kind = fan.kind /\ fan'.id = fan.id /\ fan'.body = fan.body
           /\ fan.to \in Links /\ fan.body \in Bodies
           /\ IF session[fan.to].open THEN Handed(fan.to, fan.body) ELSE SendsNone
<1>1. fan \in Fan
  BY DEF RoomTypes
<1>2. fan.to \in Links /\ fan.body \in Bodies
  BY <1>1 DEF Fan, EventOK, FanSend
<1>3. fan' \in Fan /\ fan'.to = NoLink /\ fan'.todo = fan.todo
      /\ fan'.kind = fan.kind /\ fan'.id = fan.id /\ fan'.body = fan.body
  BY <1>1, Zenon DEF Fan, FanSend
<1>4. IF session[fan.to].open THEN Handed(fan.to, fan.body) ELSE SendsNone
  BY <1>2, SendsIs, Zenon DEF FanSend
<1> QED BY <1>2, <1>3, <1>4, Zenon

\* A removal takes the session out of the room.
LEMMA DropIs ==
    ASSUME RoomTypes, NEW l \in Links, DropFromRoom(l)
    PROVE  /\ fan' \in Fan /\ fan'.to = fan.to /\ fan'.todo = fan.todo \ {l}
           /\ fan'.kind = fan.kind /\ fan'.id = fan.id /\ fan'.body = fan.body
           /\ session' \in [Links -> Session] /\ session'[l] = [session[l] EXCEPT !.in = FALSE]
           /\ \A k \in Links \ {l} : session'[k] = session[k]
<1>1. fan \in Fan /\ session \in [Links -> Session] /\ session[l] \in Session
  BY DEF RoomTypes
<1>2. fan' \in Fan /\ fan'.to = fan.to /\ fan'.todo = fan.todo \ {l}
      /\ fan'.kind = fan.kind /\ fan'.id = fan.id /\ fan'.body = fan.body
  BY <1>1 DEF Fan, DropFromRoom
<1>3. [session[l] EXCEPT !.in = FALSE] \in Session
  BY <1>1, Zenon DEF Session
<1>4. session' = [session EXCEPT ![l] = [session[l] EXCEPT !.in = FALSE]]
  BY <1>1 DEF DropFromRoom
<1> QED BY <1>1, <1>2, <1>3, <1>4, Zenon

\* Every step keeps the types.
LEMMA RoomTypesStep ==
    ASSUME TypeOK, StoredOK, Server, [RoomNext]_roomVars
    PROVE  RoomTypes'
<1>0. RoomTypes /\ EventOK(fan) /\ (fan.to # NoLink => fan.kind = "message")
  BY DEF Server, QueueOK
<1>1. CASE SayHere
  <2>1. PICK i \in Ids : Post(i, TRUE) /\ Publish(MessageEvent(i, posts + 1))
    BY <1>1, Zenon DEF SayHere
  <2>2. posts + 1 \in Bodies
    BY <2>1, CatchUpConstants DEF Post, TypeOK, Bodies
  <2>3. events' \in Seq(Event) /\ dropped' \subseteq Bodies \cup {NoBody}
    BY <1>0, <2>1, <2>2, HubEvents, PublishIs, Zenon
  <2> QED BY <1>0, <1>1, <2>3, Zenon DEF SayHere, RoomTypes
<1>2. ASSUME NEW id \in Identities, KickFrom(id) PROVE RoomTypes'
  <2>1. events' \in Seq(Event) /\ dropped' \subseteq Bodies \cup {NoBody}
    BY <1>0, <1>2, HubEvents, PublishIs, Zenon DEF KickFrom
  <2>2. leaked' \in [Identities -> Nat]
    BY <1>0, <1>2 DEF KickFrom, RoomTypes
  <2> QED BY <1>0, <1>2, <2>1, <2>2, Zenon DEF KickFrom, RoomTypes
<1>3. CASE Elsewhere \/ UNCHANGED roomVars
  BY <1>0, <1>3, Zenon DEF Elsewhere, rrcVars, roomVars, RoomTypes
<1>4. CASE StopAndStart
  <2>1. <<>> \in Seq(Event)
    OBVIOUS
  <2>2. leaked' \in [Identities -> Nat]
    <3>1. leaked' = [id \in Identities |-> 0] /\ 0 \in Nat
      BY <1>4, Zenon DEF StopAndStart
    <3> QED BY <3>1, Zenon
  <2> QED BY <1>0, <1>4, <2>1, <2>2, IdleTypes, Zenon DEF StopAndStart, RoomTypes
<1>5. CASE TakeEvent
  BY <1>0, <1>5, TakeEventIs DEF TakeEvent, RoomTypes
<1>6. CASE FanSend
  <2>1. fan' \in Fan /\ got' \in [Links -> Seq(Bodies)] /\ lost' \in [Links -> SUBSET Bodies]
    BY <1>0, <1>6, FanSendIs, Zenon DEF FanSend, Handed, SendsNone, RoomTypes
  <2> QED BY <1>0, <1>6, <2>1, Zenon DEF FanSend, RoomTypes
<1>7. ASSUME NEW l \in Links, Offer(l) PROVE RoomTypes'
  BY <1>0, <1>7, OfferIs, Zenon DEF Offer, RoomTypes
<1>8. ASSUME NEW l \in Links, DropFromRoom(l) PROVE RoomTypes'
  BY <1>0, <1>8, DropIs, Zenon DEF DropFromRoom, RoomTypes
<1>9. ASSUME NEW l \in Links, Worker(l) \/ Client(l) PROVE RoomTypes'
  <2>1. OwnStep(l) /\ (Establish(l) \/ fan' = fan)
    BY <1>0, <1>9, LinkStepOwn, Zenon
  <2>2. fan' \in Fan
    BY <1>0, <2>1, EstablishFan, Zenon DEF RoomTypes
  <2> QED BY <1>0, <2>1, <2>2, Zenon DEF OwnStep, RoomTypes
<1> QED BY <1>1, <1>2, <1>3, <1>4, <1>5, <1>6, <1>7, <1>8, <1>9, ZenonT(30) DEF RoomNext, HubSide, FanOut
-----------------------------------------------------------------------------
(* The queue and the sessions. *)

\* An event at the end of the queue.
LEMMA AppendEvent ==
    ASSUME NEW q \in Seq(Event), NEW e \in Event
    PROVE  /\ DOMAIN q = 1..Len(q) /\ Len(q) \in Nat /\ DOMAIN Append(q, e) = 1..(Len(q) + 1)
           /\ Append(q, e)[Len(q) + 1] = e
           /\ \A n \in 1..Len(q) : Append(q, e)[n] = q[n] /\ q[n] \in Event
OBVIOUS

\* An event is of a message, by its number, or of none.
LEMMA BodyIsNat == \A x \in Event \cup Fan : x.body \in Nat
<1>1. Bodies \cup {NoBody} \subseteq Nat
  BY CatchUpConstants DEF Bodies, NoBody
<1>2. \A x \in Event \cup Fan : x.body \in Bodies \cup {NoBody}
  BY DEF Event, Fan
<1> QED BY <1>1, <1>2, Zenon

\* The queue with one more event, of a body above all before it or of none.
LEMMA QueueAppend ==
    ASSUME RoomTypes, QueueOK, posts \in Nat, posts' \in Nat, posts <= posts',
           fan' = fan, kicked => kicked', NEW e \in Event, EventOK(e)', e.body <= posts',
           e.body = NoBody \/ e.body > posts, events' = Append(events, e)
    PROVE  QueueOK'
<1>1. /\ DOMAIN events = 1..Len(events) /\ Len(events) \in Nat /\ DOMAIN events' = 1..(Len(events) + 1)
      /\ events'[Len(events) + 1] = e
      /\ \A n \in 1..Len(events) : events'[n] = events[n] /\ events[n] \in Event
  BY AppendEvent, Zenon DEF RoomTypes
<1>2. \A x \in Event \cup Fan : x.body \in Nat
  BY BodyIsNat, Zenon
<1>3. EventOK(fan)' /\ (fan'.to # NoLink => fan'.kind = "message" /\ fan'.to \notin fan'.todo)
      /\ fan'.body <= posts'
  <2>1. EventOK(fan)' /\ (fan'.to # NoLink => fan'.kind = "message" /\ fan'.to \notin fan'.todo)
    BY Zenon DEF QueueOK, EventOK
  <2>2. fan.body \in Nat /\ fan.body <= posts
    BY <1>2, Zenon DEF QueueOK, RoomTypes
  <2> QED BY <2>1, <2>2
<1>4. ASSUME NEW n \in DOMAIN events'
      PROVE  /\ EventOK(events[n])' /\ events'[n].body <= posts'
             /\ events'[n].body # NoBody =>
                  fan'.body < events'[n].body /\ \A m \in DOMAIN events' : m < n => events'[m].body < events'[n].body
  <2>1. CASE n \in 1..Len(events)
    <3>1. events'[n] = events[n] /\ events[n] \in Event
      BY <1>1, <2>1, Zenon
    <3>2. EventOK(events[n])' /\ events[n].body <= posts
      BY <1>1, <2>1, <3>1, ZenonT(30) DEF QueueOK, EventOK
    <3>3. \A m \in DOMAIN events' : m < n => m \in DOMAIN events /\ events'[m] = events[m]
      BY <1>1, <2>1
    <3>4. events[n].body \in Nat
      BY <1>2, <3>1, Zenon
    <3>5. events[n].body # NoBody =>
              fan.body < events[n].body /\ \A m \in DOMAIN events : m < n => events[m].body < events[n].body
      BY <1>1, <2>1, Zenon DEF QueueOK
    <3> QED BY <3>1, <3>2, <3>3, <3>4, <3>5
  <2>2. CASE n = Len(events) + 1
    <3>1. events'[n] = e
      BY <1>1, <2>2, Zenon
    <3>2. EventOK(events[n])'
      BY <3>1, Zenon DEF EventOK
    <3>3. \A m \in DOMAIN events' : m < n => events'[m] = events[m] /\ m \in DOMAIN events
      BY <1>1, <2>2
    <3>4. \A m \in DOMAIN events : events[m].body <= posts /\ events[m].body \in Nat
      BY <1>1, <1>2, Zenon DEF QueueOK
    <3>5. fan.body <= posts /\ fan.body \in Nat /\ e.body \in Nat
      BY <1>2, Zenon DEF QueueOK, RoomTypes
    <3> QED BY <3>1, <3>2, <3>3, <3>4, <3>5
  <2>3. DOMAIN events' = 1..(Len(events) + 1) /\ Len(events) \in Nat
    BY <1>1, Zenon
  <2>4. n \in 1..Len(events) \/ n = Len(events) + 1
    BY <2>3
  <2> QED BY <2>1, <2>2, <2>4, Zenon
<1> QED BY <1>3, <1>4, Zenon DEF QueueOK

\* A step that leaves the queue as it is, and the fan-out's event.
LEMMA QueueSame ==
    ASSUME RoomTypes, QueueOK, posts \in Nat, posts' \in Nat, posts <= posts', kicked => kicked',
           events' = events, fan' \in Fan, fan'.kind = fan.kind, fan'.id = fan.id, fan'.body = fan.body,
           fan'.to # NoLink => fan.kind = "message" /\ fan'.to \notin fan'.todo
    PROVE  QueueOK'
<1>1. \A n \in DOMAIN events : events[n] \in Event
  BY DEF RoomTypes
<1>2. \A x \in Event \cup Fan : x.body \in Nat
  BY BodyIsNat, Zenon
<1>3. EventOK(fan)' /\ fan'.body <= posts'
  <2>1. EventOK(fan)'
    BY Zenon DEF QueueOK, EventOK
  <2>2. fan.body \in Nat /\ fan.body <= posts
    BY <1>2, Zenon DEF QueueOK, RoomTypes
  <2> QED BY <2>1, <2>2
<1>4. ASSUME NEW n \in DOMAIN events' PROVE EventOK(events[n])' /\ events'[n].body <= posts'
  <2>1. n \in DOMAIN events /\ events'[n] = events[n] /\ events[n].body <= posts /\ events[n].body \in Nat
    BY <1>1, <1>2, Zenon DEF QueueOK
  <2>2. EventOK(events[n])'
    BY <2>1, Zenon DEF QueueOK, EventOK
  <2> QED BY <2>1, <2>2
<1>5. \A n \in DOMAIN events' : events'[n].body # NoBody =>
           fan'.body < events'[n].body /\ \A m \in DOMAIN events' : m < n => events'[m].body < events'[n].body
  BY DEF QueueOK
<1> QED BY <1>3, <1>4, <1>5, Zenon DEF QueueOK

\* What the hub has posted only grows.
LEMMA PostsGrow ==
    ASSUME TypeOK, [Next]_catchUpVars
    PROVE  /\ posts \in Nat /\ posts' \in Nat /\ posts <= posts'
           /\ IsPost \/ (posts' = posts /\ here' = here /\ given' = given)
<1>1. posts \in Nat
  BY CatchUpConstants DEF TypeOK
<1>2. CASE IsPost
  <2>1. PICK i \in Ids, toHere \in BOOLEAN : Post(i, toHere)
    BY <1>2 DEF IsPost
  <2>2. posts' = posts + 1
    BY <2>1, Zenon DEF Post
  <2> QED BY <1>1, <1>2, <2>2
<1>3. CASE ~IsPost
  BY <1>1, <1>3, RequestIs DEF MessagesOnlyGo
<1> QED BY <1>1, <1>2, <1>3, Zenon

\* The queue stays in order.
LEMMA QueueStep ==
    ASSUME TypeOK, StoredOK, Server, [RoomNext]_roomVars
    PROVE  QueueOK'
<1>0. RoomTypes /\ QueueOK /\ RoomTypes'
  BY RoomTypesStep DEF Server
<1>p. posts \in Nat /\ posts' \in Nat /\ posts <= posts'
  BY RoomStepIs, PostsGrow, Zenon
<1>f. fan \in Fan /\ fan' \in Fan
  BY <1>0, Zenon DEF RoomTypes
<1>t. fan.to # NoLink => fan.kind = "message" /\ fan.to \notin fan.todo
  BY <1>0 DEF QueueOK
<1>1. CASE SayHere
  <2>1. PICK i \in Ids : Post(i, TRUE) /\ Publish(MessageEvent(i, posts + 1))
    BY <1>1, Zenon DEF SayHere
  <2>2. posts + 1 \in Bodies /\ posts' = posts + 1 /\ posts + 1 # NoBody
    BY <2>1, NextBody, Zenon
  <2> DEFINE e == MessageEvent(i, posts + 1)
  <2>3. e \in Event
    BY <2>2, HubEvents, Zenon
  <2>4. e.kind = "message" /\ e.body = posts + 1 /\ e.id = i /\ i # 0
    BY CatchUpConstants DEF MessageEvent, Ids
  <2>5. fan' = fan /\ kicked' = kicked
    BY <1>1 DEF SayHere
  <2>6. PICK b \in Bodies : b = posts + 1
    BY <2>2
  <2>7. PICK x \in Event : x = e
    BY <2>3, Zenon
  <2>8. EventOK(x)'
    BY <2>2, <2>4, <2>7, Zenon DEF EventOK
  <2>9. (events' = events) \/ (events' = Append(events, x))
    BY <1>0, <2>1, <2>3, <2>7, PublishIs, Zenon
  <2>10. x.body <= posts' /\ x.body > posts
    BY <1>p, <2>2, <2>4, <2>7
  <2> HIDE DEF e
  <2>11. CASE events' = Append(events, x)
    BY <1>0, <1>p, <2>5, <2>8, <2>10, <2>11, QueueAppend, Zenon
  <2>12. CASE events' = events
    BY <1>0, <1>p, <1>f, <1>t, <2>5, <2>12, QueueSame, Zenon
  <2> QED BY <2>9, <2>11, <2>12, Zenon
<1>2. ASSUME NEW id \in Identities, KickFrom(id) PROVE QueueOK'
  <2>1. PICK x \in Event : x = RemovedEvent(id)
    BY HubEvents, Zenon
  <2>2. (events' = events) \/ (events' = Append(events, x))
    BY <1>0, <1>2, <2>1, PublishIs, Zenon DEF KickFrom
  <2>3. fan' = fan /\ kicked'
    BY <1>2, Zenon DEF KickFrom
  <2>4. x.kind = "removed" /\ x.body = NoBody
    BY <2>1 DEF RemovedEvent
  <2>5. EventOK(x)' /\ x.body <= posts'
    BY <1>p, <2>3, <2>4 DEF EventOK, NoBody
  <2>6. CASE events' = Append(events, x)
    BY <1>0, <1>p, <2>3, <2>4, <2>5, <2>6, QueueAppend, Zenon
  <2>7. CASE events' = events
    BY <1>0, <1>p, <1>f, <1>t, <2>3, <2>7, QueueSame, Zenon
  <2> QED BY <2>2, <2>6, <2>7, Zenon
<1>3. CASE Elsewhere \/ UNCHANGED roomVars
  <2>1. events' = events /\ fan' = fan /\ kicked' = kicked
    BY <1>3, Zenon DEF Elsewhere, rrcVars, roomVars
  <2> QED BY <1>0, <1>p, <1>f, <1>t, <2>1, QueueSame, Zenon
<1>4. CASE StopAndStart
  <2>1. events' = <<>> /\ fan' = Idle
    BY <1>4 DEF StopAndStart
  <2>2. DOMAIN events' = {}
    <3>1. DOMAIN <<>> = {}
      OBVIOUS
    <3> QED BY <2>1, <3>1, Zenon
  <2>3. fan'.kind = "none" /\ fan'.body = 0 /\ fan'.to = NoLink
    BY <2>1, Zenon DEF Idle, NoBody
  <2>4. fan'.body <= posts'
    BY <1>p, <2>3
  <2> QED BY <2>2, <2>3, <2>4, Zenon DEF QueueOK, EventOK, NoBody
<1>5. CASE TakeEvent
  <2>1. /\ fan'.to = NoLink /\ fan'.kind = events[1].kind /\ fan'.id = events[1].id /\ fan'.body = events[1].body
        /\ 1 \in DOMAIN events /\ events[1] \in Event
    BY <1>0, <1>5, TakeEventIs, Zenon
  <2>2. \A n \in DOMAIN events' : n + 1 \in DOMAIN events /\ events'[n] = events[n + 1] /\ n \in Nat \ {0}
    BY <1>0, <1>5, TakeEventIs, Zenon
  <2>3. kicked' = kicked /\ posts' = posts
    BY <1>5, Zenon DEF TakeEvent, catchUpVars
  <2>4. EventOK(fan)' /\ fan'.body <= posts'
    BY <1>0, <2>1, <2>3, Zenon DEF QueueOK, EventOK
  <2>5. \A n \in DOMAIN events' : EventOK(events[n])' /\ events'[n].body <= posts'
    BY <1>0, <2>2, <2>3, Zenon DEF QueueOK, EventOK
  <2>6. ASSUME NEW n \in DOMAIN events', events'[n].body # NoBody
        PROVE  fan'.body < events'[n].body /\ \A m \in DOMAIN events' : m < n => events'[m].body < events'[n].body
    <3>1. n + 1 \in DOMAIN events /\ events'[n] = events[n + 1] /\ 1 < n + 1
      BY <2>2
    <3>2. \A m \in DOMAIN events : m < n + 1 => events[m].body < events[n + 1].body
      BY <1>0, <2>6, <3>1, Zenon DEF QueueOK
    <3>3. \A m \in DOMAIN events' : m < n => m + 1 < n + 1
      BY <2>2
    <3> QED BY <2>1, <2>2, <3>1, <3>2, <3>3, Zenon
  <2> QED BY <2>1, <2>4, <2>5, <2>6 DEF QueueOK
<1>6. CASE FanSend
  <2>1. fan.kind = "message" /\ EventOK(fan)
    BY <1>0, <1>6, Zenon DEF FanSend, QueueOK
  <2>2. fan'.to = NoLink /\ fan'.kind = fan.kind /\ fan'.id = fan.id /\ fan'.body = fan.body
    BY <1>0, <1>6, <2>1, FanSendIs, Zenon
  <2>3. events' = events /\ kicked' = kicked
    BY <1>6, Zenon DEF FanSend
  <2> QED BY <1>0, <1>p, <1>f, <2>2, <2>3, QueueSame, Zenon
<1>7. ASSUME NEW l \in Links, Offer(l) PROVE QueueOK'
  <2>1. /\ fan'.todo = fan.todo \ {l} /\ fan'.to \in {l, NoLink} /\ fan.kind = "message"
        /\ fan'.kind = fan.kind /\ fan'.id = fan.id /\ fan'.body = fan.body
    BY <1>0, <1>7, OfferIs, Zenon DEF QueueOK, Offer
  <2>2. events' = events /\ kicked' = kicked
    BY <1>7, Zenon DEF Offer
  <2>3. fan'.to # NoLink => fan.kind = "message" /\ fan'.to \notin fan'.todo
    BY <2>1, Zenon
  <2> QED BY <1>0, <1>p, <1>f, <2>1, <2>2, <2>3, QueueSame, Zenon
<1>8. ASSUME NEW l \in Links, DropFromRoom(l) PROVE QueueOK'
  <2>1. /\ fan'.todo = fan.todo \ {l} /\ fan'.to = fan.to
        /\ fan'.kind = fan.kind /\ fan'.id = fan.id /\ fan'.body = fan.body
    BY <1>0, <1>8, DropIs, Zenon
  <2>2. events' = events /\ kicked' = kicked
    BY <1>8, Zenon DEF DropFromRoom
  <2>3. fan'.to # NoLink => fan.kind = "message" /\ fan'.to \notin fan'.todo
    BY <1>t, <2>1
  <2> QED BY <1>0, <1>p, <1>f, <2>1, <2>2, <2>3, QueueSame, Zenon
<1>9. ASSUME NEW l \in Links, Worker(l) \/ Client(l) PROVE QueueOK'
  <2>1. events' = events /\ kicked' = kicked /\ (Establish(l) \/ fan' = fan)
    BY <1>0, <1>9, LinkStepOwn DEF OwnStep
  <2>2. CASE fan' = fan
    BY <1>0, <1>p, <1>f, <1>t, <2>1, <2>2, QueueSame, Zenon
  <2>3. CASE Establish(l)
    <3>1. /\ fan'.todo = fan.todo \ {l} /\ fan'.to \in {fan.to, NoLink}
          /\ fan'.kind = fan.kind /\ fan'.id = fan.id /\ fan'.body = fan.body
      BY <1>0, <2>3, EstablishFan, Zenon
    <3>2. fan'.to # NoLink => fan.kind = "message" /\ fan'.to \notin fan'.todo
      BY <1>t, <3>1
    <3> QED BY <1>0, <1>p, <1>f, <2>1, <3>1, <3>2, QueueSame, Zenon
  <2> QED BY <2>1, <2>2, <2>3, ZenonT(30)
<1> QED BY <1>1, <1>2, <1>3, <1>4, <1>5, <1>6, <1>7, <1>8, <1>9, Zenon DEF RoomNext, HubSide, FanOut

\* The hub's answer to a join, as the session has it.
LEMMA HubJoinIs ==
    ASSUME RoomTypes, NEW l \in Links, HubJoin(l)
    PROVE  /\ session[l].open /\ session[l].pc = "join" /\ session'[l].pc = "replay"
           /\ session'[l].out \in Answers(OwnerOf[l])
           /\ session'[l].seen = (IF Present(OwnerOf[l]) THEN 0 ELSE LastMessageID)
           /\ session'[l].in = session[l].in /\ session'[l].joining = session[l].joining
           /\ session'[l].open = session[l].open /\ session'[l].held = session[l].held
           /\ since'[l] = posts
<1>1. session[l] \in Session /\ session \in [Links -> Session] /\ since \in [Links -> 0..MaxPosts]
  BY DEF RoomTypes
<1>2. PICK replay \in Answers(OwnerOf[l]) :
          session' = [session EXCEPT ![l].pc = "replay", ![l].out = replay,
               ![l].seen = IF Present(OwnerOf[l]) THEN 0 ELSE LastMessageID]
  BY Zenon DEF HubJoin
<1>3. session'[l] = [session[l] EXCEPT !.pc = "replay", !.out = replay,
               !.seen = IF Present(OwnerOf[l]) THEN 0 ELSE LastMessageID]
  BY <1>1, <1>2
<1> QED BY <1>1, <1>3, Zenon DEF HubJoin, Step, Session

\* A step of finishJoin's loop over what was held.
LEMMA FlushIs ==
    ASSUME RoomTypes, NEW l \in Links, Flush(l)
    PROVE  /\ session[l].open /\ session[l].pc = "flush"
           /\ session'[l].in = session[l].in /\ session'[l].joining = session[l].joining
           /\ session'[l].open = session[l].open
           /\ \/ session[l].held = <<>> /\ session'[l].held = <<>> /\ session'[l].pc = "idle" /\ SendsNone
              \/ /\ session[l].held # <<>> /\ session'[l].held = Tail(session[l].held)
                 /\ session'[l].pc = "flush" /\ session'[l].seen = session[l].seen
                 /\ IF Head(session[l].held)[1] > session[l].seen
                    THEN Handed(l, Head(session[l].held)[2])
                    ELSE SendsNone
<1>1. session[l] \in Session /\ session \in [Links -> Session]
  BY DEF RoomTypes
<1>2. session[l].open /\ session[l].pc = "flush"
  BY DEF Flush, Step
<1>3. CASE session[l].held = <<>>
  <2>1. session' = [session EXCEPT ![l].pc = "idle", ![l].seen = 0] /\ SendsNone
    BY <1>3, Zenon DEF Flush
  <2>2. session'[l] = [session[l] EXCEPT !.pc = "idle", !.seen = 0]
    BY <1>1, <2>1
  <2> QED BY <1>1, <1>2, <1>3, <2>1, <2>2, Zenon DEF Session
<1>4. CASE session[l].held # <<>>
  <2>1. session' = [session EXCEPT ![l].held = Tail(session[l].held)]
    BY <1>4 DEF Flush
  <2>2. session'[l] = [session[l] EXCEPT !.held = Tail(session[l].held)]
    BY <1>1, <2>1, Zenon
  <2>s. session[l].held \in Seq(Ids \X Bodies)
    BY <1>1, Zenon DEF Session
  <2>h. Head(session[l].held)[2] \in Bodies
    BY <1>4, <2>s
  <2>3. IF Head(session[l].held)[1] > session[l].seen
        THEN Handed(l, Head(session[l].held)[2]) ELSE SendsNone
    BY <1>4, <2>h, SendsIs, Zenon DEF Flush, StillToSend
  <2> QED BY <1>1, <1>2, <1>4, <2>2, <2>3, Zenon DEF Session
<1> QED BY <1>3, <1>4, Zenon

\* What a step does to one session...
LEMMA SessionStep ==
    ASSUME RoomTypes, TypeOK, StoredOK, NEW l \in Links, Worker(l) \/ Client(l), SessionShape(session[l])
    PROVE  SessionShape(session[l])'
<1>1. session[l] \in Session /\ session \in [Links -> Session]
  BY Zenon DEF RoomTypes
<1>2. CASE HubJoin(l)
  <2>1. session'[l].pc = "replay" /\ session'[l].in = session[l].in /\ session'[l].joining = session[l].joining
        /\ session'[l].open = session[l].open /\ session[l].pc = "join"
    BY <1>2, HubJoinIs, Zenon
  <2> QED BY <2>1, Zenon DEF SessionShape
<1>3. CASE Flush(l)
  <2>1. session'[l].pc \in {"idle", "flush"} /\ session'[l].in = session[l].in /\ session'[l].open = session[l].open
        /\ session'[l].joining = session[l].joining /\ session[l].pc = "flush"
    BY <1>3, FlushIs, Zenon
  <2> QED BY <2>1, Zenon DEF SessionShape
<1>4. CASE JoinRefused(l)
  BY <1>1, <1>4, Zenon DEF JoinRefused, Step, Session, SessionShape
<1>5. CASE FinishJoin(l)
  BY <1>1, <1>5 DEF FinishJoin, Step, Session, SessionShape
<1>6. CASE HubPart(l)
  BY <1>1, <1>6 DEF HubPart, Session, SessionShape
<1>7. CASE Establish(l)
  BY <1>1, <1>7 DEF Establish, Closed, Session, SessionShape
<1>8. CASE BeginJoin(l)
  BY <1>1, <1>8 DEF BeginJoin, Step, Session, SessionShape
<1>9. CASE BeginLeave(l)
  BY <1>1, <1>9 DEF BeginLeave, Step, Session, SessionShape
<1>10. CASE Close(l)
  BY <1>1, <1>10, Zenon DEF Close, Step, Session, SessionShape
<1>11. CASE SendReplay(l)
  BY <1>1, <1>11, Zenon DEF SendReplay, Step, Session, SessionShape
<1>12. CASE HubPartFails(l)
  BY <1>1, <1>12 DEF HubPartFails, Session, SessionShape
<1> QED BY <1>2, <1>3, <1>4, <1>5, <1>6, <1>7, <1>8, <1>9, <1>10, <1>11, <1>12, Zenon DEF Worker, Client

\* ...and the server's state stays in shape.
LEMMA ServerStep ==
    ASSUME TypeOK, StoredOK, Server, [RoomNext]_roomVars
    PROVE  Server'
<1>0. RoomTypes /\ RoomTypes' /\ QueueOK'
  BY RoomTypesStep, QueueStep, Zenon DEF Server
<1> SUFFICES ASSUME NEW k \in Links PROVE SessionShape(session[k])'
  BY <1>0, Zenon DEF Server
<1>1. SessionShape(session[k]) /\ session[k] \in Session
  BY Zenon DEF Server, RoomTypes
<1>2. CASE session'[k] = session[k]
  BY <1>1, <1>2, Zenon DEF SessionShape
<1>3. CASE StopAndStart
  BY <1>3, Zenon DEF StopAndStart, SessionShape, Closed
<1>4. ASSUME NEW l \in Links, Offer(l) PROVE SessionShape(session[k])'
  <2>1. EventOK(fan)
    BY DEF Server, QueueOK
  <2>2. session'[k] = session[k] \/ session'[k] = [session[k] EXCEPT !.held = Append(@, <<fan.id, fan.body>>)]
    BY <1>0, <1>4, <2>1, OfferIs, Zenon
  <2>3. session'[k].in = session[k].in /\ session'[k].open = session[k].open
        /\ session'[k].joining = session[k].joining /\ session'[k].pc = session[k].pc
    BY <1>1, <2>2 DEF Session
  <2> QED BY <1>1, <2>3, Zenon DEF SessionShape
<1>5. ASSUME NEW l \in Links, DropFromRoom(l) PROVE SessionShape(session[k])'
  <2>1. session'[k] = session[k] \/ session'[k] = [session[k] EXCEPT !.in = FALSE]
    BY <1>0, <1>5, DropIs, Zenon
  <2> QED BY <1>1, <2>1 DEF SessionShape, Session
<1>6. ASSUME NEW l \in Links, Worker(l) \/ Client(l) PROVE SessionShape(session[k])'
  <2>1. CASE k = l
    BY <1>0, <1>1, <1>6, <2>1, SessionStep, Zenon
  <2>2. CASE k # l
    BY <1>0, <1>2, <1>6, <2>2, LinkStepOwn, Zenon DEF OwnStep
  <2> QED BY <2>1, <2>2, Zenon
<1>7. session' = session \/ StopAndStart \/ (\E l \in Links : Offer(l) \/ DropFromRoom(l) \/ Worker(l) \/ Client(l))
  BY Zenon
     DEF RoomNext, HubSide, FanOut, SayHere, KickFrom, Elsewhere, TakeEvent, FanSend, roomVars, rrcVars
<1> QED BY <1>2, <1>3, <1>4, <1>5, <1>6, <1>7, Zenon
-----------------------------------------------------------------------------
(* Presence. *)

\* The sessions the hub counts for an identity.
Counted(id) == {l \in Links : OwnerOf[l] = id /\ (session[l].in \/ session[l].pc \in {"replay", "leave"})}

\* There are finitely many of them, and the hub's count is a number.
LEMMA CountedFinite ==
    ASSUME NEW id
    PROVE  IsFiniteSet(Counted(id)) /\ Cardinality(Counted(id)) \in Nat
<1>1. IsFiniteSet(Links)
  BY RoomConstants
<1>2. Counted(id) \subseteq Links
  BY DEF Counted
<1> QED BY <1>1, <1>2, FS_Subset, FS_CardinalityType

\* Unless someone is kicked, the hub counts a link in when its join is taken, and out
\* when it is told that it left; a link it failed to take out has leaked.
LEMMA PresenceStep ==
    ASSUME Inv, Server, PresenceCountsLinks, [RoomNext]_roomVars
    PROVE  PresenceCountsLinks'
<1> SUFFICES ASSUME ~kicked', NEW id \in Identities PROVE (links[id] = leaked[id] + Cardinality(Counted(id)))'
  BY Zenon DEF PresenceCountsLinks, Counted
<1>0. /\ TypeOK /\ StoredOK /\ RoomTypes /\ EventOK(fan)
      /\ session \in [Links -> Session] /\ links \in [Identities -> 0..MaxLinks]
      /\ leaked \in [Identities -> Nat]
  BY Zenon DEF Inv, Server, QueueOK, RoomTypes, TypeOK
<1>1. ~kicked /\ links[id] = leaked[id] + Cardinality(Counted(id))
  <2>1. ~kicked
    <3>1. ASSUME NEW l \in Links, Worker(l) \/ Client(l) PROVE kicked' = kicked
      BY <1>0, <3>1, LinkStepOwn, Zenon DEF OwnStep
    <3> QED BY <1>0, <3>1, Zenon
               DEF RoomNext, HubSide, FanOut, SayHere, KickFrom, Elsewhere, StopAndStart, TakeEvent,
                 FanSend, Offer, DropFromRoom, roomVars, rrcVars
  <2> QED BY <2>1, Zenon DEF PresenceCountsLinks, Counted
<1>2. ASSUME links'[id] = links[id], leaked'[id] = leaked[id], Counted(id)' = Counted(id)
      PROVE  (links[id] = leaked[id] + Cardinality(Counted(id)))'
  BY <1>1, <1>2, Zenon
<1>3. CASE StopAndStart
  <2>1. Counted(id)' = {}
    BY <1>3, Zenon DEF StopAndStart, Counted, Closed
  <2>2. links'[id] = 0
    BY <1>3, Zenon DEF StopAndStart, Crash, Restart, Gone
  <2>3. leaked'[id] = 0
    BY <1>3, Zenon DEF StopAndStart
  <2>4. Cardinality({}) = 0
    BY FS_EmptySet, Zenon
  <2> QED BY <2>1, <2>2, <2>3, <2>4
<1>4. CASE UNCHANGED <<session, links, leaked>>
  BY <1>2, <1>4, Zenon DEF Counted
<1>5. ASSUME NEW l \in Links, Offer(l) PROVE (links[id] = leaked[id] + Cardinality(Counted(id)))'
  <2>1. links' = links /\ leaked' = leaked
    BY <1>5, Zenon DEF Offer, catchUpVars
  <2>2. \A k \in Links : session'[k] = session[k] \/ session'[k] = [session[k] EXCEPT !.held = Append(@, <<fan.id, fan.body>>)]
    BY <1>0, <1>5, OfferIs, Zenon
  <2>3. ASSUME NEW k \in Links PROVE session'[k].in = session[k].in /\ session'[k].pc = session[k].pc
    <3>1. session[k] \in Session
      BY <1>0
    <3> QED BY <2>2, <3>1, Zenon DEF Session
  <2> QED BY <1>2, <2>1, <2>3, Zenon DEF Counted
<1>6. ASSUME NEW l \in Links, DropFromRoom(l) PROVE FALSE
  BY <1>0, <1>1, <1>6, Zenon DEF DropFromRoom, EventOK
<1>7. ASSUME NEW l \in Links, Worker(l) \/ Client(l), ~HubJoin(l), ~HubPart(l), ~HubPartFails(l)
      PROVE  (links[id] = leaked[id] + Cardinality(Counted(id)))'
  <2>1. links' = links
    BY <1>7, Zenon
       DEF Worker, Client, JoinRefused, SendReplay, FinishJoin, Flush, Establish, BeginJoin, BeginLeave,
           Close, catchUpVars
  <2>2. leaked' = leaked /\ \A k \in Links \ {l} : session'[k] = session[k]
    BY <1>0, <1>7, LinkStepOwn, Zenon DEF OwnStep
  <2>3. SessionShape(session[l]) /\ session[l] \in Session
    BY <1>0, Zenon DEF Server
  <2>4. session'[l].in \/ session'[l].pc \in {"replay", "leave"}
          <=> session[l].in \/ session[l].pc \in {"replay", "leave"}
    <3>0. CASE Flush(l)
      BY <1>0, <3>0, FlushIs, Zenon
    <3>1. CASE JoinRefused(l) \/ FinishJoin(l)
      BY <1>0, <2>3, <3>1 DEF JoinRefused, FinishJoin, Step, SessionShape, Session
    <3>2. CASE Establish(l)
      BY <1>0, <2>3, <3>2, Zenon DEF Establish, Closed, SessionShape, Session
    <3>3. CASE BeginJoin(l) \/ BeginLeave(l)
      BY <1>0, <2>3, <3>3 DEF BeginJoin, BeginLeave, Step, SessionShape, Session
    <3>4. CASE Close(l)
      BY <1>0, <2>3, <3>4, Zenon DEF Close, Step, SessionShape, Session
    <3>5. CASE SendReplay(l)
      BY <1>0, <2>3, <3>5, Zenon DEF SendReplay, Step, Session
    <3> QED BY <1>7, <3>0, <3>1, <3>2, <3>3, <3>4, <3>5, Zenon DEF Worker, Client
  <2> QED BY <1>2, <2>1, <2>2, <2>4, Zenon DEF Counted
<1>8. ASSUME NEW l \in Links, HubJoin(l) \/ HubPart(l) \/ HubPartFails(l)
      PROVE  (links[id] = leaked[id] + Cardinality(Counted(id)))'
  <2>1. \A k \in Links \ {l} : session'[k] = session[k]
    BY <1>0, <1>8, LinkStepOwn, Zenon DEF OwnStep, Worker
  <2>2. OwnerOf[l] \in Identities /\ SessionShape(session[l]) /\ session[l] \in Session
    BY <1>0, RoomConstants, Zenon DEF Server
  <2>3. CASE OwnerOf[l] # id
    <3>1. Counted(id)' = Counted(id)
      BY <2>1, <2>3, Zenon DEF Counted
    <3>2. links'[id] = links[id]
      BY <1>0, <1>8, <2>2, <2>3, Zenon DEF HubJoin, HubPart, HubPartFails, Join, Part, catchUpVars
    <3>3. leaked'[id] = leaked[id]
      BY <1>0, <1>8, <2>2, <2>3, Zenon DEF HubJoin, HubPart, HubPartFails
    <3> QED BY <1>2, <3>1, <3>2, <3>3, Zenon
  <2>4. CASE OwnerOf[l] = id /\ HubJoin(l)
    <3>1. session[l].pc = "join" /\ ~session[l].in /\ session'[l].pc = "replay"
      BY <1>0, <2>2, <2>4 DEF HubJoin, Step, SessionShape, Session
    <3>2. l \notin Counted(id) /\ Counted(id)' = Counted(id) \cup {l}
      BY <2>1, <2>4, <3>1, Zenon DEF Counted
    <3>3. links'[id] = links[id] + 1
      BY <1>0, <2>4, Zenon DEF HubJoin, Join
    <3>4. Cardinality(Counted(id) \cup {l}) = Cardinality(Counted(id)) + 1
      BY <3>2, CountedFinite, FS_AddElement, Zenon
    <3>5. leaked' = leaked
      BY <2>4, Zenon DEF HubJoin
    <3>6. leaked[id] \in Nat /\ Cardinality(Counted(id)) \in Nat
      BY <1>0, CountedFinite, Zenon
    <3>7. links'[id] = leaked'[id] + Cardinality(Counted(id) \cup {l})
      BY <1>1, <3>3, <3>4, <3>5, <3>6
    <3> QED BY <3>2, <3>7, Zenon
  <2>5. CASE OwnerOf[l] = id /\ HubPart(l)
    <3>1. session[l].pc = "leave" /\ ~session[l].in /\ session'[l].pc = "idle" /\ session'[l].in = session[l].in
      BY <1>0, <2>2, <2>5, Zenon DEF HubPart, SessionShape, Session
    <3>2. l \in Counted(id) /\ Counted(id)' = Counted(id) \ {l}
      BY <2>1, <2>5, <3>1, Zenon DEF Counted
    <3>3. Cardinality(Counted(id) \ {l}) = Cardinality(Counted(id)) - 1
      BY <3>2, CountedFinite, FS_RemoveElement, Zenon
    <3>4. Cardinality(Counted(id)) # 0
      BY <3>2, CountedFinite, FS_EmptySet
    <3>n. leaked[id] \in Nat /\ Cardinality(Counted(id)) \in Nat
      BY <1>0, CountedFinite, Zenon
    <3>5. Present(id)
      BY <1>1, <3>4, <3>n DEF Present
    <3>6. links'[id] = links[id] - 1 /\ leaked' = leaked
      BY <1>0, <2>5, <3>5, Zenon DEF HubPart, Part
    <3>7. links'[id] = leaked'[id] + Cardinality(Counted(id) \ {l})
      BY <1>1, <3>3, <3>6, <3>n
    <3> QED BY <3>2, <3>7, Zenon
  <2>6. CASE OwnerOf[l] = id /\ HubPartFails(l)
    <3>1. session[l].pc = "leave" /\ ~session[l].in /\ session'[l].pc = "idle" /\ session'[l].in = session[l].in
      BY <1>0, <2>2, <2>6, Zenon DEF HubPartFails, SessionShape, Session
    <3>2. l \in Counted(id) /\ Counted(id)' = Counted(id) \ {l}
      BY <2>1, <2>6, <3>1, Zenon DEF Counted
    <3>3. Cardinality(Counted(id) \ {l}) = Cardinality(Counted(id)) - 1
      BY <3>2, CountedFinite, FS_RemoveElement, Zenon
    <3>4. links' = links /\ leaked'[id] = leaked[id] + 1
      BY <1>0, <2>2, <2>6, Zenon DEF HubPartFails, catchUpVars
    <3>5. leaked[id] \in Nat /\ Cardinality(Counted(id)) \in Nat
      BY <1>0, CountedFinite, Zenon
    <3>6. links'[id] = leaked'[id] + Cardinality(Counted(id) \ {l})
      BY <1>1, <3>3, <3>4, <3>5
    <3> QED BY <3>2, <3>6, Zenon
  <2> QED BY <1>8, <2>3, <2>4, <2>5, <2>6, Zenon
<1>9. CASE HubSide /\ ~StopAndStart
  <2>1. session' = session
    BY <1>9, Zenon DEF HubSide, SayHere, Elsewhere, KickFrom, rrcVars
  <2>2. ~(\E i \in Identities : KickFrom(i))
    BY Zenon DEF KickFrom
  <2>3. links' = links /\ leaked' = leaked
    BY <1>9, <2>2 DEF HubSide, SayHere, Elsewhere, Post, DeleteMessages, Maintain, rrcVars
  <2> QED BY <1>4, <2>1, <2>3, Zenon
<1>10. CASE TakeEvent \/ FanSend \/ UNCHANGED roomVars
  BY <1>4, <1>10 DEF TakeEvent, FanSend, roomVars, rrcVars, catchUpVars
<1> QED BY <1>3, <1>5, <1>6, <1>7, <1>8, <1>9, <1>10, Zenon DEF RoomNext, FanOut
=============================================================================
