--------------------------- MODULE SessionsSteps ----------------------------
(***************************************************************************)
(* Where the close of a link, a whisper and a ban are while the links'     *)
(* goroutines and the fan-out work, and what each of their steps does to a *)
(* link's queue, its worker and its session, and to the other links.       *)
(***************************************************************************)
EXTENDS Sessions, Functions, SequenceTheorems, FiniteSetTheorems, TLAPS

Frames == Whispers \cup {"welcome", "ping"}
Kinds == Lifecycle \cup {"data"}

Worker == [pc : {"idle", "check", "identify", "welcome", "missed", "send", "mark"},
           replay : Nat, missed : SUBSET Whispers, marking : Whispers \cup {None}]

SessionsTypes ==
    /\ link \in [Links -> {"new", "up", "down"}]
    /\ jobs \in [Links -> Seq(Kinds)]
    /\ late \in [Links -> SUBSET Lifecycle]
    /\ worker \in [Links -> Worker]
    /\ sess \in [Links -> Session \cup {None}]
    /\ keepalive \in [Links -> {"no", "close", "ping", "mark"}]
    /\ whisper \in [Whispers -> {"unsaid", "unsent", "sent"}]
    /\ banned \in BOOLEAN
    /\ events \in Seq(Whispers \cup {"ban"})
    /\ fanout \in Whispers \cup {None}
    /\ got \in [Links -> [Whispers -> Nat]]

\* A worker that is past taking a job has an identified session, as has every
\* link that was welcomed; and the keepalive acts only on sessions there are.
WorkerHasSession(l) ==
    /\ worker[l].pc # "idle" \/ worker[l].replay > 0 => sess[l] # None /\ sess[l].identified
    /\ sess[l] # None /\ sess[l].welcomed => sess[l].identified
    /\ keepalive[l] # "no" => sess[l] # None
    /\ worker[l].pc = "mark" => worker[l].marking \in Whispers

NoRepeats(s) == \A m, n \in DOMAIN s : s[m] = s[n] => m = n

\* An event is queued once, and only after it happened.
EventsOnce ==
    /\ NoRepeats(events)
    /\ \A w \in Whispers : w \in Range(events) => whisper[w] # "unsaid"
    /\ "ban" \in Range(events) => banned

SessionsShape == SessionsTypes /\ EventsOnce /\ \A l \in Links : WorkerHasSession(l)

\* The ban is still to come for a session that is open.
BanAhead(l) ==
    banned /\ sess[l] # None /\ sess[l].identified /\ sess[l].state = "open" /\ worker[l].pc # "check"
        => "ban" \in Range(events) \/ "ban" \in dropped

\* The whispers the worker has read and still has in hand.
InHand(l) == IF worker[l].pc \in {"send", "mark"} THEN worker[l].missed ELSE {}

\* Where a whisper not sent is, once a link is welcomed and has read its backlog.
WhisperAhead(l) ==
    sess[l] # None /\ sess[l].welcomed /\ worker[l].pc # "missed"
        => Unsent \subseteq Range(events) \cup {fanout} \cup dropped \cup InHand(l)
                              \cup unread[l] \cup unmarked

\* After the close of a link there is no data: the close is waiting for the queue,
\* is in it with no data behind it, or was handled and nothing was welcomed since.
CloseHandled(l) ==
    /\ "data" \notin Range(jobs[l])
    /\ worker[l].pc \in {"idle", "check"} /\ worker[l].replay = 0
    /\ sess[l] # None => ~sess[l].welcomed /\ sess[l].pending = 0

CloseQueued(q) == \E k \in DOMAIN q : q[k] = "closed" /\ \A j \in DOMAIN q : j > k => q[j] # "data"

CloseAhead(l) ==
    link[l] = "down" => "closed" \in late[l] \/ CloseQueued(jobs[l]) \/ CloseHandled(l)

\* The copies of a whisper in a sequence of frames.
Copies(q, w) == Cardinality({k \in DOMAIN q : q[k] = w})
InQueue(s, w) == IF s = None THEN 0 ELSE Copies(s.out, w)

\* Whether the fan-out, and l's worker, may still send it.
EventLeft(w) == IF whisper[w] = "unsaid" \/ w \in Range(events) THEN 1 ELSE 0
BacklogLeft(l, w) ==
    IF ~(worker[l].pc = "mark" /\ worker[l].marking = w) /\ (whisper[w] # "sent" \/ w \in InHand(l))
    THEN 1 ELSE 0

TwoAtMost(l, w) ==
    got[l][w] + InQueue(sess[l], w) + EventLeft(w) + BacklogLeft(l, w) <= 2 + failed[l][w]

FailureTypes == unread \in [Links -> SUBSET Whispers] /\ failed \in [Links -> [Whispers -> Nat]]

SessionsInv ==
    /\ SessionsShape /\ FailureTypes
    /\ \A l \in Links : BanAhead(l) /\ WhisperAhead(l) /\ CloseAhead(l)
    /\ \A l \in Links, w \in Whispers : TwoAtMost(l, w)
----------------------------------------------------------------------------
(* Sequences *)

\* What appending adds.
LEMMA RangeAppend ==
    ASSUME NEW S, NEW s \in Seq(S), NEW x \in S
    PROVE  Range(Append(s, x)) = Range(s) \cup {x}
<1> DEFINE t == Append(s, x)
<1>1. t \in Seq(S) /\ DOMAIN t = 1 .. Len(s) + 1 /\ DOMAIN s = 1 .. Len(s) /\ Len(s) \in Nat
  OBVIOUS
<1>2. \A k \in 1 .. Len(s) : t[k] = s[k]
  OBVIOUS
<1>3. t[Len(s) + 1] = x
  OBVIOUS
<1>4. ASSUME NEW y \in Range(t) PROVE y \in Range(s) \cup {x}
  <2>1. PICK k \in DOMAIN t : y = t[k]
    BY <1>4 DEF Range
  <2>2. k \in 1 .. Len(s) \/ k = Len(s) + 1
    BY <1>1, <2>1
  <2> QED BY <1>1, <1>2, <1>3, <2>1, <2>2 DEF Range
<1>5. ASSUME NEW y \in Range(s) \cup {x} PROVE y \in Range(t)
  <2>1. CASE y = x
    <3>1. Len(s) + 1 \in DOMAIN t
      BY <1>1
    <3> QED BY <1>3, <2>1, <3>1 DEF Range
  <2>2. CASE y \in Range(s)
    <3>1. PICK k \in DOMAIN s : y = s[k]
      BY <2>2 DEF Range
    <3>2. k \in DOMAIN t
      BY <1>1, <3>1
    <3> QED BY <1>1, <1>2, <3>1, <3>2 DEF Range
  <2> QED BY <1>5, <2>1, <2>2
<1> QED BY <1>4, <1>5

\* What taking the first one leaves.
LEMMA RangeTail ==
    ASSUME NEW S, NEW s \in Seq(S), s # <<>>, NoRepeats(s)
    PROVE  /\ Head(s) \in Range(s)
           /\ Range(Tail(s)) = Range(s) \ {Head(s)}
           /\ NoRepeats(Tail(s))
<1> DEFINE t == Tail(s)
<1>1. DOMAIN t = 1 .. Len(s) - 1 /\ DOMAIN s = 1 .. Len(s) /\ Len(s) \in Nat /\ Len(s) > 0
  OBVIOUS
<1>2. \A k \in DOMAIN t : t[k] = s[k + 1] /\ k + 1 \in DOMAIN s /\ k + 1 # 1
  OBVIOUS
<1>3. Head(s) = s[1] /\ 1 \in DOMAIN s
  BY <1>1
<1>4. ASSUME NEW y \in Range(t) PROVE y \in Range(s) /\ y # Head(s)
  <2>1. PICK k \in DOMAIN t : y = t[k]
    BY <1>4 DEF Range
  <2> QED BY <1>2, <1>3, <2>1 DEF Range, NoRepeats
<1>5. ASSUME NEW y \in Range(s), y # Head(s) PROVE y \in Range(t)
  <2>1. PICK k \in DOMAIN s : y = s[k]
    BY <1>5 DEF Range
  <2>2. k # 1
    BY <1>3, <1>5, <2>1
  <2>3. k - 1 \in DOMAIN t /\ (k - 1) + 1 = k
    BY <1>1, <2>1, <2>2
  <2> QED BY <1>2, <2>1, <2>3 DEF Range
<1>6. NoRepeats(t)
  <2> SUFFICES ASSUME NEW m \in DOMAIN t, NEW n \in DOMAIN t, t[m] = t[n] PROVE m = n
    BY DEF NoRepeats
  <2>1. m + 1 = n + 1
    BY <1>2 DEF NoRepeats
  <2> QED BY <1>1, <2>1
<1>7. Head(s) \in Range(s)
  BY <1>3 DEF Range
<1> QED BY <1>4, <1>5, <1>6, <1>7

\* Appending something new repeats nothing.
LEMMA NoRepeatsAppend ==
    ASSUME NEW S, NEW s \in Seq(S), NEW x \in S, NoRepeats(s), x \notin Range(s)
    PROVE  NoRepeats(Append(s, x))
<1> DEFINE t == Append(s, x)
<1>1. DOMAIN t = 1 .. Len(s) + 1 /\ DOMAIN s = 1 .. Len(s) /\ Len(s) \in Nat
  OBVIOUS
<1>2. \A k \in 1 .. Len(s) : t[k] = s[k]
  OBVIOUS
<1>3. t[Len(s) + 1] = x
  OBVIOUS
<1>4. \A k \in DOMAIN s : s[k] # x
  BY DEF Range
<1> SUFFICES ASSUME NEW m \in DOMAIN t, NEW n \in DOMAIN t, t[m] = t[n] PROVE m = n
  BY DEF NoRepeats
<1>5. CASE m \in 1 .. Len(s) /\ n \in 1 .. Len(s)
  BY <1>1, <1>2, <1>5 DEF NoRepeats
<1>6. CASE m = Len(s) + 1 \/ n = Len(s) + 1
  BY <1>1, <1>2, <1>3, <1>4, <1>6
<1> QED BY <1>1, <1>5, <1>6

\* What is in hand behind the first one, repeated or not.
LEMMA TailKeeps ==
    ASSUME NEW S, NEW s \in Seq(S), s # <<>>
    PROVE  Range(Tail(s)) \subseteq Range(s)
<1> SUFFICES ASSUME NEW y \in Range(Tail(s)) PROVE y \in Range(s)
  OBVIOUS
<1>1. PICK k \in DOMAIN Tail(s) : y = Tail(s)[k]
  BY DEF Range
<1>2. k + 1 \in DOMAIN s /\ y = s[k + 1]
  BY <1>1
<1> QED BY <1>2 DEF Range

\* Copies counts, and an empty queue has none.
LEMMA CopiesType ==
    ASSUME NEW S, NEW s \in Seq(S), NEW w
    PROVE  Copies(s, w) \in Nat /\ IsFiniteSet({k \in DOMAIN s : s[k] = w}) /\ Copies(<<>>, w) = 0
<1>1. DOMAIN s = 1 .. Len(s) /\ Len(s) \in Nat
  OBVIOUS
<1>2. IsFiniteSet(1 .. Len(s))
  BY <1>1, FS_Interval
<1>3. IsFiniteSet({k \in DOMAIN s : s[k] = w})
  BY <1>1, <1>2, FS_Subset
<1>4. {k \in DOMAIN <<>> : <<>>[k] = w} = {}
  OBVIOUS
<1> QED BY <1>3, <1>4, FS_CardinalityType, FS_EmptySet DEF Copies

\* A frame added is one copy of itself and none of the others.
LEMMA CopiesAppend ==
    ASSUME NEW S, NEW s \in Seq(S), NEW x \in S, NEW w
    PROVE  Copies(Append(s, x), w) = Copies(s, w) + (IF x = w THEN 1 ELSE 0)
<1> DEFINE t == Append(s, x)
<1> DEFINE old == {k \in DOMAIN s : s[k] = w}
<1> DEFINE new == {k \in DOMAIN t : t[k] = w}
<1>1. DOMAIN t = 1 .. Len(s) + 1 /\ DOMAIN s = 1 .. Len(s) /\ Len(s) \in Nat
  OBVIOUS
<1>2. (\A k \in 1 .. Len(s) : t[k] = s[k]) /\ t[Len(s) + 1] = x
  OBVIOUS
<1>3. Copies(s, w) = Cardinality(old) /\ Copies(t, w) = Cardinality(new)
  BY DEF Copies
<1>4. IsFiniteSet(old) /\ Cardinality(old) \in Nat
  BY <1>3, CopiesType
<1>5. Len(s) + 1 \notin old
  BY <1>1
<1>6. CASE x = w
  <2>1. new = old \cup {Len(s) + 1}
    BY <1>1, <1>2, <1>6
  <2>2. Cardinality(old \cup {Len(s) + 1}) = Cardinality(old) + 1
    BY <1>4, <1>5, FS_AddElement, Zenon
  <2> QED BY <1>3, <1>6, <2>1, <2>2, Zenon
<1>7. CASE x # w
  <2>1. new = old
    BY <1>1, <1>2, <1>7
  <2> HIDE DEF old, new
  <2> QED BY <1>3, <1>4, <1>7, <2>1
<1> QED BY <1>6, <1>7

\* A frame taken was one copy of itself.
LEMMA CopiesTail ==
    ASSUME NEW S, NEW s \in Seq(S), s # <<>>, NEW w
    PROVE  Copies(s, w) = Copies(Tail(s), w) + (IF Head(s) = w THEN 1 ELSE 0)
<1> DEFINE t == Tail(s)
<1> DEFINE old == {k \in DOMAIN s : s[k] = w}
<1> DEFINE new == {k \in DOMAIN t : t[k] = w}
<1> DEFINE rest == old \ {1}
<1> DEFINE f == [k \in new |-> k + 1]
<1>1. t \in Seq(S) /\ DOMAIN t = 1 .. Len(s) - 1 /\ DOMAIN s = 1 .. Len(s) /\ Len(s) \in Nat /\ Len(s) > 0
  OBVIOUS
<1>2. (\A k \in DOMAIN t : t[k] = s[k + 1]) /\ Head(s) = s[1]
  OBVIOUS
<1>3. f \in [new -> rest]
  <2> SUFFICES ASSUME NEW k \in new PROVE k + 1 \in rest
    OBVIOUS
  <2> QED BY <1>1, <1>2
<1>4. \A m, n \in new : f[m] = f[n] => m = n
  BY <1>1
<1>5. \A n \in rest : \E m \in new : f[m] = n
  <2> SUFFICES ASSUME NEW n \in rest PROVE n - 1 \in new /\ f[n - 1] = n
    BY Zenon
  <2> QED BY <1>1, <1>2
<1>6. f \in Bijection(new, rest)
  BY <1>3, <1>4, <1>5 DEF Bijection, Injection, Surjection, IsInjective
<1>7. Copies(s, w) = Cardinality(old) /\ Copies(t, w) = Cardinality(new)
  BY DEF Copies
<1>8. IsFiniteSet(old) /\ IsFiniteSet(new) /\ Cardinality(new) \in Nat /\ Cardinality(old) \in Nat
  BY <1>7, <1>1, CopiesType, Zenon
<1>9. Cardinality(rest) = Cardinality(new)
  BY <1>6, <1>8, FS_Bijection, ZenonT(30) DEF ExistsBijection
<1>10. Cardinality(rest) = IF 1 \in old THEN Cardinality(old) - 1 ELSE Cardinality(old)
  BY <1>8, FS_RemoveElement, Zenon
<1>11. 1 \in old <=> Head(s) = w
  BY <1>1, <1>2
<1> HIDE DEF old, new, rest
<1> QED BY <1>7, <1>8, <1>9, <1>10, <1>11

\* What a session holds of a whisper is a number, and none once it is gone.
LEMMA QueueType ==
    ASSUME NEW s \in Session \cup {None}, NEW w
    PROVE  InQueue(s, w) \in Nat /\ InQueue(None, w) = 0
<1>1. s # None => s.out \in Seq(Frames)
  BY DEF Session, Frames
<1> QED BY <1>1, CopiesType, Zenon DEF InQueue
----------------------------------------------------------------------------
(* What the steps do to a session, a queue and a worker *)

\* A session that one more frame waits on for the identity is a session still.
LEMMA PendingMore ==
    ASSUME NEW s \in Session
    PROVE  LET t == [s EXCEPT !.pending = IF @ < MaxPending THEN @ + 1 ELSE @]
           IN  t \in Session /\ t.identified = s.identified /\ t.welcomed = s.welcomed /\ t.out = s.out
<1>1. (IF s.pending < MaxPending THEN s.pending + 1 ELSE s.pending) \in Nat
  <2>1. s.pending \in Nat
    BY Zenon DEF Session
  <2> QED BY <2>1
<1> QED BY <1>1, Zenon DEF Session

\* session.enqueue and closeAfterFlush leave a session a session, and touch
\* nothing but its queue and its state.
LEMMA SessionKept ==
    ASSUME NEW s \in Session, NEW frame \in Frames
    PROVE  /\ s # None
           /\ Offer(s, frame) \in Session /\ CloseAfterFlush(s) \in Session
           /\ Offer(s, frame) = [s EXCEPT !.out = Offer(s, frame).out]
           /\ Offer(s, frame).out = s.out \/ Offer(s, frame).out = Append(s.out, frame)
           /\ CloseAfterFlush(s) = [s EXCEPT !.state = CloseAfterFlush(s).state]
           /\ CloseAfterFlush(s).state # "open"
<1>1. s.out \in Seq(Frames) /\ Append(s.out, frame) \in Seq(Frames)
  BY DEF Session, Frames
<1>2. Offer(s, frame) \in Session /\ CloseAfterFlush(s) \in Session
  BY <1>1, Zenon DEF Session, Frames, Offer, CloseAfterFlush
<1>3. s = [s EXCEPT !.out = s.out] /\ s = [s EXCEPT !.state = s.state]
  BY DEF Session
<1>4. [s EXCEPT !.out = Append(s.out, frame)].out = Append(s.out, frame)
  BY DEF Session
<1>5. [s EXCEPT !.state = "closing"].state = "closing"
  BY DEF Session
<1> QED BY <1>2, <1>3, <1>4, <1>5, NoneIsNoSession, Zenon DEF Offer, CloseAfterFlush

\* newSession makes a session.
LEMMA NewSessionType == NewSession \in Session
<1>1. <<>> \in Seq(Whispers \cup {"welcome", "ping"})
  OBVIOUS
<1> QED BY <1>1 DEF NewSession, Session

\* A callback is queued behind the others, waits for the queue, or was data.
LEMMA EnqueueKeeps ==
    ASSUME SessionsTypes, NEW l \in Links, NEW kind \in Kinds, Enqueue(l, kind)
    PROVE  /\ jobs' \in [Links -> Seq(Kinds)] /\ late' \in [Links -> SUBSET Lifecycle]
           /\ \A k \in Links : k # l => jobs'[k] = jobs[k] /\ late'[k] = late[k]
           /\ \/ jobs'[l] = Append(jobs[l], kind) /\ late'[l] = late[l]
              \/ jobs'[l] = jobs[l] /\ late'[l] = late[l] \cup {kind}
              \/ jobs'[l] = jobs[l] /\ late'[l] = late[l] /\ kind \notin Lifecycle
<1>1. Append(jobs[l], kind) \in Seq(Kinds)
  BY DEF SessionsTypes
<1>2. CASE jobs' = [jobs EXCEPT ![l] = Append(@, kind)] /\ late' = late
  BY <1>1, <1>2 DEF SessionsTypes
<1>3. CASE kind \in Lifecycle /\ late' = [late EXCEPT ![l] = @ \cup {kind}] /\ jobs' = jobs
  BY <1>3 DEF SessionsTypes
<1>4. CASE kind \notin Lifecycle /\ late' = late /\ jobs' = jobs
  BY <1>4, Zenon DEF SessionsTypes
<1> QED BY <1>2, <1>3, <1>4 DEF Enqueue, queues

\* A link that is taken down was up, and reports its close.
LEMMA TeardownKeeps ==
    ASSUME SessionsTypes, NEW l \in Links, Teardown(l)
    PROVE  /\ link' \in [Links -> {"new", "up", "down"}]
           /\ jobs' \in [Links -> Seq(Kinds)] /\ late' \in [Links -> SUBSET Lifecycle]
           /\ \A k \in Links : k # l => link'[k] = link[k] /\ jobs'[k] = jobs[k] /\ late'[k] = late[k]
           /\ \/ link'[l] = link[l] /\ jobs'[l] = jobs[l] /\ late'[l] = late[l]
              \/ jobs'[l] = Append(jobs[l], "closed") /\ late'[l] = late[l]
              \/ jobs'[l] = jobs[l] /\ late'[l] = late[l] \cup {"closed"}
<1>1. CASE link[l] = "up"
  <2>1. link' = [link EXCEPT ![l] = "down"] /\ Enqueue(l, "closed")
    BY <1>1 DEF Teardown
  <2>2. "closed" \in Kinds /\ "closed" \in Lifecycle
    BY DEF Kinds, Lifecycle
  <2> QED BY <2>1, <2>2, EnqueueKeeps DEF SessionsTypes
<1>2. CASE link[l] # "up"
  BY <1>2 DEF Teardown, SessionsTypes, queues
<1> QED BY <1>1, <1>2, Zenon

\* A worker takes the first of a link's callbacks, when it has nothing else to do.
LEMMA TakeJobKeeps ==
    ASSUME SessionsTypes, NEW l \in Links, NEW kind, TakeJob(l, kind)
    PROVE  /\ jobs' \in [Links -> Seq(Kinds)]
           /\ \A k \in Links : k # l => jobs'[k] = jobs[k]
           /\ jobs[l] \in Seq(Kinds) /\ jobs[l] # <<>> /\ Head(jobs[l]) = kind
           /\ jobs'[l] = Tail(jobs[l])
           /\ UNCHANGED <<link, late, whisper, banned, events, fanout, dropped, got>>
<1>1. jobs[l] \in Seq(Kinds) /\ jobs[l] # <<>>
  BY DEF SessionsTypes, TakeJob, history
<1>2. Tail(jobs[l]) \in Seq(Kinds)
  BY <1>1
<1> QED BY <1>1, <1>2, Zenon DEF SessionsTypes, TakeJob, chat, feed, history
----------------------------------------------------------------------------
(* Steps of one link's goroutines *)

LinkStep(l) ==
    \/ LinkOpens(l) \/ LinkIdentifies(l) \/ LinkSends(l) \/ LinkCloses(l)
    \/ \E kind \in Lifecycle : LateArrives(l, kind)
    \/ Work(l) \/ Writer(l) \/ Time(l) \/ Keepalive(l)

\* Such a step leaves the other links alone.
OnlyOf(l) ==
    \A k \in Links \ {l} :
        /\ link'[k] = link[k] /\ jobs'[k] = jobs[k] /\ late'[k] = late[k]
        /\ worker'[k] = worker[k] /\ sess'[k] = sess[k] /\ got'[k] = got[k]
        /\ keepalive'[k] = keepalive[k]

\* A callback only queues itself.
LEMMA CallbackKeeps ==
    ASSUME SessionsShape, NEW l \in Links,
           \/ LinkOpens(l) \/ LinkIdentifies(l) \/ LinkSends(l) \/ LinkCloses(l)
           \/ \E kind \in Lifecycle : LateArrives(l, kind)
    PROVE  SessionsTypes' /\ OnlyOf(l) /\ UNCHANGED <<server, chat, feed, got>>
<1>1. {"established", "identified", "closed", "data"} \subseteq Kinds
  BY Zenon DEF Kinds, Lifecycle
<1>2. CASE LinkOpens(l)
  <2>1. Enqueue(l, "established") /\ "established" \in Kinds
    BY <1>1, <1>2, Zenon DEF LinkOpens, history
  <2> QED BY <1>2, <2>1, EnqueueKeeps, Zenon
             DEF LinkOpens, SessionsShape, SessionsTypes, OnlyOf, server, chat, feed, history
<1>3. CASE LinkIdentifies(l)
  <2>1. Enqueue(l, "identified") /\ "identified" \in Kinds
    BY <1>1, <1>3, Zenon DEF LinkIdentifies, history
  <2> QED BY <1>3, <2>1, EnqueueKeeps DEF LinkIdentifies, SessionsShape, SessionsTypes, OnlyOf, server, chat, feed, history
<1>4. CASE LinkSends(l)
  <2>1. Enqueue(l, "data") /\ "data" \in Kinds
    BY <1>1, <1>4, Zenon DEF LinkSends, history
  <2> QED BY <1>4, <2>1, EnqueueKeeps, Zenon
             DEF LinkSends, SessionsShape, SessionsTypes, OnlyOf, server, chat, feed, history
<1>5. CASE LinkCloses(l)
  BY <1>5, TeardownKeeps DEF LinkCloses, SessionsShape, SessionsTypes, OnlyOf, server, chat, feed, history
<1>6. ASSUME NEW kind \in Lifecycle, LateArrives(l, kind)
      PROVE  SessionsTypes' /\ OnlyOf(l) /\ UNCHANGED <<server, chat, feed, got>>
  <2>1. Append(jobs[l], kind) \in Seq(Kinds)
    BY DEF SessionsShape, SessionsTypes, Kinds
  <2> QED BY <1>6, <2>1 DEF LateArrives, SessionsShape, SessionsTypes, OnlyOf, server, chat, feed, history
<1> QED BY <1>2, <1>3, <1>4, <1>5, <1>6, Zenon

\* The writer takes a frame, or all of them, or takes the link down.
LEMMA WriterKeeps ==
    ASSUME SessionsShape, NEW l \in Links, Writer(l)
    PROVE  /\ SessionsTypes' /\ OnlyOf(l) /\ sess[l] # None
           /\ \E out \in Seq(Frames), state \in {"open", "closing", "flushed", "stopped"} :
                /\ sess'[l] = [sess[l] EXCEPT !.out = out, !.state = state]
                /\ state = "open" => sess[l].state = "open"
           /\ UNCHANGED <<worker, keepalive, chat, feed>>
<1>1. sess[l] \in Session /\ sess[l] # None
  BY DEF SessionsShape, SessionsTypes, Writer, WriterSends, WriterStops, WriterFlushed, history
<1>2. sess[l].out \in Seq(Frames) /\ <<>> \in Seq(Frames)
  BY <1>1 DEF Session, Frames
<1>3. CASE WriterSends(l)
  <2>1. Tail(sess[l].out) \in Seq(Frames) /\ Head(sess[l].out) \in Frames
    BY <1>2, <1>3 DEF WriterSends, history
  <2>2. sess' = [sess EXCEPT ![l] = [sess[l] EXCEPT !.out = Tail(sess[l].out)]]
    BY <1>1, <1>3 DEF WriterSends, SessionsShape, SessionsTypes, history
  <2>3. [sess[l] EXCEPT !.out = Tail(sess[l].out)] \in Session
    BY <1>1, <2>1, Zenon DEF Session, Frames
  <2>4. [sess[l] EXCEPT !.out = Tail(sess[l].out)]
            = [sess[l] EXCEPT !.out = Tail(sess[l].out), !.state = sess[l].state]
    BY <1>1, Zenon DEF Session
  <2>5. sess[l].state \in {"open", "closing", "flushed", "stopped"}
    BY <1>1 DEF Session
  <2>6. got' \in [Links -> [Whispers -> Nat]] /\ \A k \in Links \ {l} : got'[k] = got[k]
    BY <1>3 DEF WriterSends, SessionsShape, SessionsTypes, history
  <2>7. SessionsTypes' /\ OnlyOf(l) /\ UNCHANGED <<worker, keepalive, chat, feed>>
    <3>1. UNCHANGED <<link, queues, worker, keepalive, chat, feed>>
      BY <1>3, Zenon DEF WriterSends
    <3>2. sess' \in [Links -> Session \cup {None}] /\ \A k \in Links \ {l} : sess'[k] = sess[k]
      BY <2>2, <2>3, Zenon DEF SessionsShape, SessionsTypes
    <3> QED BY <2>6, <3>1, <3>2, Zenon DEF SessionsShape, SessionsTypes, OnlyOf, queues, chat, feed
  <2>8. sess'[l] = [sess[l] EXCEPT !.out = Tail(sess[l].out), !.state = sess[l].state]
    BY <2>2, <2>4, Zenon DEF SessionsShape, SessionsTypes
  <2> QED BY <1>1, <2>1, <2>5, <2>7, <2>8, Zenon
<1>4. CASE WriterStops(l)
  <2>2. sess' = [sess EXCEPT ![l] = [sess[l] EXCEPT !.out = <<>>]]
    BY <1>1, <1>4 DEF WriterStops, SessionsShape, SessionsTypes, history
  <2>3. [sess[l] EXCEPT !.out = <<>>] \in Session
    BY <1>1, <1>2, Zenon DEF Session, Frames
  <2>4. [sess[l] EXCEPT !.out = <<>>] = [sess[l] EXCEPT !.out = <<>>, !.state = sess[l].state]
    BY <1>1, Zenon DEF Session
  <2>5. sess[l].state \in {"open", "closing", "flushed", "stopped"}
    BY <1>1 DEF Session
  <2>7. SessionsTypes' /\ OnlyOf(l) /\ UNCHANGED <<worker, keepalive, chat, feed>>
    BY <1>4, <2>2, <2>3 DEF WriterStops, SessionsShape, SessionsTypes, OnlyOf, queues, chat, feed, history
  <2>8. sess'[l] = [sess[l] EXCEPT !.out = <<>>, !.state = sess[l].state]
    BY <2>2, <2>4, Zenon DEF SessionsShape, SessionsTypes
  <2> QED BY <1>1, <1>2, <2>5, <2>7, <2>8, Zenon
<1>5. CASE WriterFlushed(l)
  <2>2. sess' = [sess EXCEPT ![l] = [sess[l] EXCEPT !.state = "flushed"]]
    BY <1>1, <1>5 DEF WriterFlushed, SessionsShape, SessionsTypes, history
  <2>3. [sess[l] EXCEPT !.state = "flushed"] \in Session
    BY <1>1 DEF Session
  <2>4. [sess[l] EXCEPT !.state = "flushed"] = [sess[l] EXCEPT !.out = sess[l].out, !.state = "flushed"]
    BY <1>1, Zenon DEF Session
  <2>7. SessionsTypes' /\ OnlyOf(l) /\ UNCHANGED <<worker, keepalive, chat, feed>>
    BY <1>5, <2>2, <2>3, TeardownKeeps DEF WriterFlushed, SessionsShape, SessionsTypes, OnlyOf, chat, feed, history
  <2>8. sess'[l] = [sess[l] EXCEPT !.out = sess[l].out, !.state = "flushed"]
    BY <2>2, <2>4 DEF SessionsShape, SessionsTypes
  <2> QED BY <1>1, <1>2, <2>7, <2>8, Zenon
<1> QED BY <1>3, <1>4, <1>5, Zenon DEF Writer

\* A frame of an identified link is heard, and a HELLO makes the link unwelcomed.
LEMMA HandleKeeps ==
    ASSUME SessionsTypes, NEW l \in Links, NEW w \in Worker, sess[l] \in Session, Handle(l, w)
    PROVE  /\ sess' \in [Links -> Session \cup {None}] /\ worker' \in [Links -> Worker]
           /\ \A k \in Links \ {l} : sess'[k] = sess[k] /\ worker'[k] = worker[k]
           /\ sess'[l] \in Session /\ sess'[l].identified = sess[l].identified
           /\ sess'[l].state = sess[l].state /\ sess'[l].out = sess[l].out
           /\ \/ sess'[l].welcomed = sess[l].welcomed /\ worker'[l] = w
              \/ ~sess'[l].welcomed /\ worker'[l] = [w EXCEPT !.pc = "identify"]
<1> DEFINE heard == [sess[l] EXCEPT !.due = @ /\ ~sess[l].welcomed, !.pinged = FALSE]
<1> DEFINE hello == [heard EXCEPT !.welcomed = FALSE]
<1>1. heard \in Session /\ hello \in Session
  BY Zenon DEF Session
<1>2. /\ heard.identified = sess[l].identified /\ hello.identified = sess[l].identified
      /\ heard.state = sess[l].state /\ hello.state = sess[l].state
      /\ heard.out = sess[l].out /\ hello.out = sess[l].out
      /\ heard.welcomed = sess[l].welcomed /\ ~hello.welcomed
  BY DEF Session
<1>3. [w EXCEPT !.pc = "identify"] \in Worker
  BY DEF Worker
<1>4. \/ sess' = [sess EXCEPT ![l] = heard] /\ worker' = [worker EXCEPT ![l] = w]
      \/ sess' = [sess EXCEPT ![l] = hello] /\ worker' = [worker EXCEPT ![l] = [w EXCEPT !.pc = "identify"]]
  BY DEF Handle
<1> HIDE DEF heard, hello
<1>5. sess \in [Links -> Session \cup {None}] /\ worker \in [Links -> Worker]
  BY DEF SessionsTypes
<1>6. CASE sess' = [sess EXCEPT ![l] = heard] /\ worker' = [worker EXCEPT ![l] = w]
  BY <1>1, <1>2, <1>5, <1>6
<1>7. CASE /\ sess' = [sess EXCEPT ![l] = hello]
           /\ worker' = [worker EXCEPT ![l] = [w EXCEPT !.pc = "identify"]]
  BY <1>1, <1>2, <1>3, <1>5, <1>7, Zenon
<1> QED BY <1>4, <1>6, <1>7, Zenon

\* A worker that handles a callback has an identified session whenever it goes on
\* to ask the hub.
LEMMA JobKeeps ==
    ASSUME SessionsShape, NEW l \in Links,
           Established(l) \/ Identified(l) \/ Data(l) \/ Closed(l)
    PROVE  /\ SessionsTypes' /\ OnlyOf(l) /\ WorkerHasSession(l)'
           /\ UNCHANGED <<link, late, chat, feed, got>>
<1> DEFINE s == SessionFor(l)
<1>1. /\ s \in Session /\ worker[l] \in Worker /\ s # None
      /\ sess[l] # None => s = sess[l]
      /\ sess[l] = None => s = NewSession
  BY NewSessionType, NoneIsNoSession, Zenon DEF SessionFor, SessionsShape, SessionsTypes
<1>2. s.welcomed => s.identified
  BY <1>1 DEF SessionsShape, WorkerHasSession, NewSession
<1>3. s.pending \in Nat /\ s.identified \in BOOLEAN /\ (~s.identified => ~s.welcomed)
  BY <1>1, <1>2, Zenon DEF Session
<1> HIDE DEF s
<1>4. CASE Established(l)
  <2>1. TakeJob(l, "established")
    BY <1>4 DEF Established
  <2>2. sess' = [sess EXCEPT ![l] = s] /\ UNCHANGED <<worker, keepalive>>
    BY <1>4, Zenon DEF Established, s
  <2>3. SessionsTypes' /\ OnlyOf(l) /\ UNCHANGED <<link, late, chat, feed, got>>
    BY <2>1, <2>2, <1>1, TakeJobKeeps, Zenon DEF SessionsShape, SessionsTypes, OnlyOf, chat, feed
  <2>4. sess'[l] = s /\ worker[l].pc = "idle" /\ worker[l].replay = 0
    BY <2>1, <2>2 DEF SessionsShape, SessionsTypes, TakeJob, Free, history
  <2> QED BY <1>1, <1>2, <2>2, <2>3, <2>4 DEF WorkerHasSession
<1>5. CASE Identified(l)
  <2>1. TakeJob(l, "identified") /\ UNCHANGED keepalive
    BY <1>5 DEF Identified
  <2>2. worker[l].pc = "idle" /\ worker[l].replay = 0
    BY <2>1, Zenon DEF TakeJob, Free, history
  <2>3. CASE s.identified
    <3>1. UNCHANGED <<worker, sess>>
      BY <1>5, <2>3, Zenon DEF Identified, s
    <3>2. SessionsTypes' /\ OnlyOf(l) /\ UNCHANGED <<link, late, chat, feed, got>>
      BY <2>1, <3>1, TakeJobKeeps, Zenon DEF SessionsShape, SessionsTypes, OnlyOf, chat, feed
    <3> QED BY <2>1, <3>1, <3>2, Zenon DEF SessionsShape, WorkerHasSession
  <2>4. CASE ~s.identified
    <3> DEFINE t == [s EXCEPT !.identified = TRUE, !.pending = 0]
    <3> DEFINE v == [worker[l] EXCEPT !.pc = "check", !.replay = s.pending]
    <3>1. sess' = [sess EXCEPT ![l] = t] /\ worker' = [worker EXCEPT ![l] = v]
      BY <1>5, <2>4, Zenon DEF Identified, s, SessionsShape, SessionsTypes
    <3>2. t \in Session /\ t.identified /\ v \in Worker /\ v.pc = "check"
      BY <1>1, <1>3, Zenon DEF Session, Worker
    <3>3. t # None
      BY <3>2, NoneIsNoSession
    <3> HIDE DEF t, v
    <3>4. SessionsTypes' /\ OnlyOf(l) /\ UNCHANGED <<link, late, chat, feed, got>>
      BY <2>1, <3>1, <3>2, TakeJobKeeps, Zenon DEF SessionsShape, SessionsTypes, OnlyOf, chat, feed
    <3>5. sess'[l] = t /\ worker'[l] = v
      BY <3>1, Zenon DEF SessionsShape, SessionsTypes
    <3> QED BY <3>2, <3>3, <3>4, <3>5, Zenon DEF WorkerHasSession
  <2> QED BY <2>3, <2>4
<1>6. CASE Data(l)
  <2>1. TakeJob(l, "data") /\ UNCHANGED keepalive
    BY <1>6 DEF Data
  <2>2. worker[l].pc = "idle" /\ worker[l].replay = 0
    BY <2>1, Zenon DEF TakeJob, Free, history
  <2>3. CASE s.identified
    <3>1. Handle(l, worker[l])
      BY <1>6, <2>3, Zenon DEF Data, s
    <3>2. sess[l] # None /\ sess[l] \in Session /\ sess[l].identified
      BY <1>1, <2>3 DEF NewSession, SessionsShape, SessionsTypes
    <3>3. /\ sess' \in [Links -> Session \cup {None}] /\ worker' \in [Links -> Worker]
          /\ \A k \in Links \ {l} : sess'[k] = sess[k] /\ worker'[k] = worker[k]
          /\ sess'[l] \in Session /\ sess'[l].identified
          /\ worker'[l].pc # "mark"
      <4>1. [worker[l] EXCEPT !.pc = "identify"].pc = "identify"
        BY <1>1 DEF Worker
      <4> QED BY <1>1, <2>2, <3>1, <3>2, <4>1, HandleKeeps, Zenon DEF SessionsShape
    <3>4. SessionsTypes' /\ OnlyOf(l) /\ UNCHANGED <<link, late, chat, feed, got>>
      BY <2>1, <3>3, TakeJobKeeps, Zenon DEF SessionsShape, SessionsTypes, OnlyOf, chat, feed
    <3> QED BY <3>3, <3>4, NoneIsNoSession DEF WorkerHasSession
  <2>4. CASE ~s.identified
    <3> DEFINE t == [s EXCEPT !.pending = IF @ < MaxPending THEN @ + 1 ELSE @]
    <3>1. sess' = [sess EXCEPT ![l] = t] /\ UNCHANGED worker
      BY <1>6, <2>4 DEF Data, s
    <3>2. t \in Session /\ t.identified = s.identified /\ t.welcomed = s.welcomed
      BY <1>1, <1>3, PendingMore, Zenon
    <3>3. t # None
      BY <3>2, NoneIsNoSession, Zenon
    <3> HIDE DEF t
    <3>4. SessionsTypes' /\ OnlyOf(l) /\ UNCHANGED <<link, late, chat, feed, got>>
      BY <2>1, <3>1, <3>2, TakeJobKeeps, Zenon DEF SessionsShape, SessionsTypes, OnlyOf, chat, feed
    <3>5. sess'[l] = t
      BY <3>1, Zenon DEF SessionsShape, SessionsTypes
    <3>6. worker'[l].pc = "idle" /\ ~(worker'[l].replay > 0)
      BY <2>2, <3>1
    <3> QED BY <1>2, <3>2, <3>3, <3>4, <3>5, <3>6, Zenon DEF WorkerHasSession
  <2> QED BY <2>3, <2>4
<1>7. CASE Closed(l)
  <2>1. /\ TakeJob(l, "closed") /\ UNCHANGED worker
        /\ sess' = [sess EXCEPT ![l] = None] /\ keepalive' = [keepalive EXCEPT ![l] = "no"]
    BY <1>7, Zenon DEF Closed
  <2>2. worker[l].pc = "idle" /\ worker[l].replay = 0
    BY <2>1, Zenon DEF TakeJob, Free, history
  <2>3. SessionsTypes' /\ OnlyOf(l) /\ UNCHANGED <<link, late, chat, feed, got>>
    BY <2>1, TakeJobKeeps DEF SessionsShape, SessionsTypes, OnlyOf, chat, feed
  <2>4. sess'[l] = None /\ keepalive'[l] = "no"
    BY <2>1, Zenon DEF SessionsShape, SessionsTypes
  <2> QED BY <2>1, <2>2, <2>3, <2>4 DEF WorkerHasSession
<1> QED BY <1>4, <1>5, <1>6, <1>7

\* A callback leaves the frames of a session where they are, or ends it; it welcomes
\* nobody, and its worker has no backlog in hand.
LEMMA JobEffect ==
    ASSUME SessionsShape, NEW l \in Links,
           Established(l) \/ Identified(l) \/ Data(l) \/ Closed(l)
    PROVE  /\ worker[l].pc = "idle" /\ worker'[l].pc \in {"idle", "check", "identify"}
           /\ sess'[l] # None /\ sess'[l].welcomed => sess[l] # None /\ sess[l].welcomed
           /\ \/ sess'[l] = None
              \/ sess'[l] # None /\ sess[l] = None /\ sess'[l].out = <<>>
              \/ sess'[l] # None /\ sess[l] # None /\ sess'[l].out = sess[l].out
<1> DEFINE s == SessionFor(l)
<1>1. /\ s \in Session /\ worker[l] \in Worker /\ s # None /\ SessionsTypes
      /\ sess[l] # None => s = sess[l]
      /\ sess[l] = None => s = NewSession
  BY NewSessionType, NoneIsNoSession, ZenonT(30) DEF SessionFor, SessionsShape, SessionsTypes
<1>2. sess[l] = None => ~s.identified /\ ~s.welcomed /\ s.out = <<>>
  BY <1>1 DEF NewSession
<1>3. worker[l].pc = "idle"
  BY Zenon DEF Established, Identified, Data, Closed, TakeJob, Free, history
<1>4. ASSUME NEW t \in Session, t.out = s.out, t.welcomed => s.welcomed, sess'[l] = t,
             worker'[l].pc \in {"idle", "check", "identify"}
      PROVE  /\ worker[l].pc = "idle" /\ worker'[l].pc \in {"idle", "check", "identify"}
             /\ sess'[l] # None /\ sess'[l].welcomed => sess[l] # None /\ sess[l].welcomed
             /\ \/ sess'[l] # None /\ sess[l] = None /\ sess'[l].out = <<>>
                \/ sess'[l] # None /\ sess[l] # None /\ sess'[l].out = sess[l].out
  <2>1. sess'[l] # None
    BY <1>4, NoneIsNoSession, Zenon
  <2> QED BY <1>1, <1>2, <1>3, <1>4, <2>1, Zenon
<1> HIDE DEF s
<1>5. CASE Established(l)
  <2>1. sess'[l] = s /\ worker' = worker
    BY <1>1, <1>5, Zenon DEF Established, SessionsTypes, s
  <2> QED BY <1>1, <1>3, <1>4, <2>1, Zenon
<1>6. CASE Identified(l)
  <2>1. CASE s.identified
    <3>1. UNCHANGED <<worker, sess>> /\ sess[l] # None
      BY <1>2, <1>6, <2>1, Zenon DEF Identified, s
    <3> QED BY <1>3, <3>1
  <2>2. CASE ~s.identified
    <3> DEFINE t == [s EXCEPT !.identified = TRUE, !.pending = 0]
    <3>1. t \in Session /\ t.out = s.out /\ t.welcomed = s.welcomed
      BY <1>1, Zenon DEF Session
    <3>2. worker'[l].pc = "check"
      BY <1>1, <1>6, <2>2 DEF Identified, SessionsTypes, Worker, s
    <3>3. sess'[l] = t
      BY <1>1, <1>6, <2>2, ZenonT(30) DEF Identified, SessionsTypes, s
    <3> HIDE DEF t
    <3> QED BY <1>4, <3>1, <3>2, <3>3, Zenon
  <2> QED BY <2>1, <2>2, Zenon
<1>7. CASE Data(l)
  <2>1. CASE s.identified
    <3>1. sess[l] # None /\ s = sess[l] /\ Handle(l, worker[l])
      BY <1>1, <1>2, <1>7, <2>1, Zenon DEF Data, s
    <3>2. [worker[l] EXCEPT !.pc = "identify"].pc = "identify"
      BY <1>1 DEF Worker
    <3>3. /\ sess'[l] \in Session /\ sess'[l].out = sess[l].out
          /\ sess'[l].welcomed => sess[l].welcomed
          /\ worker'[l].pc \in {"idle", "check", "identify"}
      BY <1>1, <1>3, <3>1, <3>2, HandleKeeps, ZenonT(30)
    <3> QED BY <1>4, <3>1, <3>3
  <2>2. CASE ~s.identified
    <3> DEFINE t == [s EXCEPT !.pending = IF @ < MaxPending THEN @ + 1 ELSE @]
    <3>1. t \in Session /\ t.out = s.out /\ t.welcomed = s.welcomed
      BY <1>1, PendingMore, Zenon
    <3>2. sess'[l] = t /\ worker' = worker
      BY <1>1, <1>7, <2>2, Zenon DEF Data, SessionsTypes, s
    <3> HIDE DEF t
    <3> QED BY <1>3, <1>4, <3>1, <3>2
  <2> QED BY <2>1, <2>2, Zenon
<1>8. CASE Closed(l)
  <2>1. sess'[l] = None /\ worker' = worker
    BY <1>1, <1>8, Zenon DEF Closed, SessionsTypes
  <2> QED BY <1>3, <2>1, Zenon
<1> QED BY <1>5, <1>6, <1>7, <1>8, Zenon

\* A worker in the middle of a job changes its own state and its session's.
LEMMA PairSet ==
    ASSUME SessionsShape, NEW l \in Links, NEW s \in Session, NEW v \in Worker,
           sess' = [sess EXCEPT ![l] = s], worker' = [worker EXCEPT ![l] = v],
           UNCHANGED <<link, jobs, late, keepalive, banned, feed, got>>,
           whisper' \in [Whispers -> {"unsaid", "unsent", "sent"}],
           s.identified, v.pc = "mark" => v.marking \in Whispers
    PROVE  /\ SessionsTypes' /\ OnlyOf(l) /\ WorkerHasSession(l)'
           /\ sess'[l] = s /\ worker'[l] = v
<1>1. SessionsTypes' /\ OnlyOf(l)
  BY Zenon DEF SessionsShape, SessionsTypes, OnlyOf, feed
<1>2. sess'[l] = s /\ worker'[l] = v /\ s # None
  BY NoneIsNoSession, Zenon DEF SessionsShape, SessionsTypes
<1> QED BY <1>1, <1>2, Zenon DEF WorkerHasSession

\* What a worker in the middle of a job does: hub.Identify's answer, the frames it
\* kept, and HELLO up to the last whisper of the backlog.
MidJob(l) ==
    CheckIdentity(l) \/ ReplayPending(l) \/ Hello(l)

\* Such a step is taken for an identified session, which it keeps.
LEMMA MidJobKeeps ==
    ASSUME SessionsShape, NEW l \in Links, MidJob(l)
    PROVE  /\ SessionsTypes' /\ OnlyOf(l) /\ WorkerHasSession(l)'
           /\ UNCHANGED <<link, jobs, late, keepalive, banned, feed, got>>
           /\ whisper' = whisper \/ whisper' = [whisper EXCEPT ![worker[l].marking] = "sent"]
           /\ sess[l] \in Session /\ sess[l].identified /\ worker[l] \in Worker
<1> DEFINE Goal ==
        /\ SessionsTypes' /\ OnlyOf(l) /\ WorkerHasSession(l)'
        /\ UNCHANGED <<link, jobs, late, keepalive, banned, feed, got>>
        /\ whisper' = whisper \/ whisper' = [whisper EXCEPT ![worker[l].marking] = "sent"]
<1>1. worker[l].pc # "idle" \/ worker[l].replay > 0
  BY Zenon
     DEF MidJob, CheckIdentity, ReplayPending, Hello, HelloIdentify, HelloWelcome, ReadMissed, SendMissed, MarkMissed, history
<1>2. sess[l] # None /\ sess[l].identified /\ sess[l] \in Session /\ worker[l] \in Worker
  BY <1>1 DEF SessionsShape, SessionsTypes, WorkerHasSession
<1>3. sess = [sess EXCEPT ![l] = sess[l]] /\ whisper \in [Whispers -> {"unsaid", "unsent", "sent"}]
  BY DEF SessionsShape, SessionsTypes
<1>4. ASSUME NEW pc \in {"idle", "check", "identify", "welcome", "missed", "send"}
      PROVE  [worker[l] EXCEPT !.pc = pc] \in Worker /\ [worker[l] EXCEPT !.pc = pc].pc = pc
  BY <1>2 DEF Worker
<1>5. CloseAfterFlush(sess[l]) \in Session /\ CloseAfterFlush(sess[l]).identified
  BY <1>2 DEF Session, CloseAfterFlush
<1>6. ASSUME NEW f \in Frames PROVE Offer(sess[l], f) \in Session /\ Offer(sess[l], f).identified
  <2>1. Offer(sess[l], f) \in Session /\ Offer(sess[l], f) = [sess[l] EXCEPT !.out = Offer(sess[l], f).out]
    BY <1>2, SessionKept, Zenon
  <2> DEFINE o == Offer(sess[l], f).out
  <2>2. [sess[l] EXCEPT !.out = o].identified = sess[l].identified
    BY <1>2, Zenon DEF Session
  <2> QED BY <1>2, <2>1, <2>2, Zenon
<1>7. CASE CheckIdentity(l)
  <2>1. UNCHANGED <<link, jobs, late, keepalive, whisper, banned, feed, got>>
    BY <1>7, Zenon DEF CheckIdentity, queues, chat, history
  <2>2. Idle \in Worker /\ Idle.pc = "idle"
    BY DEF Idle, Worker
  <2>3. \/ /\ sess' = [sess EXCEPT ![l] = CloseAfterFlush(sess[l])]
           /\ worker' = [worker EXCEPT ![l] = Idle]
        \/ /\ sess' = [sess EXCEPT ![l] = sess[l]]
           /\ worker' = [worker EXCEPT ![l] = [worker[l] EXCEPT !.pc = "idle"]]
    BY <1>3, <1>7, Zenon DEF CheckIdentity, SessionsShape, SessionsTypes
  <2>4. CASE sess' = [sess EXCEPT ![l] = CloseAfterFlush(sess[l])] /\ worker' = [worker EXCEPT ![l] = Idle]
    BY <1>2, <1>3, <1>5, <2>1, <2>2, <2>4, PairSet, Zenon
  <2>5. CASE /\ sess' = [sess EXCEPT ![l] = sess[l]]
             /\ worker' = [worker EXCEPT ![l] = [worker[l] EXCEPT !.pc = "idle"]]
    BY <1>2, <1>3, <1>4, <2>1, <2>5, PairSet, Zenon
  <2> QED BY <2>3, <2>4, <2>5, Zenon
<1>8. CASE ReplayPending(l)
  <2> DEFINE v == [worker[l] EXCEPT !.replay = @ - 1]
  <2>1. UNCHANGED <<link, jobs, late, keepalive, whisper, banned, feed, got>> /\ Handle(l, v)
    BY <1>8 DEF ReplayPending, queues, chat, history
  <2>2. v \in Worker /\ v.pc = "idle" /\ [v EXCEPT !.pc = "identify"].pc = "identify"
    BY <1>2, <1>8 DEF Worker, ReplayPending, history
  <2> HIDE DEF v
  <2>3. /\ sess' \in [Links -> Session \cup {None}] /\ worker' \in [Links -> Worker]
        /\ \A k \in Links \ {l} : sess'[k] = sess[k] /\ worker'[k] = worker[k]
        /\ sess'[l] \in Session /\ sess'[l].identified /\ worker'[l].pc # "mark"
    BY <1>2, <2>1, <2>2, HandleKeeps, ZenonT(30) DEF SessionsShape
  <2>4. SessionsTypes' /\ OnlyOf(l)
    BY <2>1, <2>3 DEF SessionsShape, SessionsTypes, OnlyOf, feed
  <2>5. sess'[l] # None
    BY <2>3, NoneIsNoSession
  <2>6. WorkerHasSession(l)'
    BY <2>3, <2>5, Zenon DEF WorkerHasSession
  <2> QED BY <1>2, <2>1, <2>4, <2>6, Zenon
<1>9. CASE HelloIdentify(l)
  <2>1. UNCHANGED <<link, jobs, late, keepalive, whisper, banned, feed, got>>
    BY <1>9, Zenon DEF HelloIdentify, queues, chat, history
  <2>3. \/ /\ sess' = [sess EXCEPT ![l] = CloseAfterFlush(sess[l])]
           /\ worker' = [worker EXCEPT ![l] = [worker[l] EXCEPT !.pc = "idle"]]
        \/ /\ sess' = [sess EXCEPT ![l] = sess[l]]
           /\ worker' = [worker EXCEPT ![l] = [worker[l] EXCEPT !.pc = "welcome"]]
    BY <1>3, <1>9, Zenon DEF HelloIdentify, SessionsShape, SessionsTypes
  <2>4. CASE /\ sess' = [sess EXCEPT ![l] = CloseAfterFlush(sess[l])]
             /\ worker' = [worker EXCEPT ![l] = [worker[l] EXCEPT !.pc = "idle"]]
    BY <1>2, <1>3, <1>4, <1>5, <2>1, <2>4, PairSet, Zenon
  <2>5. CASE /\ sess' = [sess EXCEPT ![l] = sess[l]]
             /\ worker' = [worker EXCEPT ![l] = [worker[l] EXCEPT !.pc = "welcome"]]
    BY <1>2, <1>3, <1>4, <2>1, <2>5, PairSet, Zenon
  <2> QED BY <2>3, <2>4, <2>5, Zenon
<1>10. CASE HelloWelcome(l)
  <2>1. UNCHANGED <<link, jobs, late, keepalive, whisper, banned, feed, got>>
    BY <1>10, Zenon DEF HelloWelcome, queues, chat, history
  <2>3. CASE Accepts(sess[l])
    <3> DEFINE o == Offer(sess[l], "welcome")
    <3>1. o \in Session /\ o.identified
      BY <1>6 DEF Frames
    <3> HIDE DEF o
    <3>2. [o EXCEPT !.welcomed = TRUE, !.due = FALSE] \in Session /\ [o EXCEPT !.welcomed = TRUE, !.due = FALSE].identified
      BY <3>1, Zenon DEF Session
    <3>3. sess' = [sess EXCEPT ![l] = [o EXCEPT !.welcomed = TRUE, !.due = FALSE]] /\ worker' = [worker EXCEPT ![l] = [worker[l] EXCEPT !.pc = "missed"]]
      BY <1>10, <2>3, ZenonT(30) DEF HelloWelcome, o, SessionsShape, SessionsTypes, history
    <3> QED BY <1>2, <1>3, <1>4, <2>1, <3>2, <3>3, PairSet, Zenon
  <2>4. CASE ~Accepts(sess[l])
    <3>1. sess' = [sess EXCEPT ![l] = sess[l]] /\ worker' = [worker EXCEPT ![l] = [worker[l] EXCEPT !.pc = "idle"]]
      BY <1>3, <1>10, <2>4, Zenon DEF HelloWelcome, SessionsShape, SessionsTypes, history
    <3> QED BY <1>2, <1>3, <1>4, <2>1, <3>1, PairSet, Zenon
  <2> QED BY <2>3, <2>4, Zenon
<1>11. ASSUME NEW m \in SUBSET Whispers PROVE AfterMissed(l, m) \in Worker /\ AfterMissed(l, m).pc # "mark"
  BY <1>2, Zenon DEF AfterMissed, Worker
<1>12. CASE ReadMissed(l)
  <2>1. UNCHANGED <<link, jobs, late, keepalive, whisper, banned, feed, got>>
    BY <1>12 DEF ReadMissed, queues, chat, history
  <2>2. PICK read \in {Unsent, {}} : worker' = [worker EXCEPT ![l] = AfterMissed(l, read)]
    BY <1>12, Zenon DEF ReadMissed
  <2>3. read \in SUBSET Whispers /\ sess' = [sess EXCEPT ![l] = sess[l]]
    BY <1>3, <1>12, Zenon DEF ReadMissed, Unsent
  <2> QED BY <1>2, <1>3, <1>11, <2>1, <2>2, <2>3, PairSet, Zenon
<1>13. ASSUME NEW w \in Whispers, SendMissed(l, w) PROVE Goal
  <2> DEFINE v == [worker[l] EXCEPT !.pc = "mark", !.marking = w]
  <2>1. UNCHANGED <<link, jobs, late, keepalive, whisper, banned, feed, got>>
    BY <1>13 DEF SendMissed, queues, chat, history
  <2>2. v \in Worker /\ v.marking = w
    BY <1>2, Zenon DEF Worker
  <2>3. sess' = [sess EXCEPT ![l] = Offer(sess[l], w)] /\ worker' = [worker EXCEPT ![l] = v]
    BY <1>13, Zenon DEF SendMissed, SessionsShape, SessionsTypes, history
  <2>4. Offer(sess[l], w) \in Session /\ Offer(sess[l], w).identified
    BY <1>6 DEF Frames
  <2> HIDE DEF v
  <2> QED BY <1>3, <2>1, <2>2, <2>3, <2>4, PairSet, ZenonT(30)
<1>14. CASE MarkMissed(l)
  <2> DEFINE m == worker[l].missed \ {worker[l].marking}
  <2>1. /\ UNCHANGED <<link, jobs, late, keepalive, banned, feed, got>>
        /\ whisper' = whisper \/ whisper' = [whisper EXCEPT ![worker[l].marking] = "sent"]
    BY <1>14, Zenon DEF MarkMissed, queues
  <2>2. m \in SUBSET Whispers
    BY <1>2, Zenon DEF Worker
  <2>3. sess' = [sess EXCEPT ![l] = sess[l]] /\ worker' = [worker EXCEPT ![l] = AfterMissed(l, m)]
    BY <1>3, <1>14 DEF MarkMissed, SessionsShape, SessionsTypes, history
  <2>4. whisper' \in [Whispers -> {"unsaid", "unsent", "sent"}]
    BY <1>3, <2>1, Zenon
  <2> HIDE DEF m
  <2> QED BY <1>2, <1>11, <2>1, <2>2, <2>3, <2>4, PairSet, Zenon
<1> QED BY <1>2, <1>7, <1>8, <1>9, <1>10, <1>12, <1>13, <1>14, Zenon DEF MidJob, Hello

\* Time and the keepalive leave what a session is for as it was: at most they
\* stop it, or add a PING.
LEMMA TimerKeeps ==
    ASSUME SessionsShape, NEW l \in Links, Time(l) \/ Keepalive(l)
    PROVE  /\ SessionsTypes' /\ OnlyOf(l) /\ WorkerHasSession(l)'
           /\ UNCHANGED <<worker, chat, feed, got>>
           /\ sess[l] \in Session /\ sess[l] # None /\ sess'[l] \in Session /\ sess'[l] # None
           /\ sess'[l].identified = sess[l].identified /\ sess'[l].welcomed = sess[l].welcomed
           /\ sess'[l].pending = sess[l].pending
           /\ sess'[l].state = "open" => sess[l].state = "open"
           /\ sess'[l].out = sess[l].out \/ sess'[l].out = Append(sess[l].out, "ping")
<1> DEFINE Like(t) ==
        /\ t \in Session
        /\ t.identified = sess[l].identified /\ t.welcomed = sess[l].welcomed
        /\ t.pending = sess[l].pending
        /\ t.state = "open" => sess[l].state = "open"
        /\ t.out = sess[l].out \/ t.out = Append(sess[l].out, "ping")
<1>1. sess[l] \in Session /\ sess[l] # None /\ worker[l] \in Worker /\ WorkerHasSession(l)
  BY Zenon
     DEF SessionsShape, SessionsTypes, WorkerHasSession, Time, Keepalive, KeepaliveLooks, KeepaliveCloses, KeepalivePings, KeepaliveMarks, history
<1>2. ASSUME NEW t, Like(t), sess' = [sess EXCEPT ![l] = t],
             SessionsTypes' /\ OnlyOf(l), UNCHANGED <<worker, chat, feed, got>>
      PROVE  /\ WorkerHasSession(l)' /\ sess'[l] = t /\ sess'[l] # None
             /\ Like(sess'[l])
  <2>1. sess'[l] = t /\ t \in Session /\ t # None
    BY <1>2, NoneIsNoSession, Zenon DEF SessionsShape, SessionsTypes
  <2> QED BY <1>1, <1>2, <2>1, Zenon DEF WorkerHasSession
<1>3. ASSUME NEW t \in Session, sess' = [sess EXCEPT ![l] = t],
             UNCHANGED <<link, queues, worker, chat, feed, got>>,
             NEW todo \in {"no", "close", "ping", "mark"}, keepalive' = [keepalive EXCEPT ![l] = todo]
      PROVE  SessionsTypes' /\ OnlyOf(l)
  BY <1>3, Zenon DEF SessionsShape, SessionsTypes, OnlyOf, queues, chat, feed
<1>4. CASE Time(l)
  <2> DEFINE t == [sess[l] EXCEPT !.due = TRUE]
  <2>1. sess' = [sess EXCEPT ![l] = t] /\ UNCHANGED <<link, queues, worker, keepalive, chat, feed, got>>
    BY <1>4, Zenon DEF Time, SessionsShape, SessionsTypes, history
  <2>2. Like(t)
    BY <1>1, Zenon DEF Session
  <2>3. keepalive' = [keepalive EXCEPT ![l] = keepalive[l]] /\ keepalive[l] \in {"no", "close", "ping", "mark"}
    BY <2>1, Zenon DEF SessionsShape, SessionsTypes
  <2> HIDE DEF Like, t
  <2>4. SessionsTypes' /\ OnlyOf(l) /\ t \in Session
    BY <1>3, <2>1, <2>2, <2>3, Zenon DEF Like
  <2>5. WorkerHasSession(l)' /\ sess'[l] # None /\ Like(sess'[l])
    BY <1>2, <2>1, <2>2, <2>4, Zenon
  <2> QED BY <1>1, <2>1, <2>4, <2>5, Zenon DEF Like
<1>5. CASE KeepaliveLooks(l)
  <2>1. UNCHANGED <<link, queues, worker, sess, chat, feed, got>>
    BY <1>5, Zenon DEF KeepaliveLooks, history
  <2>2. PICK todo \in {"close", "ping"} : keepalive' = [keepalive EXCEPT ![l] = todo]
    BY <1>5, Zenon DEF KeepaliveLooks
  <2>3. SessionsTypes' /\ OnlyOf(l)
    BY <2>1, <2>2, Zenon DEF SessionsShape, SessionsTypes, OnlyOf, queues, chat, feed
  <2>4. WorkerHasSession(l)'
    BY <1>1, <2>1, Zenon DEF WorkerHasSession
  <2> QED BY <1>1, <2>1, <2>3, <2>4, Zenon
<1>6. CASE KeepaliveCloses(l)
  <2> DEFINE t == [sess[l] EXCEPT !.state = "stopped"]
  <2>1. sess' = [sess EXCEPT ![l] = t] /\ Teardown(l) /\ keepalive' = [keepalive EXCEPT ![l] = "no"]
    BY <1>6 DEF KeepaliveCloses, SessionsShape, SessionsTypes, history
  <2>2. Like(t)
    BY <1>1 DEF Session
  <2>3. UNCHANGED <<worker, chat, feed, got>>
    BY <1>6, Zenon DEF KeepaliveCloses, history
  <2> HIDE DEF Like, t
  <2>4. SessionsTypes' /\ OnlyOf(l)
    <3>1. t \in Session
      BY <2>2, Zenon DEF Like
    <3> QED BY <2>1, <2>3, <3>1, TeardownKeeps, Zenon
               DEF SessionsShape, SessionsTypes, OnlyOf, chat, feed
  <2>5. WorkerHasSession(l)' /\ sess'[l] # None /\ Like(sess'[l])
    BY <1>2, <2>1, <2>2, <2>3, <2>4, Zenon
  <2> QED BY <1>1, <2>3, <2>4, <2>5, Zenon DEF Like
<1>7. CASE KeepalivePings(l)
  <2> DEFINE t == Offer(sess[l], "ping")
  <2> DEFINE todo == IF Accepts(sess[l]) THEN "mark" ELSE "no"
  <2>1. /\ sess' = [sess EXCEPT ![l] = t] /\ keepalive' = [keepalive EXCEPT ![l] = todo]
        /\ UNCHANGED <<link, queues, worker, chat, feed, got>>
    BY <1>7, Zenon DEF KeepalivePings, SessionsShape, SessionsTypes, history
  <2>2. Like(t)
    <3> DEFINE o == t.out
    <3>1. "ping" \in Frames
      BY DEF Frames
    <3>2. t \in Session /\ t = [sess[l] EXCEPT !.out = o] /\ (o = sess[l].out \/ o = Append(sess[l].out, "ping"))
      BY <1>1, <3>1, SessionKept, Zenon
    <3> HIDE DEF t, o
    <3> QED BY <1>1, <3>2, Zenon DEF Session
  <2>3. todo \in {"no", "close", "ping", "mark"}
    BY Zenon
  <2> HIDE DEF Like, t, todo
  <2>4. SessionsTypes' /\ OnlyOf(l) /\ t \in Session
    BY <1>3, <2>1, <2>2, <2>3, Zenon DEF Like
  <2>5. WorkerHasSession(l)' /\ sess'[l] # None /\ Like(sess'[l])
    BY <1>2, <2>1, <2>2, <2>4, ZenonT(30)
  <2> QED BY <1>1, <2>1, <2>4, <2>5, Zenon DEF Like
<1>8. CASE KeepaliveMarks(l)
  <2> DEFINE t == [sess[l] EXCEPT !.pinged = TRUE, !.due = FALSE]
  <2>1. /\ sess' = [sess EXCEPT ![l] = t] /\ keepalive' = [keepalive EXCEPT ![l] = "no"]
        /\ UNCHANGED <<link, queues, worker, chat, feed, got>>
    BY <1>8, Zenon DEF KeepaliveMarks, SessionsShape, SessionsTypes, history
  <2>2. Like(t)
    BY <1>1, Zenon DEF Session
  <2> HIDE DEF Like, t
  <2>4. SessionsTypes' /\ OnlyOf(l) /\ t \in Session
    BY <1>3, <2>1, <2>2, Zenon DEF Like
  <2>5. WorkerHasSession(l)' /\ sess'[l] # None /\ Like(sess'[l])
    BY <1>2, <2>1, <2>2, <2>4, ZenonT(30)
  <2> QED BY <1>1, <2>1, <2>4, <2>5, Zenon DEF Like
<1> QED BY <1>4, <1>5, <1>6, <1>7, <1>8, Zenon DEF Keepalive
----------------------------------------------------------------------------
(* The other links *)

\* What failed for a link's worker is the link's own, and only its next read of the
\* backlog makes up for it.
FailuresOf(l) ==
    /\ FailureTypes'
    /\ unmarked \subseteq unmarked'
    /\ \A k \in Links \ {l} : unread'[k] = unread[k]
    /\ \A k \in Links, w \in Whispers : failed[k][w] <= failed'[k][w]

\* Only the read of the backlog and the mark of a whisper can fail.
LEMMA LinkFailures ==
    ASSUME SessionsShape, FailureTypes, NEW l \in Links, LinkStep(l)
    PROVE  /\ FailuresOf(l)
           /\ ~ReadMissed(l) /\ ~MarkMissed(l) => UNCHANGED <<unread, unmarked, failed>>
<1>1. \A k \in Links, w \in Whispers : failed[k][w] \in Nat
  BY Zenon DEF FailureTypes
<1>2. ASSUME UNCHANGED <<unread, unmarked, failed>> PROVE FailuresOf(l)
  BY <1>1, <1>2 DEF FailuresOf, FailureTypes
<1>3. CASE ReadMissed(l)
  <2>1. PICK read \in {Unsent, {}} : unread' = [unread EXCEPT ![l] = Unsent \ read]
    BY <1>3, Zenon DEF ReadMissed
  <2>2. Unsent \ read \in SUBSET Whispers
    BY Zenon DEF Unsent
  <2>3. UNCHANGED <<unmarked, failed>>
    BY <1>3, Zenon DEF ReadMissed
  <2>4. FailureTypes' /\ \A k \in Links \ {l} : unread'[k] = unread[k]
    BY <2>1, <2>2, <2>3, Zenon DEF FailureTypes
  <2>5. \A k \in Links, w \in Whispers : failed[k][w] <= failed'[k][w]
    BY <1>1, <2>3
  <2> QED BY <1>3, <2>3, <2>4, <2>5, Zenon DEF FailuresOf
<1>4. CASE MarkMissed(l)
  <2>1. unread' = unread /\ unmarked \subseteq unmarked'
    BY <1>4, Zenon DEF MarkMissed
  <2> DEFINE m == worker[l].marking
  <2>2. failed' = failed \/ failed' = [failed EXCEPT ![l] = [failed[l] EXCEPT ![m] = failed[l][m] + 1]]
    BY <1>4, Zenon DEF MarkMissed, FailureTypes
  <2>3. m \in Whispers
    BY <1>4, Zenon DEF MarkMissed, SessionsShape, WorkerHasSession
  <2> HIDE DEF m
  <2>4. failed[l][m] + 1 \in Nat
    BY <1>1, <2>3
  <2>5. \A k \in Links, w \in Whispers : failed[k][w] <= failed[k][w]
    BY <1>1
  <2> DEFINE g == [failed[l] EXCEPT ![m] = failed[l][m] + 1]
  <2>6. failed[l] \in [Whispers -> Nat] /\ g \in [Whispers -> Nat]
    BY <2>4, Zenon DEF FailureTypes
  <2>7. \A w \in Whispers : failed[l][w] <= g[w]
    <3>1. \A w \in Whispers : g[w] = IF w = m THEN failed[l][m] + 1 ELSE failed[l][w]
      BY <2>6, Zenon
    <3> HIDE DEF g
    <3> QED BY <1>1, <3>1
  <2>8. failed' = failed \/ failed' = [failed EXCEPT ![l] = g]
    BY <2>2, Zenon
  <2> HIDE DEF g
  <2>9. FailureTypes'
    BY <2>1, <2>6, <2>8, Zenon DEF FailureTypes
  <2>10. \A k \in Links, w \in Whispers : failed[k][w] <= failed'[k][w]
    BY <2>5, <2>7, <2>8, Zenon DEF FailureTypes
  <2> QED BY <1>4, <2>1, <2>9, <2>10, Zenon DEF FailuresOf
<1>5. CASE \/ LinkOpens(l) \/ LinkIdentifies(l) \/ LinkSends(l) \/ LinkCloses(l)
           \/ \E kind \in Lifecycle : LateArrives(l, kind)
  BY <1>2, <1>5, Zenon DEF LinkOpens, LinkIdentifies, LinkSends, LinkCloses, LateArrives, history
<1>6. CASE Established(l) \/ Identified(l) \/ Data(l) \/ Closed(l)
  BY <1>2, <1>6, Zenon DEF Established, Identified, Data, Closed, TakeJob, history
<1>7. CASE CheckIdentity(l) \/ ReplayPending(l) \/ HelloIdentify(l) \/ HelloWelcome(l)
  BY <1>2, <1>7, Zenon DEF CheckIdentity, ReplayPending, HelloIdentify, HelloWelcome, history
<1>8. CASE \E w \in Whispers : SendMissed(l, w)
  BY <1>2, <1>8, Zenon DEF SendMissed, history
<1>9. CASE Writer(l)
  BY <1>2, <1>9, Zenon DEF Writer, WriterSends, WriterStops, WriterFlushed, history
<1>10. CASE Time(l) \/ Keepalive(l)
  BY <1>2, <1>10, Zenon
     DEF Time, Keepalive, KeepaliveLooks, KeepaliveCloses, KeepalivePings, KeepaliveMarks, history
<1> QED BY <1>3, <1>4, <1>5, <1>6, <1>7, <1>8, <1>9, <1>10, Zenon DEF LinkStep, Work, Hello

\* A step of one link's goroutines publishes nothing and at most marks a whisper
\* as sent.
LEMMA LinkStepKeeps ==
    ASSUME SessionsShape, NEW l \in Links, LinkStep(l)
    PROVE  /\ SessionsTypes' /\ OnlyOf(l) /\ WorkerHasSession(l)'
           /\ UNCHANGED <<banned, feed>>
           /\ whisper' = whisper \/ whisper' = [whisper EXCEPT ![worker[l].marking] = "sent"]
<1>1. CASE \/ LinkOpens(l) \/ LinkIdentifies(l) \/ LinkSends(l) \/ LinkCloses(l)
           \/ \E kind \in Lifecycle : LateArrives(l, kind)
  <2>1. SessionsTypes' /\ OnlyOf(l) /\ UNCHANGED <<server, chat, feed, got>>
    BY <1>1, CallbackKeeps, Zenon
  <2> QED BY <2>1 DEF server, chat, SessionsShape, WorkerHasSession
<1>2. CASE Established(l) \/ Identified(l) \/ Data(l) \/ Closed(l)
  BY <1>2, JobKeeps, Zenon DEF chat
<1>3. CASE MidJob(l)
  BY <1>3, MidJobKeeps, Zenon
<1>4. CASE Writer(l)
  <2>1. SessionsTypes' /\ OnlyOf(l) /\ UNCHANGED <<worker, keepalive, chat, feed>>
    BY <1>4, WriterKeeps, Zenon
  <2>2. PICK out \in Seq(Frames), state \in {"open", "closing", "flushed", "stopped"} :
            sess'[l] = [sess[l] EXCEPT !.out = out, !.state = state]
    BY <1>4, WriterKeeps, ZenonT(30)
  <2>3. sess[l] \in Session /\ sess[l] # None
    BY <1>4, WriterKeeps, Zenon DEF SessionsShape, SessionsTypes
  <2>4. sess'[l] \in Session /\ sess'[l].identified = sess[l].identified /\ sess'[l].welcomed = sess[l].welcomed
    BY <2>2, <2>3, Zenon DEF Session, Frames
  <2>5. WorkerHasSession(l)'
    BY <2>1, <2>3, <2>4, NoneIsNoSession, Zenon DEF WorkerHasSession, SessionsShape
  <2> QED BY <2>1, <2>5, Zenon DEF chat
<1>5. CASE Time(l) \/ Keepalive(l)
  BY <1>5, TimerKeeps DEF chat
<1> QED BY <1>1, <1>2, <1>3, <1>4, <1>5, Zenon DEF LinkStep, Work, MidJob

\* A link keeps its invariants when another link's goroutines take a step.
LEMMA OthersKeep ==
    ASSUME SessionsInv, NEW l \in Links, LinkStep(l), NEW k \in Links, k # l
    PROVE  /\ WorkerHasSession(k)' /\ BanAhead(k)' /\ WhisperAhead(k)' /\ CloseAhead(k)'
           /\ \A w \in Whispers : TwoAtMost(k, w)'
<1>1. SessionsTypes' /\ OnlyOf(l) /\ UNCHANGED <<banned, feed>>
      /\ (whisper' = whisper \/ whisper' = [whisper EXCEPT ![worker[l].marking] = "sent"])
  BY LinkStepKeeps, Zenon DEF SessionsInv
<1>2. /\ link'[k] = link[k] /\ jobs'[k] = jobs[k] /\ late'[k] = late[k]
      /\ worker'[k] = worker[k] /\ sess'[k] = sess[k] /\ got'[k] = got[k]
      /\ keepalive'[k] = keepalive[k]
  BY <1>1 DEF OnlyOf
<1>3. banned' = banned /\ events' = events /\ fanout' = fanout /\ dropped' = dropped
  BY <1>1, Zenon DEF feed
<1>4. \A w \in Whispers : whisper'[w] = whisper[w] \/ whisper'[w] = "sent"
  BY <1>1, Zenon DEF SessionsInv, SessionsShape, SessionsTypes
<1>5. Unsent' \subseteq Unsent
  BY <1>4 DEF Unsent
<1>6. WorkerHasSession(k) /\ BanAhead(k) /\ WhisperAhead(k) /\ CloseAhead(k)
  BY DEF SessionsInv, SessionsShape
<1>f. /\ unread'[k] = unread[k] /\ unmarked \subseteq unmarked'
      /\ \A w \in Whispers : /\ failed[k][w] <= failed'[k][w]
                             /\ failed[k][w] \in Nat /\ failed'[k][w] \in Nat
  BY LinkFailures, Zenon DEF SessionsInv, FailuresOf, FailureTypes
<1>7. WorkerHasSession(k)' /\ BanAhead(k)'
  BY <1>2, <1>3, <1>6, Zenon DEF WorkerHasSession, BanAhead
<1>8. WhisperAhead(k)'
  BY <1>2, <1>3, <1>5, <1>6, <1>f, Zenon DEF WhisperAhead, InHand
<1>9. CloseAhead(k)'
  BY <1>2, <1>6, Zenon DEF CloseAhead, CloseHandled
<1>10. ASSUME NEW w \in Whispers PROVE TwoAtMost(k, w)'
  <2>1. TwoAtMost(k, w) /\ got[k][w] \in Nat /\ InQueue(sess[k], w) \in Nat
    BY QueueType, Zenon DEF SessionsInv, SessionsShape, SessionsTypes
  <2>2. got'[k][w] = got[k][w] /\ InQueue(sess'[k], w) = InQueue(sess[k], w) /\ InHand(k)' = InHand(k)
    BY <1>2, Zenon DEF InHand
  <2>3. EventLeft(w)' <= EventLeft(w) /\ EventLeft(w) \in Nat /\ EventLeft(w)' \in Nat
    <3>1. whisper'[w] = "unsaid" => whisper[w] = "unsaid"
      BY <1>4, Zenon
    <3> QED BY <1>3, <3>1 DEF EventLeft
  <2>4. BacklogLeft(k, w)' <= BacklogLeft(k, w) /\ BacklogLeft(k, w) \in Nat /\ BacklogLeft(k, w)' \in Nat
    BY <1>2, <1>4, <2>2 DEF BacklogLeft
  <2> HIDE DEF InQueue, EventLeft, BacklogLeft
  <2> QED BY <1>f, <2>1, <2>2, <2>3, <2>4 DEF TwoAtMost
<1> QED BY <1>7, <1>8, <1>9, <1>10, Zenon
----------------------------------------------------------------------------
(* Hub events and the fan-out *)

\* An event is queued or dropped.
LEMMA PublishKeeps ==
    ASSUME events \in Seq(Whispers \cup {"ban"}), NEW e \in Whispers \cup {"ban"},
           NoRepeats(events), e \notin Range(events), Publish(e)
    PROVE  /\ events' \in Seq(Whispers \cup {"ban"}) /\ NoRepeats(events')
           /\ \/ Range(events') = Range(events) \cup {e} /\ dropped' = dropped
              \/ Range(events') = Range(events) /\ dropped' = dropped \cup {e}
<1>1. CASE events' = Append(events, e) /\ dropped' = dropped
  BY <1>1, RangeAppend, NoRepeatsAppend
<1>2. CASE dropped' = dropped \cup {e} /\ events' = events
  BY <1>2, Zenon
<1> QED BY <1>1, <1>2, Zenon DEF Publish

\* A new whisper is on its way through the events.
LEMMA SayKeeps ==
    ASSUME SessionsShape, NEW w \in Whispers, Say(w)
    PROVE  /\ SessionsShape'
           /\ UNCHANGED <<link, jobs, late, worker, sess, keepalive, banned, fanout, got, unread, unmarked, failed>>
           /\ whisper[w] = "unsaid" /\ whisper' = [whisper EXCEPT ![w] = "unsent"]
           /\ \/ Range(events') = Range(events) \cup {w} /\ dropped' = dropped
              \/ Range(events') = Range(events) /\ dropped' = dropped \cup {w}
<1>1. UNCHANGED <<link, jobs, late, worker, sess, keepalive, banned, fanout, got, unread, unmarked, failed>> /\ Publish(w)
      /\ whisper[w] = "unsaid" /\ whisper' = [whisper EXCEPT ![w] = "unsent"]
  BY Zenon DEF Say, queues, server, history
<1>2. w \notin Range(events) /\ w # "ban" /\ events \in Seq(Whispers \cup {"ban"}) /\ NoRepeats(events)
  BY <1>1, SessionsConstants, Zenon DEF SessionsShape, SessionsTypes, EventsOnce
<1>3. /\ events' \in Seq(Whispers \cup {"ban"}) /\ NoRepeats(events')
      /\ \/ Range(events') = Range(events) \cup {w} /\ dropped' = dropped
         \/ Range(events') = Range(events) /\ dropped' = dropped \cup {w}
  BY <1>1, <1>2, PublishKeeps, Zenon
<1>4. SessionsTypes'
  BY <1>1, <1>3, Zenon DEF SessionsShape, SessionsTypes
<1>5. EventsOnce'
  BY <1>1, <1>2, <1>3, Zenon DEF SessionsShape, SessionsTypes, EventsOnce
<1>6. \A l \in Links : WorkerHasSession(l)'
  BY <1>1, Zenon DEF SessionsShape, WorkerHasSession
<1> QED BY <1>1, <1>3, <1>4, <1>5, <1>6, Zenon DEF SessionsShape

\* So is the ban.
LEMMA BanKeeps ==
    ASSUME SessionsShape, BanPerson
    PROVE  /\ SessionsShape'
           /\ UNCHANGED <<link, jobs, late, worker, sess, keepalive, whisper, fanout, got, unread, unmarked, failed>>
           /\ banned'
           /\ \/ Range(events') = Range(events) \cup {"ban"} /\ dropped' = dropped
              \/ Range(events') = Range(events) /\ dropped' = dropped \cup {"ban"}
<1>1. UNCHANGED <<link, jobs, late, worker, sess, keepalive, whisper, fanout, got, unread, unmarked, failed>> /\ Publish("ban")
      /\ ~banned /\ banned' = TRUE
  BY Zenon DEF BanPerson, queues, server, history
<1>2. "ban" \notin Range(events) /\ "ban" \notin Whispers /\ events \in Seq(Whispers \cup {"ban"}) /\ NoRepeats(events)
  BY <1>1, SessionsConstants, Zenon DEF SessionsShape, SessionsTypes, EventsOnce
<1>3. /\ events' \in Seq(Whispers \cup {"ban"}) /\ NoRepeats(events')
      /\ \/ Range(events') = Range(events) \cup {"ban"} /\ dropped' = dropped
         \/ Range(events') = Range(events) /\ dropped' = dropped \cup {"ban"}
  BY <1>1, <1>2, PublishKeeps, Zenon
<1>4. SessionsTypes'
  BY <1>1, <1>3, Zenon DEF SessionsShape, SessionsTypes
<1>5. EventsOnce'
  BY <1>1, <1>2, <1>3, Zenon DEF SessionsShape, SessionsTypes, EventsOnce
<1>6. \A l \in Links : WorkerHasSession(l)'
  BY <1>1, Zenon DEF SessionsShape, WorkerHasSession
<1> QED BY <1>1, <1>3, <1>4, <1>5, <1>6, Zenon DEF SessionsShape

\* The fan-out takes the first event, for every session of the person's.
LEMMA DeliverKeeps ==
    ASSUME SessionsShape, DeliverWhisper \/ DeliverBan
    PROVE  /\ SessionsShape'
           /\ UNCHANGED <<link, jobs, late, worker, keepalive, whisper, banned, dropped, got, unread, unmarked, failed>>
           /\ fanout = None /\ Head(events) \in Range(events)
           /\ Range(events') = Range(events) \ {Head(events)}
<1>1. /\ UNCHANGED <<link, jobs, late, worker, keepalive, whisper, banned, dropped, got, unread, unmarked, failed>>
      /\ fanout = None /\ events # <<>> /\ events' = Tail(events)
  BY DEF DeliverWhisper, DeliverBan, TakeEvent, queues, chat, history
<1>2. events \in Seq(Whispers \cup {"ban"}) /\ NoRepeats(events)
  BY DEF SessionsShape, SessionsTypes, EventsOnce
<1>3. /\ Head(events) \in Range(events) /\ Range(events') = Range(events) \ {Head(events)}
      /\ NoRepeats(events')
  BY <1>1, <1>2, RangeTail, Zenon
<1>4. events' \in Seq(Whispers \cup {"ban"})
  BY <1>1, <1>2
<1>5. ASSUME NEW k \in Links
      PROVE  /\ sess'[k] \in Session \cup {None} /\ (sess'[k] = None <=> sess[k] = None)
             /\ sess[k] # None => /\ sess'[k].identified = sess[k].identified
                                  /\ sess'[k].welcomed = sess[k].welcomed
  <2>1. sess[k] \in Session \cup {None}
    BY Zenon DEF SessionsShape, SessionsTypes
  <2>2. CASE k \notin SessionsOf
    BY <2>1, <2>2, Zenon DEF DeliverWhisper, DeliverBan
  <2>3. CASE k \in SessionsOf /\ DeliverWhisper
    <3> DEFINE o == Offer(sess[k], Head(events)).out
    <3>1. sess[k] \in Session /\ sess[k] # None /\ Head(events) \in Frames
      BY <2>1, <2>3, Zenon DEF SessionsOf, DeliverWhisper, Frames
    <3>2. sess'[k] \in Session /\ sess'[k] = [sess[k] EXCEPT !.out = o]
      BY <2>3, <3>1, SessionKept, Zenon DEF DeliverWhisper
    <3> HIDE DEF o
    <3> QED BY <3>1, <3>2, NoneIsNoSession, Zenon DEF Session
  <2>4. CASE k \in SessionsOf /\ DeliverBan
    <3>1. sess[k] \in Session /\ sess[k] # None
      BY <2>1, <2>4, Zenon DEF SessionsOf
    <3>2. sess'[k] = CloseAfterFlush(sess[k])
      BY <2>4, Zenon DEF DeliverBan
    <3> QED BY <3>1, <3>2, NoneIsNoSession DEF CloseAfterFlush, Session
  <2> QED BY <2>2, <2>3, <2>4, Zenon
<1>6. sess' \in [Links -> Session \cup {None}]
  BY <1>5, Zenon DEF DeliverWhisper, DeliverBan
<1>7. fanout' \in Whispers \cup {None}
  BY <1>1, Zenon DEF DeliverWhisper, DeliverBan
<1>8. SessionsTypes'
  BY <1>1, <1>4, <1>6, <1>7, Zenon DEF SessionsShape, SessionsTypes
<1>9. EventsOnce'
  BY <1>1, <1>3, Zenon DEF SessionsShape, EventsOnce
<1>10. ASSUME NEW k \in Links PROVE WorkerHasSession(k)'
  BY <1>1, <1>5, Zenon DEF SessionsShape, WorkerHasSession
<1> QED BY <1>1, <1>3, <1>8, <1>9, <1>10, Zenon DEF SessionsShape

\* And marks the whisper it sent.
LEMMA MarkKeeps ==
    ASSUME SessionsShape, MarkWhisper
    PROVE  /\ SessionsShape'
           /\ UNCHANGED <<link, jobs, late, worker, sess, keepalive, banned, events, dropped, got, unread, failed>>
           /\ fanout \in Whispers
           /\ \/ whisper' = [whisper EXCEPT ![fanout] = "sent"] /\ unmarked' = unmarked
              \/ whisper' = whisper /\ unmarked' = unmarked \cup {fanout}
<1>1. /\ UNCHANGED <<link, jobs, late, worker, sess, keepalive, banned, events, dropped, got, unread, failed>>
      /\ fanout \in Whispers /\ fanout' = None
      /\ \/ whisper' = [whisper EXCEPT ![fanout] = "sent"] /\ unmarked' = unmarked
         \/ whisper' = whisper /\ unmarked' = unmarked \cup {fanout}
  BY Zenon DEF MarkWhisper, queues, server, SessionsShape, SessionsTypes, history
<1>2. SessionsTypes'
  BY <1>1, Zenon DEF SessionsShape, SessionsTypes
<1>3. EventsOnce'
  BY <1>1, Zenon DEF SessionsShape, SessionsTypes, EventsOnce
<1>4. \A l \in Links : WorkerHasSession(l)'
  BY <1>1 DEF SessionsShape, WorkerHasSession
<1> QED BY <1>1, <1>2, <1>3, <1>4, Zenon DEF SessionsShape
----------------------------------------------------------------------------
(* The close in the queue, and the copies *)

\* A close at the end of the queue has no data behind it, nor does one that had
\* none when something other than data is added.
LEMMA CloseAppend ==
    ASSUME NEW q \in Seq(Kinds), NEW kind \in Kinds,
           kind = "closed" \/ (CloseQueued(q) /\ kind # "data")
    PROVE  CloseQueued(Append(q, kind))
<1> DEFINE t == Append(q, kind)
<1>1. DOMAIN t = 1 .. Len(q) + 1 /\ DOMAIN q = 1 .. Len(q) /\ Len(q) \in Nat
  OBVIOUS
<1>2. (\A k \in 1 .. Len(q) : t[k] = q[k]) /\ t[Len(q) + 1] = kind
  OBVIOUS
<1>3. CASE kind = "closed"
  <2>1. Len(q) + 1 \in DOMAIN t /\ t[Len(q) + 1] = "closed" /\ \A j \in DOMAIN t : ~(j > Len(q) + 1)
    BY <1>1, <1>2, <1>3
  <2> QED BY <2>1, Zenon DEF CloseQueued
<1>4. CASE CloseQueued(q) /\ kind # "data"
  <2>1. PICK k \in DOMAIN q : q[k] = "closed" /\ \A j \in DOMAIN q : j > k => q[j] # "data"
    BY <1>4 DEF CloseQueued
  <2>2. k \in DOMAIN t /\ t[k] = "closed"
    BY <1>1, <1>2, <2>1
  <2>3. \A j \in DOMAIN t : j > k => t[j] # "data"
    BY <1>1, <1>2, <1>4, <2>1
  <2> QED BY <2>2, <2>3, Zenon DEF CloseQueued
<1> QED BY <1>3, <1>4, Zenon

\* When a callback is taken the close is still queued, or was the one taken and
\* no data is left.
LEMMA CloseTail ==
    ASSUME NEW q \in Seq(Kinds), q # <<>>, CloseQueued(q)
    PROVE  CloseQueued(Tail(q)) \/ (Head(q) = "closed" /\ "data" \notin Range(Tail(q)))
<1> DEFINE t == Tail(q)
<1>1. DOMAIN t = 1 .. Len(q) - 1 /\ DOMAIN q = 1 .. Len(q) /\ Len(q) \in Nat /\ Len(q) > 0
  OBVIOUS
<1>2. (\A k \in DOMAIN t : t[k] = q[k + 1] /\ k + 1 \in DOMAIN q) /\ Head(q) = q[1]
  OBVIOUS
<1>3. PICK k \in DOMAIN q : q[k] = "closed" /\ \A j \in DOMAIN q : j > k => q[j] # "data"
  BY DEF CloseQueued
<1>4. CASE k = 1
  <2>1. \A j \in DOMAIN t : j + 1 > 1
    BY <1>1
  <2>2. \A j \in DOMAIN t : t[j] # "data"
    BY <1>2, <1>3, <1>4, <2>1, Zenon
  <2> QED BY <1>2, <1>3, <1>4, <2>2, Zenon DEF Range
<1>5. CASE k # 1
  <2>1. k - 1 \in DOMAIN t /\ (k - 1) + 1 = k
    BY <1>1, <1>3, <1>5
  <2>2. t[k - 1] = "closed"
    BY <1>2, <1>3, <2>1, Zenon
  <2>3. ASSUME NEW j \in DOMAIN t, j > k - 1 PROVE t[j] # "data"
    <3>1. j + 1 > k
      BY <1>1, <1>3, <2>3
    <3> QED BY <1>2, <1>3, <3>1, Zenon
  <2> HIDE DEF t
  <2>4. \E i \in DOMAIN t : t[i] = "closed" /\ \A j \in DOMAIN t : j > i => t[j] # "data"
    BY <2>1, <2>2, <2>3, Zenon
  <2> QED BY <2>4 DEF CloseQueued, t
<1> QED BY <1>4, <1>5, Zenon

\* A link goes down with its close queued, or waiting for the queue.
LEMMA TeardownCloses ==
    ASSUME SessionsTypes, NEW l \in Links, Teardown(l)
    PROVE  \/ link'[l] = link[l] /\ jobs'[l] = jobs[l] /\ late'[l] = late[l]
           \/ "closed" \in late'[l] \/ CloseQueued(jobs'[l])
<1>1. jobs[l] \in Seq(Kinds) /\ "closed" \in Kinds
  BY DEF SessionsTypes, Kinds, Lifecycle
<1> QED BY <1>1, TeardownKeeps, CloseAppend, Zenon

\* The parts of the count, before and after a step.
LEMMA CountTypes ==
    ASSUME SessionsTypes, SessionsTypes', NEW l \in Links, NEW w \in Whispers
    PROVE  /\ got[l][w] \in Nat /\ got'[l][w] \in Nat
           /\ InQueue(sess[l], w) \in Nat /\ InQueue(sess'[l], w) \in Nat
           /\ EventLeft(w) \in {0, 1} /\ EventLeft(w)' \in {0, 1}
           /\ BacklogLeft(l, w) \in {0, 1} /\ BacklogLeft(l, w)' \in {0, 1}
<1>1. sess[l] \in Session \cup {None} /\ sess'[l] \in Session \cup {None}
  BY Zenon DEF SessionsTypes
<1>2. InQueue(sess[l], w) \in Nat /\ InQueue(sess'[l], w) \in Nat
  BY <1>1, QueueType, Zenon
<1> QED BY <1>2 DEF SessionsTypes, EventLeft, BacklogLeft

\* A frame offered to a session is at most one more copy of itself.
LEMMA OfferCopies ==
    ASSUME NEW s \in Session, NEW frame \in Frames, NEW w \in Whispers
    PROVE  /\ InQueue(Offer(s, frame), w) <= InQueue(s, w) + 1
           /\ frame # w => InQueue(Offer(s, frame), w) = InQueue(s, w)
<1>1. /\ s # None /\ Offer(s, frame) \in Session
      /\ Offer(s, frame).out = s.out \/ Offer(s, frame).out = Append(s.out, frame)
  BY SessionKept, Zenon
<1>2. Offer(s, frame) # None /\ s.out \in Seq(Frames)
  BY <1>1, NoneIsNoSession, Zenon DEF Session, Frames
<1>3. Copies(Append(s.out, frame), w) = Copies(s.out, w) + (IF frame = w THEN 1 ELSE 0)
  BY <1>2, CopiesAppend
<1>4. Copies(s.out, w) \in Nat
  BY <1>2, CopiesType, Zenon
<1>5. InQueue(s, w) = Copies(s.out, w) /\ InQueue(Offer(s, frame), w) = Copies(Offer(s, frame).out, w)
  BY <1>1, <1>2, Zenon DEF InQueue
<1>6. CASE Offer(s, frame).out = s.out
  <2>1. InQueue(Offer(s, frame), w) = InQueue(s, w) /\ InQueue(s, w) \in Nat
    BY <1>4, <1>5, <1>6, Zenon
  <2> QED BY <2>1
<1>7. CASE Offer(s, frame).out = Append(s.out, frame)
  <2>1. InQueue(Offer(s, frame), w) = InQueue(s, w) + (IF frame = w THEN 1 ELSE 0) /\ InQueue(s, w) \in Nat
    BY <1>3, <1>4, <1>5, <1>7, Zenon
  <2> QED BY <2>1
<1> QED BY <1>1, <1>6, <1>7, Zenon
=============================================================================
