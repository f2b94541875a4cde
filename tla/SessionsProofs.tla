--------------------------- MODULE SessionsProofs ---------------------------
(***************************************************************************)
(* For any number of links and whispers and any size of the queues: a link *)
(* that is down leaves no welcomed session, no whisper falls between the   *)
(* backlog and the events, a link gets no whisper more than twice unless a *)
(* mark of it failed, and a ban closes every session.                      *)
(*                                                                         *)
(* Each has an invariant of its own, for one link, which says where the    *)
(* close, the whisper or the ban still is: in a queue, in a worker's hand, *)
(* or dealt with.                                                          *)
(***************************************************************************)
EXTENDS SessionsSteps
----------------------------------------------------------------------------
(* The ban *)

\* No step of a link's own goroutines opens a session the ban would miss: while
\* it is identified and open, its worker was past the check already.
LEMMA OwnBan ==
    ASSUME SessionsInv, NEW l \in Links, LinkStep(l)
    PROVE  BanAhead(l)'
<1>1. SessionsShape /\ BanAhead(l) /\ SessionsTypes
  BY DEF SessionsInv, SessionsShape
<1>2. banned' = banned /\ events' = events /\ dropped' = dropped
  BY <1>1, LinkStepKeeps DEF feed
<1>3. CASE \/ LinkOpens(l) \/ LinkIdentifies(l) \/ LinkSends(l) \/ LinkCloses(l)
           \/ \E kind \in Lifecycle : LateArrives(l, kind)
  <2>1. UNCHANGED <<worker, sess>>
    BY <1>1, <1>3, CallbackKeeps DEF server
  <2> QED BY <1>1, <1>2, <2>1, Zenon DEF BanAhead
<1>4. CASE Established(l) \/ Identified(l) \/ Data(l) \/ Closed(l)
  <2>1. worker[l].pc = "idle" /\ worker[l] \in Worker /\ SessionFor(l) \in Session
    BY <1>1, <1>4, NewSessionType, Zenon
       DEF Established, Identified, Data, Closed, TakeJob, Free, SessionsTypes, SessionFor, history
  <2>2. sess[l] = None => ~SessionFor(l).identified
    BY DEF SessionFor, NewSession
  <2>3. sess[l] # None => SessionFor(l) = sess[l]
    BY DEF SessionFor
  <2>4. CASE Established(l)
    <3>1. sess'[l] = SessionFor(l) /\ worker' = worker
      BY <1>1, <2>4 DEF Established, SessionsTypes
    <3> QED BY <1>1, <1>2, <2>1, <2>2, <2>3, <3>1, Zenon DEF BanAhead
  <2>5. CASE Identified(l)
    <3>1. CASE SessionFor(l).identified
      BY <1>1, <1>2, <2>5, <3>1, Zenon DEF Identified, BanAhead
    <3>2. CASE ~SessionFor(l).identified
      <4>1. worker' = [worker EXCEPT ![l] = [worker[l] EXCEPT !.pc = "check", !.replay = SessionFor(l).pending]]
        BY <1>1, <2>5, <3>2, Zenon DEF Identified, SessionsTypes
      <4>2. worker'[l].pc = "check"
        BY <1>1, <2>1, <4>1, Zenon DEF SessionsTypes, Worker
      <4> QED BY <4>2 DEF BanAhead
    <3> QED BY <3>1, <3>2
  <2>6. CASE Data(l)
    <3>1. CASE SessionFor(l).identified
      <4>1. sess[l] # None /\ sess[l] \in Session /\ Handle(l, worker[l])
        BY <2>1, <2>2, <2>3, <2>6, <3>1, Zenon DEF Data
      <4>2. sess'[l].identified = sess[l].identified /\ sess'[l].state = sess[l].state
        BY <1>1, <2>1, <4>1, HandleKeeps, Zenon
      <4> QED BY <1>1, <1>2, <2>1, <4>1, <4>2, Zenon DEF BanAhead
    <3>2. CASE ~SessionFor(l).identified
      <4> DEFINE t == [SessionFor(l) EXCEPT !.pending = IF @ < MaxPending THEN @ + 1 ELSE @]
      <4>1. sess'[l] = t
        BY <1>1, <2>6, <3>2 DEF Data, SessionsTypes
      <4>2. ~t.identified
        BY <2>1, <3>2 DEF Session
      <4> QED BY <4>1, <4>2 DEF BanAhead
    <3> QED BY <3>1, <3>2
  <2>7. CASE Closed(l)
    <3>1. sess'[l] = None
      BY <1>1, <2>7, Zenon DEF Closed, SessionsTypes
    <3> QED BY <3>1 DEF BanAhead
  <2> QED BY <1>4, <2>4, <2>5, <2>6, <2>7, Zenon
<1>5. CASE MidJob(l)
  <2>1. sess[l] \in Session /\ worker[l] \in Worker /\ sess[l].identified /\ sess[l] # None
    BY <1>1, <1>5, MidJobKeeps, NoneIsNoSession, Zenon
  <2>2. CASE CheckIdentity(l)
    <3>1. CASE banned
      <4>1. sess'[l] = CloseAfterFlush(sess[l])
        BY <1>1, <2>2, <3>1, Zenon DEF CheckIdentity, SessionsTypes, history
      <4>2. CloseAfterFlush(sess[l]).state # "open"
        BY <2>1 DEF Session, CloseAfterFlush
      <4> QED BY <4>1, <4>2, Zenon DEF BanAhead
    <3>2. CASE ~banned
      BY <1>2, <3>2, Zenon DEF BanAhead
    <3> QED BY <3>1, <3>2, Zenon
  <2>3. CASE ReplayPending(l)
    <3> DEFINE v == [worker[l] EXCEPT !.replay = @ - 1]
    <3>1. v \in Worker /\ Handle(l, v) /\ worker[l].pc = "idle"
      BY <2>1, <2>3 DEF ReplayPending, Worker, history
    <3>2. sess'[l].identified = sess[l].identified /\ sess'[l].state = sess[l].state
      BY <1>1, <2>1, <3>1, HandleKeeps, Zenon
    <3> QED BY <1>1, <1>2, <2>1, <3>1, <3>2, Zenon DEF BanAhead
  <2>4. CASE Hello(l)
    <3>1. worker[l].pc # "check"
      BY <2>4 DEF Hello, HelloIdentify, HelloWelcome, ReadMissed, SendMissed, MarkMissed, history
    <3>2. sess'[l].state = "open" => sess[l].state = "open"
      <4>1. CASE HelloIdentify(l)
        BY <1>1, <2>1, <4>1, Zenon DEF HelloIdentify, CloseAfterFlush, SessionsTypes, Session, history
      <4>2. CASE HelloWelcome(l)
        BY <1>1, <2>1, <4>2, Zenon DEF HelloWelcome, Accepts, history
      <4>3. ASSUME NEW w \in Whispers, SendMissed(l, w) PROVE sess'[l].state = "open" => sess[l].state = "open"
        BY <1>1, <2>1, <4>3, Zenon DEF SendMissed, Offer, SessionsTypes, Session, history
      <4> QED BY <2>4, <4>1, <4>2, <4>3, Zenon DEF Hello, ReadMissed, MarkMissed, history
    <3> QED BY <1>1, <1>2, <2>1, <3>1, <3>2, Zenon DEF BanAhead
  <2> QED BY <1>5, <2>2, <2>3, <2>4, Zenon DEF MidJob
<1>6. CASE Writer(l)
  <2>1. PICK out \in Seq(Frames), state \in {"open", "closing", "flushed", "stopped"} :
            /\ sess'[l] = [sess[l] EXCEPT !.out = out, !.state = state]
            /\ state = "open" => sess[l].state = "open"
    BY <1>1, <1>6, WriterKeeps, Zenon
  <2>2. sess[l] \in Session /\ sess[l] # None /\ worker' = worker
    BY <1>1, <1>6, WriterKeeps, Zenon DEF SessionsTypes
  <2>3. sess'[l].state = state /\ sess'[l].identified = sess[l].identified
    BY <2>1, <2>2, Zenon DEF Session
  <2> QED BY <1>1, <1>2, <2>1, <2>2, <2>3, Zenon DEF BanAhead
<1>7. CASE Time(l) \/ Keepalive(l)
  BY <1>1, <1>2, <1>7, TimerKeeps, Zenon DEF BanAhead
<1> QED BY <1>3, <1>4, <1>5, <1>6, <1>7, Zenon DEF LinkStep, Work, MidJob
----------------------------------------------------------------------------
(* The whispers on their way *)

\* A step of a link's own goroutines loses no whisper: a HELLO is welcomed before
\* the backlog is read, and what was read is in hand until it is marked.
LEMMA OwnWhisper ==
    ASSUME SessionsInv, NEW l \in Links, LinkStep(l)
    PROVE  WhisperAhead(l)'
<1>1. SessionsShape /\ WhisperAhead(l) /\ SessionsTypes
  BY DEF SessionsInv, SessionsShape
<1>2. events' = events /\ fanout' = fanout /\ dropped' = dropped
  BY <1>1, LinkStepKeeps, Zenon DEF feed
<1>f. /\ unmarked \subseteq unmarked'
      /\ ~ReadMissed(l) /\ ~MarkMissed(l) => unread' = unread
  BY <1>1, LinkFailures, Zenon DEF SessionsInv, FailuresOf
<1>3. ASSUME whisper' = whisper, InHand(l) \subseteq InHand(l)',
             worker[l].pc # "missed" \/ worker'[l].pc = "missed",
             sess'[l] # None /\ sess'[l].welcomed => sess[l] # None /\ sess[l].welcomed
      PROVE  WhisperAhead(l)'
  <2>1. Unsent' = Unsent
    BY <1>3, Zenon DEF Unsent
  <2>2. ~ReadMissed(l)
    <3> SUFFICES ASSUME ReadMissed(l) PROVE worker[l].pc = "missed" /\ worker'[l].pc # "missed"
      BY <1>3, Zenon
    <3>1. PICK read : worker'[l] = AfterMissed(l, read)
      BY <1>1, Zenon DEF ReadMissed, SessionsTypes
    <3>2. worker[l] \in Worker
      BY <1>1, Zenon DEF SessionsTypes
    <3>3. worker'[l].pc # "missed"
      BY <3>1, <3>2, Zenon DEF AfterMissed, Worker
    <3> QED BY <3>3 DEF ReadMissed
  <2>3. unread' = unread
    BY <1>f, <2>2, Zenon DEF MarkMissed
  <2> QED BY <1>1, <1>2, <1>3, <1>f, <2>1, <2>3, Zenon DEF WhisperAhead
<1>4. CASE \/ LinkOpens(l) \/ LinkIdentifies(l) \/ LinkSends(l) \/ LinkCloses(l)
           \/ \E kind \in Lifecycle : LateArrives(l, kind)
  <2>1. UNCHANGED <<worker, sess, whisper>>
    BY <1>1, <1>4, CallbackKeeps, Zenon DEF server, chat
  <2> QED BY <1>3, <2>1, Zenon DEF InHand
<1>5. CASE Established(l) \/ Identified(l) \/ Data(l) \/ Closed(l)
  <2>1. whisper' = whisper
    BY <1>1, <1>5, JobKeeps, Zenon DEF chat
  <2>2. worker[l].pc = "idle" /\ (sess'[l] # None /\ sess'[l].welcomed => sess[l] # None /\ sess[l].welcomed)
    BY <1>1, <1>5, JobEffect, Zenon
  <2> QED BY <1>3, <2>1, <2>2, Zenon DEF InHand
<1>6. CASE MidJob(l)
  <2>1. sess[l] \in Session /\ worker[l] \in Worker /\ sess[l] # None
    BY <1>1, <1>6, MidJobKeeps, NoneIsNoSession, Zenon
  <2>2. CASE CheckIdentity(l)
    <3>1. whisper' = whisper /\ worker[l].pc = "check" /\ InHand(l) = {}
      BY <2>2, Zenon DEF CheckIdentity, chat, InHand, history
    <3>2. sess'[l].welcomed = sess[l].welcomed
      BY <1>1, <2>1, <2>2 DEF CheckIdentity, SessionsTypes, CloseAfterFlush, Session, history
    <3> QED BY <1>3, <2>1, <3>1, <3>2, Zenon
  <2>3. CASE ReplayPending(l)
    <3> DEFINE v == [worker[l] EXCEPT !.replay = @ - 1]
    <3>1. v \in Worker /\ Handle(l, v) /\ worker[l].pc = "idle" /\ whisper' = whisper /\ InHand(l) = {}
      BY <2>1, <2>3 DEF ReplayPending, Worker, chat, InHand, history
    <3>2. sess'[l].welcomed => sess[l].welcomed
      BY <1>1, <2>1, <3>1, HandleKeeps, Zenon
    <3> QED BY <1>3, <2>1, <3>1, <3>2, Zenon
  <2>4. CASE HelloIdentify(l)
    <3>1. whisper' = whisper /\ worker[l].pc = "identify" /\ InHand(l) = {}
      BY <2>4 DEF HelloIdentify, chat, InHand, history
    <3>2. sess'[l].welcomed = sess[l].welcomed
      BY <1>1, <2>1, <2>4 DEF HelloIdentify, SessionsTypes, CloseAfterFlush, Session, history
    <3> QED BY <1>3, <2>1, <3>1, <3>2
  <2>5. CASE HelloWelcome(l)
    <3>1. CASE Accepts(sess[l])
      <4>1. worker'[l].pc = "missed"
        BY <1>1, <2>1, <2>5, <3>1 DEF HelloWelcome, SessionsTypes, Worker, history
      <4> QED BY <4>1, Zenon DEF WhisperAhead
    <3>2. CASE ~Accepts(sess[l])
      <4>1. whisper' = whisper /\ worker[l].pc = "welcome" /\ sess' = sess /\ InHand(l) = {}
        BY <2>5, <3>2, Zenon DEF HelloWelcome, chat, InHand, history
      <4> QED BY <1>3, <4>1, Zenon
    <3> QED BY <3>1, <3>2, Zenon
  <2>6. CASE ReadMissed(l)
    <3>1. PICK read \in {Unsent, {}} : worker'[l] = AfterMissed(l, read) /\ unread'[l] = Unsent \ read
      BY <1>1, <2>6, Zenon DEF ReadMissed, SessionsInv, SessionsTypes, FailureTypes
    <3>2. Unsent' = Unsent
      BY <2>6, Zenon DEF ReadMissed, chat, Unsent
    <3>3. read \subseteq InHand(l)'
      <4>1. CASE read = {}
        BY <4>1, Zenon
      <4>2. CASE read # {}
        <5>1. worker'[l].pc = "send" /\ worker'[l].missed = read
          BY <2>1, <3>1, <4>2, Zenon DEF AfterMissed, Worker
        <5> QED BY <5>1, Zenon DEF InHand
      <4> QED BY <4>1, <4>2, Zenon
    <3> QED BY <3>1, <3>2, <3>3, Zenon DEF WhisperAhead
  <2>7. ASSUME NEW w \in Whispers, SendMissed(l, w) PROVE WhisperAhead(l)'
    <3> DEFINE v == [worker[l] EXCEPT !.pc = "mark", !.marking = w]
    <3>1. worker'[l] = v /\ worker[l].pc = "send"
      BY <1>1, <2>7, Zenon DEF SendMissed, SessionsTypes, history
    <3>4. v.pc = "mark" /\ v.missed = worker[l].missed
      BY <2>1 DEF Worker
    <3>2. worker'[l].pc = "mark" /\ worker'[l].missed = worker[l].missed
      BY <3>1, <3>4, Zenon
    <3>3. whisper' = whisper /\ sess'[l].welcomed = sess[l].welcomed
      BY <1>1, <2>1, <2>7, Zenon DEF SendMissed, chat, SessionsTypes, Offer, Session, history
    <3> QED BY <1>3, <2>1, <3>1, <3>2, <3>3, Zenon DEF InHand
  <2>8. CASE MarkMissed(l)
    <3> DEFINE m == worker[l].missed \ {worker[l].marking}
    <3>1. /\ sess' = sess /\ unread' = unread
          /\ worker[l].pc = "mark" /\ worker'[l] = AfterMissed(l, m)
      BY <1>1, <2>8, Zenon DEF MarkMissed, SessionsTypes
    <3>2. Unsent' \subseteq Unsent /\ (worker[l].marking \in Unsent' => worker[l].marking \in unmarked')
      <4>1. CASE whisper' = [whisper EXCEPT ![worker[l].marking] = "sent"]
        BY <1>1, <4>1, Zenon DEF Unsent, SessionsTypes
      <4>2. CASE whisper' = whisper /\ unmarked' = unmarked \cup {worker[l].marking}
        BY <4>2, Zenon DEF Unsent
      <4> QED BY <2>8, <4>1, <4>2, Zenon DEF MarkMissed
    <3>3. m \subseteq InHand(l)'
      <4>1. CASE m = {}
        BY <4>1, Zenon
      <4>2. CASE m # {}
        <5>1. worker'[l].pc = "send" /\ worker'[l].missed = m
          BY <2>1, <3>1, <4>2, Zenon DEF AfterMissed, Worker
        <5> QED BY <5>1, Zenon DEF InHand
      <4> QED BY <4>1, <4>2, Zenon
    <3>4. InHand(l) = worker[l].missed
      BY <3>1, Zenon DEF InHand
    <3> QED BY <1>1, <1>2, <1>f, <3>1, <3>2, <3>3, <3>4, ZenonT(30) DEF WhisperAhead
  <2> QED BY <1>6, <2>2, <2>3, <2>4, <2>5, <2>6, <2>7, <2>8, Zenon DEF MidJob, Hello
<1>7. CASE Writer(l)
  <2>1. PICK out \in Seq(Frames), state \in {"open", "closing", "flushed", "stopped"} :
            sess'[l] = [sess[l] EXCEPT !.out = out, !.state = state]
    BY <1>1, <1>7, WriterKeeps, ZenonT(30)
  <2>2. sess[l] \in Session /\ sess[l] # None /\ worker' = worker /\ whisper' = whisper
    BY <1>1, <1>7, WriterKeeps, Zenon DEF SessionsTypes, chat
  <2>3. sess'[l].welcomed = sess[l].welcomed
    BY <2>1, <2>2, Zenon DEF Session
  <2> QED BY <1>3, <2>2, <2>3, Zenon DEF InHand
<1>8. CASE Time(l) \/ Keepalive(l)
  <2>1. worker' = worker /\ whisper' = whisper /\ sess[l] # None /\ sess'[l].welcomed = sess[l].welcomed
    BY <1>1, <1>8, TimerKeeps, Zenon DEF chat
  <2> QED BY <1>3, <2>1, Zenon DEF InHand
<1> QED BY <1>4, <1>5, <1>6, <1>7, <1>8, Zenon DEF LinkStep, Work, MidJob
----------------------------------------------------------------------------
(* The close *)

\* Whatever a link's own goroutines do, no data comes after its close.
LEMMA OwnClose ==
    ASSUME SessionsInv, NEW l \in Links, LinkStep(l)
    PROVE  CloseAhead(l)'
<1>1. SessionsShape /\ CloseAhead(l) /\ SessionsTypes /\ jobs[l] \in Seq(Kinds)
  BY DEF SessionsInv, SessionsShape, SessionsTypes
<1>2. CASE LinkOpens(l) \/ LinkIdentifies(l) \/ LinkSends(l)
  <2>1. link'[l] = "up"
    BY <1>1, <1>2, Zenon DEF LinkOpens, LinkIdentifies, LinkSends, SessionsTypes, history
  <2> QED BY <2>1 DEF CloseAhead
<1>3. CASE LinkCloses(l)
  <2>1. link[l] = "up" /\ Teardown(l)
    BY <1>3 DEF LinkCloses, history
  <2>2. link'[l] = "down"
    BY <1>1, <2>1, Zenon DEF Teardown, SessionsTypes
  <2>3. "closed" \in late'[l] \/ CloseQueued(jobs'[l])
    BY <1>1, <2>1, <2>2, TeardownCloses, Zenon
  <2> QED BY <2>3 DEF CloseAhead
<1>4. ASSUME NEW kind \in Lifecycle, LateArrives(l, kind) PROVE CloseAhead(l)'
  <2>1. /\ link' = link /\ worker' = worker /\ sess' = sess
        /\ jobs'[l] = Append(jobs[l], kind) /\ late'[l] = late[l] \ {kind}
    BY <1>1, <1>4, Zenon DEF LateArrives, server, SessionsTypes, history
  <2>2. kind \in Kinds /\ kind # "data"
    BY DEF Kinds, Lifecycle
  <2>3. kind = "closed" \/ CloseQueued(jobs[l]) => CloseQueued(jobs'[l])
    BY <1>1, <2>1, <2>2, CloseAppend, Zenon
  <2>4. Range(jobs'[l]) = Range(jobs[l]) \cup {kind}
    BY <1>1, <2>1, <2>2, RangeAppend
  <2>5. CloseHandled(l) => CloseHandled(l)'
    BY <2>1, <2>2, <2>4, Zenon DEF CloseHandled
  <2> QED BY <1>1, <2>1, <2>3, <2>5, Zenon DEF CloseAhead
<1>5. CASE Established(l) \/ Identified(l) \/ Data(l) \/ Closed(l)
  <2>1. PICK kind \in Kinds :
            /\ TakeJob(l, kind)
            /\ kind = "closed" => Closed(l)
            /\ kind = "data" => Data(l)
            /\ kind = "established" => Established(l)
            /\ kind = "identified" => Identified(l)
    BY <1>5 DEF Established, Identified, Data, Closed, Kinds, Lifecycle
  <2>2. /\ jobs[l] # <<>> /\ Head(jobs[l]) = kind /\ jobs'[l] = Tail(jobs[l])
        /\ link' = link /\ late' = late /\ worker[l].pc = "idle" /\ worker[l].replay = 0
    BY <1>1, <2>1, TakeJobKeeps, Zenon DEF TakeJob, Free, history
  <2>3. CloseQueued(jobs[l]) => CloseQueued(jobs'[l]) \/ (kind = "closed" /\ "data" \notin Range(jobs'[l]))
    BY <1>1, <2>2, CloseTail, Zenon
  <2>4. Range(jobs'[l]) \subseteq Range(jobs[l]) /\ kind \in Range(jobs[l])
    <3>1. 1 \in DOMAIN jobs[l] /\ jobs[l][1] = kind
      BY <1>1, <2>2
    <3> QED BY <1>1, <2>2, <3>1, TailKeeps, Zenon DEF Range
  <2>5. ASSUME kind = "closed", "data" \notin Range(jobs'[l]) PROVE CloseHandled(l)'
    <3>1. sess'[l] = None /\ worker' = worker
      BY <1>1, <2>1, <2>5, Zenon DEF Closed, SessionsTypes
    <3> QED BY <2>2, <2>5, <3>1, Zenon DEF CloseHandled
  <2>6. ASSUME CloseHandled(l) PROVE CloseHandled(l)'
    <3>1. kind # "data" /\ "data" \notin Range(jobs'[l])
      BY <2>4, <2>6, Zenon DEF CloseHandled
    <3> DEFINE s == SessionFor(l)
    <3>2. s \in Session /\ ~s.welcomed /\ s.pending = 0
      BY <1>1, <2>6, NewSessionType, Zenon DEF CloseHandled, SessionFor, NewSession, SessionsTypes
    <3>3. CASE kind = "closed"
      BY <2>5, <3>1, <3>3, Zenon
    <3>4. CASE kind = "established"
      <4>1. sess'[l] = s /\ worker' = worker
        BY <1>1, <2>1, <3>4, Zenon DEF Established, SessionsTypes
      <4> QED BY <2>2, <3>1, <3>2, <4>1, Zenon DEF CloseHandled
    <3>5. CASE kind = "identified"
      <4>1. CASE s.identified
        BY <2>1, <2>6, <3>1, <3>5, <4>1, Zenon DEF Identified, CloseHandled
      <4>2. CASE ~s.identified
        <5>1. /\ sess'[l] = [s EXCEPT !.identified = TRUE, !.pending = 0]
              /\ worker'[l] = [worker[l] EXCEPT !.pc = "check", !.replay = s.pending]
          BY <1>1, <2>1, <3>5, <4>2, Zenon DEF Identified, SessionsTypes
        <5> HIDE DEF s
        <5>2. ~sess'[l].welcomed /\ sess'[l].pending = 0
          BY <3>2, <5>1 DEF Session
        <5>3. worker'[l].pc = "check" /\ worker'[l].replay = 0
          BY <1>1, <3>2, <5>1 DEF SessionsTypes, Worker
        <5> QED BY <3>1, <5>2, <5>3, Zenon DEF CloseHandled
      <4> QED BY <4>1, <4>2, Zenon
    <3> QED BY <3>1, <3>3, <3>4, <3>5, Zenon DEF Kinds, Lifecycle
  <2> QED BY <1>1, <2>2, <2>3, <2>5, <2>6, Zenon DEF CloseAhead
<1>6. CASE MidJob(l)
  <2>1. link' = link /\ jobs' = jobs /\ late' = late /\ sess[l] \in Session /\ worker[l] \in Worker
    BY <1>1, <1>6, MidJobKeeps, Zenon
  <2>2. ASSUME CloseHandled(l) PROVE CloseHandled(l)'
    <3>1. CheckIdentity(l)
      BY <1>6, <2>2
         DEF CloseHandled, MidJob, ReplayPending, Hello, HelloIdentify, HelloWelcome, ReadMissed, SendMissed, MarkMissed, history
    <3>2. sess'[l].welcomed = sess[l].welcomed /\ sess'[l].pending = sess[l].pending
      BY <1>1, <2>1, <3>1 DEF CheckIdentity, SessionsTypes, CloseAfterFlush, Session, history
    <3>3. worker'[l].pc = "idle" /\ worker'[l].replay = 0
      BY <1>1, <2>1, <2>2, <3>1 DEF CheckIdentity, CloseHandled, SessionsTypes, Idle, Worker, history
    <3> QED BY <2>1, <2>2, <3>2, <3>3, NoneIsNoSession, Zenon DEF CloseHandled
  <2> QED BY <1>1, <2>1, <2>2, Zenon DEF CloseAhead
<1>7. CASE Writer(l)
  <2>1. PICK out \in Seq(Frames), state \in {"open", "closing", "flushed", "stopped"} :
            sess'[l] = [sess[l] EXCEPT !.out = out, !.state = state]
    BY <1>1, <1>7, WriterKeeps, ZenonT(30)
  <2>2. sess[l] \in Session /\ sess[l] # None /\ worker' = worker
    BY <1>1, <1>7, WriterKeeps, Zenon DEF SessionsTypes
  <2>3. sess'[l].welcomed = sess[l].welcomed /\ sess'[l].pending = sess[l].pending
    BY <2>1, <2>2, Zenon DEF Session
  <2>4. \/ link'[l] = link[l] /\ jobs'[l] = jobs[l] /\ late'[l] = late[l]
        \/ "closed" \in late'[l] \/ CloseQueued(jobs'[l])
    BY <1>1, <1>7, TeardownCloses, Zenon
       DEF Writer, WriterSends, WriterStops, WriterFlushed, queues, history
  <2> QED BY <1>1, <2>2, <2>3, <2>4, Zenon DEF CloseAhead, CloseHandled
<1>8. CASE Time(l) \/ Keepalive(l)
  <2>1. /\ worker' = worker /\ sess[l] # None
        /\ sess'[l].welcomed = sess[l].welcomed /\ sess'[l].pending = sess[l].pending
    BY <1>1, <1>8, TimerKeeps, Zenon
  <2>2. \/ link'[l] = link[l] /\ jobs'[l] = jobs[l] /\ late'[l] = late[l]
        \/ "closed" \in late'[l] \/ CloseQueued(jobs'[l])
    BY <1>1, <1>8, TeardownCloses, Zenon
       DEF Time, Keepalive, KeepaliveLooks, KeepaliveCloses, KeepalivePings, KeepaliveMarks, queues, history
  <2> QED BY <1>1, <2>1, <2>2, Zenon DEF CloseAhead, CloseHandled
<1> QED BY <1>2, <1>3, <1>4, <1>5, <1>6, <1>7, <1>8, Zenon DEF LinkStep, Work, MidJob
----------------------------------------------------------------------------
(* The copies *)

\* What a link's own goroutines add to the copies, they had still to send.
LEMMA OwnCopies ==
    ASSUME SessionsInv, NEW l \in Links, LinkStep(l), NEW w \in Whispers
    PROVE  TwoAtMost(l, w)'
<1>1. SessionsShape /\ TwoAtMost(l, w) /\ SessionsTypes
  BY DEF SessionsInv, SessionsShape
<1>2. SessionsTypes' /\ events' = events
      /\ (whisper' = whisper \/ whisper' = [whisper EXCEPT ![worker[l].marking] = "sent"])
  BY <1>1, LinkStepKeeps, Zenon DEF feed
<1>4. /\ got[l][w] \in Nat /\ got'[l][w] \in Nat
      /\ InQueue(sess[l], w) \in Nat /\ InQueue(sess'[l], w) \in Nat
      /\ EventLeft(w) \in {0, 1} /\ EventLeft(w)' \in {0, 1}
      /\ BacklogLeft(l, w) \in {0, 1} /\ BacklogLeft(l, w)' \in {0, 1}
  BY <1>1, <1>2, CountTypes, Zenon
<1>f. failed[l][w] \in Nat /\ failed'[l][w] \in Nat /\ failed[l][w] <= failed'[l][w]
  BY <1>1, LinkFailures, Zenon DEF SessionsInv, FailuresOf, FailureTypes
<1>e. EventLeft(w)' <= EventLeft(w)
  <2>1. whisper'[w] = "unsaid" => whisper[w] = "unsaid"
    BY <1>1, <1>2, Zenon DEF SessionsTypes
  <2>2. EventLeft(w)' # 0 => EventLeft(w) = 1
    BY <1>2, <2>1, Zenon DEF EventLeft
  <2>3. EventLeft(w) \in {0, 1} /\ EventLeft(w)' \in {0, 1}
    BY <1>4, Zenon
  <2> HIDE DEF EventLeft
  <2> QED BY <2>2, <2>3
<1>5. ASSUME got'[l][w] + InQueue(sess'[l], w) + BacklogLeft(l, w)' + failed[l][w]
                <= got[l][w] + InQueue(sess[l], w) + BacklogLeft(l, w) + failed'[l][w]
      PROVE  TwoAtMost(l, w)'
  <2>1. TwoAtMost(l, w)
    BY <1>1, Zenon
  <2> HIDE DEF InQueue, EventLeft, BacklogLeft
  <2> QED BY <1>4, <1>e, <1>f, <1>5, <2>1 DEF TwoAtMost
<1>less. ASSUME got' = got, InQueue(sess'[l], w) <= InQueue(sess[l], w), BacklogLeft(l, w)' <= BacklogLeft(l, w)
         PROVE  TwoAtMost(l, w)'
  <2>1. got'[l][w] = got[l][w]
    BY <1>less, Zenon
  <2> HIDE DEF InQueue, EventLeft, BacklogLeft
  <2> QED BY <1>4, <1>5, <1>f, <1>less, <2>1
<1>b. BacklogLeft(l, w) <= BacklogLeft(l, w) /\ InQueue(sess[l], w) <= InQueue(sess[l], w)
  <2> HIDE DEF InQueue, BacklogLeft
  <2> QED BY <1>4
<1>same. ASSUME got' = got, InQueue(sess'[l], w) = InQueue(sess[l], w), BacklogLeft(l, w)' = BacklogLeft(l, w)
         PROVE  TwoAtMost(l, w)'
  BY <1>b, <1>less, <1>same, Zenon
<1>6. CASE \/ LinkOpens(l) \/ LinkIdentifies(l) \/ LinkSends(l) \/ LinkCloses(l)
           \/ \E kind \in Lifecycle : LateArrives(l, kind)
  <2>1. UNCHANGED <<worker, sess, whisper, got>>
    BY <1>1, <1>6, CallbackKeeps, Zenon DEF server, chat
  <2>2. BacklogLeft(l, w)' = BacklogLeft(l, w)
    BY <2>1, Zenon DEF BacklogLeft, InHand
  <2> QED BY <1>same, <2>1, <2>2, Zenon
<1>7. CASE Established(l) \/ Identified(l) \/ Data(l) \/ Closed(l)
  <2>1. whisper' = whisper /\ got' = got
    BY <1>1, <1>7, JobKeeps, Zenon DEF chat
  <2>2. /\ worker[l].pc = "idle" /\ worker'[l].pc \in {"idle", "check", "identify"}
        /\ \/ sess'[l] = None
           \/ sess'[l] # None /\ sess[l] = None /\ sess'[l].out = <<>>
           \/ sess'[l] # None /\ sess[l] # None /\ sess'[l].out = sess[l].out
    BY <1>1, <1>7, JobEffect, Zenon
  <2>3. BacklogLeft(l, w)' = BacklogLeft(l, w)
    BY <2>1, <2>2, Zenon DEF BacklogLeft, InHand
  <2>4. Copies(<<>>, w) = 0 /\ InQueue(None, w) = 0
    <3>1. <<>> \in Seq(Frames) /\ None \in Session \cup {None}
      OBVIOUS
    <3> QED BY <3>1, CopiesType, QueueType, Zenon
  <2>5. InQueue(sess'[l], w) <= InQueue(sess[l], w)
    BY <1>4, <2>2, <2>4 DEF InQueue
  <2> QED BY <1>b, <1>less, <2>1, <2>3, <2>5, Zenon
<1>8. CASE MidJob(l)
  <2>1. sess[l] \in Session /\ worker[l] \in Worker /\ sess[l] # None /\ got' = got
    BY <1>1, <1>8, MidJobKeeps, NoneIsNoSession, Zenon
  <2>2. ASSUME whisper' = whisper, InHand(l) = {}, InHand(l)' \subseteq Unsent,
               worker[l].pc # "mark", worker'[l].pc # "mark"
        PROVE  BacklogLeft(l, w)' = BacklogLeft(l, w)
    BY <2>2, Zenon DEF BacklogLeft, Unsent
  <2>3. CASE CheckIdentity(l)
    <3>1. whisper' = whisper /\ worker[l].pc = "check" /\ worker'[l].pc = "idle"
      BY <1>1, <2>1, <2>3 DEF CheckIdentity, chat, SessionsTypes, Idle, Worker, history
    <3>2. sess'[l] = sess[l] \/ sess'[l] = CloseAfterFlush(sess[l])
      BY <1>1, <2>3, Zenon DEF CheckIdentity, SessionsTypes, history
    <3>3. sess'[l] \in Session /\ sess'[l].out = sess[l].out
      BY <2>1, <3>2, Zenon DEF CloseAfterFlush, Session
    <3>4. InQueue(sess'[l], w) = InQueue(sess[l], w)
      BY <2>1, <3>3, NoneIsNoSession, Zenon DEF InQueue
    <3>5. BacklogLeft(l, w)' = BacklogLeft(l, w)
      BY <2>2, <3>1, Zenon DEF InHand
    <3> QED BY <1>same, <2>1, <3>4, <3>5, Zenon
  <2>4. CASE ReplayPending(l)
    <3> DEFINE v == [worker[l] EXCEPT !.replay = @ - 1]
    <3>1. /\ v \in Worker /\ Handle(l, v) /\ worker[l].pc = "idle" /\ whisper' = whisper
          /\ v.pc = "idle" /\ [v EXCEPT !.pc = "identify"].pc = "identify"
      BY <2>1, <2>4 DEF ReplayPending, Worker, chat, history
    <3> HIDE DEF v
    <3>2. sess'[l] \in Session /\ sess'[l].out = sess[l].out /\ worker'[l].pc \in {"idle", "identify"}
      BY <1>1, <2>1, <3>1, HandleKeeps, Zenon
    <3>3. InQueue(sess'[l], w) = InQueue(sess[l], w)
      BY <2>1, <3>2, NoneIsNoSession, Zenon DEF InQueue
    <3>4. BacklogLeft(l, w)' = BacklogLeft(l, w)
      BY <2>2, <3>1, <3>2, ZenonT(30) DEF InHand
    <3> QED BY <1>same, <2>1, <3>3, <3>4, Zenon
  <2>5. CASE HelloIdentify(l)
    <3>1. whisper' = whisper /\ worker[l].pc = "identify" /\ worker'[l].pc \in {"idle", "welcome"}
      BY <1>1, <2>1, <2>5 DEF HelloIdentify, chat, SessionsTypes, Worker, history
    <3>2. sess'[l] = sess[l] \/ sess'[l] = CloseAfterFlush(sess[l])
      BY <1>1, <2>5, Zenon DEF HelloIdentify, SessionsTypes, history
    <3>3. sess'[l] \in Session /\ sess'[l].out = sess[l].out
      BY <2>1, <3>2, Zenon DEF CloseAfterFlush, Session
    <3>4. InQueue(sess'[l], w) = InQueue(sess[l], w)
      BY <2>1, <3>3, NoneIsNoSession, Zenon DEF InQueue
    <3>5. BacklogLeft(l, w)' = BacklogLeft(l, w)
      BY <2>2, <3>1, ZenonT(30) DEF InHand
    <3> QED BY <1>same, <2>1, <3>4, <3>5, Zenon
  <2>6. CASE HelloWelcome(l)
    <3> DEFINE o == Offer(sess[l], "welcome")
    <3>1. whisper' = whisper /\ worker[l].pc = "welcome" /\ worker'[l].pc \in {"idle", "missed"}
      BY <1>1, <2>1, <2>6 DEF HelloWelcome, chat, SessionsTypes, Worker, history
    <3>2. sess'[l] = sess[l] \/ sess'[l] = [o EXCEPT !.welcomed = TRUE, !.due = FALSE]
      BY <1>1, <2>6, Zenon DEF HelloWelcome, SessionsTypes, history
    <3>3. o \in Session /\ "welcome" \in Frames /\ "welcome" # w
      BY <2>1, SessionKept, SessionsConstants, Zenon DEF Frames
    <3>4. InQueue(o, w) = InQueue(sess[l], w)
      BY <2>1, <3>3, OfferCopies, Zenon
    <3> HIDE DEF o
    <3>5. [o EXCEPT !.welcomed = TRUE, !.due = FALSE] \in Session /\ [o EXCEPT !.welcomed = TRUE, !.due = FALSE].out = o.out
      BY <3>3, Zenon DEF Session
    <3>6. InQueue([o EXCEPT !.welcomed = TRUE, !.due = FALSE], w) = InQueue(o, w)
      <4> DEFINE t == [o EXCEPT !.welcomed = TRUE, !.due = FALSE]
      <4>1. t # None /\ o # None /\ t.out = o.out
        BY <3>3, <3>5, NoneIsNoSession, Zenon
      <4> HIDE DEF t
      <4>2. InQueue(t, w) = InQueue(o, w)
        BY <4>1 DEF InQueue
      <4> QED BY <4>2 DEF t
    <3>7. InQueue(sess'[l], w) = InQueue(sess[l], w)
      BY <3>2, <3>4, <3>6, Zenon
    <3>8. BacklogLeft(l, w)' = BacklogLeft(l, w)
      BY <2>2, <3>1, Zenon DEF InHand
    <3> QED BY <1>same, <2>1, <3>7, <3>8, Zenon
  <2>7. CASE ReadMissed(l)
    <3>1. whisper' = whisper /\ sess' = sess /\ worker[l].pc = "missed"
      BY <2>7, Zenon DEF ReadMissed, chat
    <3>r. PICK read \in {Unsent, {}} : worker'[l] = AfterMissed(l, read)
      BY <1>1, <2>7, Zenon DEF ReadMissed, SessionsTypes
    <3>2. worker'[l].pc \in {"idle", "send"} /\ worker'[l].missed = read /\ read \subseteq Unsent
      BY <2>1, <3>r, Zenon DEF AfterMissed, Worker
    <3>3. BacklogLeft(l, w)' = BacklogLeft(l, w)
      BY <2>2, <3>1, <3>2, Zenon DEF InHand
    <3> QED BY <1>same, <2>1, <3>1, <3>3, Zenon
  <2>8. ASSUME NEW x \in Whispers, SendMissed(l, x) PROVE TwoAtMost(l, w)'
    <3> DEFINE v == [worker[l] EXCEPT !.pc = "mark", !.marking = x]
    <3>1. /\ whisper' = whisper /\ worker[l].pc = "send" /\ x \in worker[l].missed
          /\ worker'[l] = v /\ sess'[l] = Offer(sess[l], x)
      BY <1>1, <2>8, Zenon DEF SendMissed, chat, SessionsTypes, history
    <3>2. v.pc = "mark" /\ v.missed = worker[l].missed /\ v.marking = x
      BY <2>1 DEF Worker
    <3> HIDE DEF v
    <3>3. x \in Frames
      BY Zenon DEF Frames
    <3>4. CASE x = w
      <4>1. BacklogLeft(l, w) = 1 /\ BacklogLeft(l, w)' = 0
        BY <3>1, <3>2, <3>4, Zenon DEF BacklogLeft, InHand
      <4>2. InQueue(sess'[l], w) <= InQueue(sess[l], w) + 1
        BY <2>1, <3>1, <3>3, OfferCopies, Zenon
      <4>3. got'[l][w] = got[l][w]
        BY <2>1, Zenon
      <4> HIDE DEF InQueue, EventLeft, BacklogLeft
      <4> QED BY <1>4, <1>5, <1>f, <4>1, <4>2, <4>3
    <3>5. CASE x # w
      <4>1. BacklogLeft(l, w)' = BacklogLeft(l, w)
        BY <3>1, <3>2, <3>5, Zenon DEF BacklogLeft, InHand
      <4>2. InQueue(sess'[l], w) = InQueue(sess[l], w)
        BY <2>1, <3>1, <3>3, <3>5, OfferCopies, ZenonT(30)
      <4> QED BY <1>same, <2>1, <4>1, <4>2, Zenon
    <3> QED BY <3>4, <3>5, Zenon
  <2>9. CASE MarkMissed(l)
    <3> DEFINE m == worker[l].missed \ {worker[l].marking}
    <3>1. sess' = sess /\ worker[l].pc = "mark" /\ worker'[l] = AfterMissed(l, m)
      BY <1>1, <2>9, Zenon DEF MarkMissed, SessionsTypes
    <3>2. worker'[l].pc \in {"idle", "send"} /\ worker'[l].missed = m
      BY <2>1, <3>1, Zenon DEF AfterMissed, Worker
    <3>3. BacklogLeft(l, w) \in {0, 1} /\ BacklogLeft(l, w)' \in {0, 1}
      BY <1>4, Zenon
    <3>4. ASSUME w # worker[l].marking \/ whisper'[w] = "sent",
                 whisper'[w] = whisper[w] \/ whisper'[w] = "sent"
          PROVE  TwoAtMost(l, w)'
      <4>1. BacklogLeft(l, w)' # 0 => BacklogLeft(l, w) = 1
        BY <3>1, <3>2, <3>4, ZenonT(30) DEF BacklogLeft, InHand
      <4>2. BacklogLeft(l, w)' <= BacklogLeft(l, w)
        <5> HIDE DEF BacklogLeft
        <5> QED BY <3>3, <4>1
      <4> QED BY <1>b, <1>less, <2>1, <3>1, <4>2, Zenon
    <3>5. CASE whisper' = [whisper EXCEPT ![worker[l].marking] = "sent"]
      BY <1>1, <3>4, <3>5, Zenon DEF SessionsTypes
    <3>6. CASE whisper' = whisper /\ failed' = [failed EXCEPT ![l][worker[l].marking] = @ + 1]
      <4>1. CASE w # worker[l].marking
        BY <3>4, <3>6, <4>1, Zenon
      <4>2. CASE w = worker[l].marking
        <5>1. failed'[l][w] = failed[l][w] + 1
          BY <3>6, <4>2, Zenon DEF SessionsInv, FailureTypes
        <5>2. got'[l][w] = got[l][w] /\ InQueue(sess'[l], w) = InQueue(sess[l], w)
          BY <2>1, <3>1, Zenon
        <5> HIDE DEF InQueue, EventLeft, BacklogLeft
        <5> QED BY <1>4, <1>5, <1>f, <3>3, <5>1, <5>2
      <4> QED BY <4>1, <4>2, Zenon
    <3> QED BY <2>9, <3>5, <3>6, Zenon DEF MarkMissed
  <2> QED BY <1>8, <2>3, <2>4, <2>5, <2>6, <2>7, <2>8, <2>9, Zenon DEF MidJob, Hello
<1>9. CASE Writer(l)
  <2>1. sess[l] \in Session /\ sess[l] # None /\ worker' = worker /\ whisper' = whisper
    BY <1>1, <1>9, WriterKeeps, Zenon DEF SessionsTypes, chat
  <2>2. BacklogLeft(l, w)' = BacklogLeft(l, w)
    BY <2>1, Zenon DEF BacklogLeft, InHand
  <2>3. sess'[l] # None /\ sess[l].out \in Seq(Frames)
    <3>2. PICK out \in Seq(Frames), state \in {"open", "closing", "flushed", "stopped"} :
              sess'[l] = [sess[l] EXCEPT !.out = out, !.state = state]
      BY <1>1, <1>9, WriterKeeps, Zenon
    <3>1. sess'[l] \in Session
      BY <2>1, <3>2, Zenon DEF Session, Frames
    <3> QED BY <2>1, <3>1, NoneIsNoSession, Zenon DEF Session, Frames
  <2>4. CASE WriterSends(l)
    <3>1. sess'[l].out = Tail(sess[l].out) /\ sess[l].out # <<>>
      BY <1>1, <2>1, <2>4, Zenon DEF WriterSends, SessionsTypes, Session, history
    <3>2. Copies(sess[l].out, w) = Copies(Tail(sess[l].out), w) + (IF Head(sess[l].out) = w THEN 1 ELSE 0)
      BY <2>3, <3>1, CopiesTail, ZenonT(30)
    <3>3. got'[l][w] <= got[l][w] + (IF Head(sess[l].out) = w THEN 1 ELSE 0)
      BY <1>1, <2>4 DEF WriterSends, SessionsTypes, history
    <3>4. InQueue(sess[l], w) = InQueue(sess'[l], w) + (IF Head(sess[l].out) = w THEN 1 ELSE 0)
      BY <2>1, <2>3, <3>1, <3>2, Zenon DEF InQueue
    <3> HIDE DEF InQueue, EventLeft, BacklogLeft
    <3> QED BY <1>4, <1>5, <1>f, <2>2, <3>3, <3>4
  <2>5. CASE WriterStops(l)
    <3>1. sess'[l].out = <<>> /\ got' = got
      BY <1>1, <2>1, <2>5, Zenon DEF WriterStops, SessionsTypes, Session, history
    <3>2. Copies(<<>>, w) = 0
      BY <2>3, CopiesType, Zenon
    <3>3. InQueue(sess'[l], w) = 0
      BY <2>3, <3>1, <3>2, Zenon DEF InQueue
    <3>4. InQueue(sess'[l], w) <= InQueue(sess[l], w)
      <4> HIDE DEF InQueue
      <4> QED BY <1>4, <3>3
    <3> QED BY <1>b, <1>less, <2>2, <3>1, <3>4, Zenon
  <2>6. CASE WriterFlushed(l)
    <3>1. sess'[l].out = sess[l].out /\ got' = got
      BY <1>1, <2>1, <2>6, Zenon DEF WriterFlushed, SessionsTypes, Session, history
    <3>2. InQueue(sess'[l], w) = InQueue(sess[l], w)
      BY <2>1, <2>3, <3>1, Zenon DEF InQueue
    <3> QED BY <1>same, <2>2, <3>1, <3>2, Zenon
  <2> QED BY <1>9, <2>4, <2>5, <2>6, Zenon DEF Writer
<1>10. CASE Time(l) \/ Keepalive(l)
  <2>1. /\ worker' = worker /\ whisper' = whisper /\ got' = got
        /\ sess[l] \in Session /\ sess[l] # None /\ sess'[l] # None
        /\ sess'[l].out = sess[l].out \/ sess'[l].out = Append(sess[l].out, "ping")
    BY <1>1, <1>10, TimerKeeps, Zenon DEF chat
  <2>2. BacklogLeft(l, w)' = BacklogLeft(l, w)
    BY <2>1, Zenon DEF BacklogLeft, InHand
  <2>3. sess[l].out \in Seq(Frames) /\ "ping" \in Frames /\ "ping" # w
    BY <2>1, SessionsConstants, Zenon DEF Session, Frames
  <2>4. Copies(Append(sess[l].out, "ping"), w) = Copies(sess[l].out, w) + (IF "ping" = w THEN 1 ELSE 0)
    BY <2>3, CopiesAppend
  <2>5. Copies(sess[l].out, w) \in Nat
    BY <2>3, CopiesType, Zenon
  <2>6. InQueue(sess'[l], w) = InQueue(sess[l], w)
    <3>1. InQueue(sess'[l], w) = Copies(sess'[l].out, w) /\ InQueue(sess[l], w) = Copies(sess[l].out, w)
      BY <2>1, Zenon DEF InQueue
    <3>2. CASE sess'[l].out = sess[l].out
      BY <3>1, <3>2, Zenon
    <3>3. CASE sess'[l].out = Append(sess[l].out, "ping")
      <4>1. Copies(Append(sess[l].out, "ping"), w) = Copies(sess[l].out, w)
        <5> HIDE DEF Copies
        <5> QED BY <2>3, <2>4, <2>5
      <4> QED BY <3>1, <3>3, <4>1, Zenon
    <3> QED BY <2>1, <3>2, <3>3
  <2> QED BY <1>same, <2>1, <2>2, <2>6, Zenon
<1> QED BY <1>6, <1>7, <1>8, <1>9, <1>10, ZenonT(30) DEF LinkStep, Work, MidJob
----------------------------------------------------------------------------
(* The invariant *)

\* Saying, banning and marking leave every session and worker as they are.
LEMMA NewsKeeps ==
    ASSUME SessionsInv, BanPerson \/ MarkWhisper \/ \E w \in Whispers : Say(w)
    PROVE  SessionsInv'
<1>1. /\ SessionsShape /\ SessionsTypes /\ EventsOnce /\ \A w \in Whispers : w # "ban" /\ w # None
      /\ \A k \in Links : BanAhead(k) /\ WhisperAhead(k) /\ CloseAhead(k)
      /\ \A k \in Links, w \in Whispers : TwoAtMost(k, w)
  BY SessionsConstants, Zenon DEF SessionsInv, SessionsShape
<1>2. /\ SessionsShape' /\ unmarked \subseteq unmarked'
      /\ UNCHANGED <<link, jobs, late, worker, sess, keepalive, got, unread, failed>>
  BY <1>1, SayKeeps, BanKeeps, MarkKeeps, Zenon
<1>f. FailureTypes /\ FailureTypes'
  BY <1>2, Zenon DEF SessionsInv, FailureTypes
<1>3. SessionsTypes'
  BY <1>2, Zenon DEF SessionsShape
<1>4. \A k \in Links : CloseAhead(k)'
  BY <1>1, <1>2, Zenon DEF CloseAhead, CloseHandled
<1>5. ASSUME \A k \in Links : BanAhead(k)' /\ WhisperAhead(k)',
             \A w \in Whispers : /\ EventLeft(w)' <= EventLeft(w)
                                 /\ \A k \in Links : BacklogLeft(k, w)' <= BacklogLeft(k, w)
      PROVE  SessionsInv'
  <2>1. ASSUME NEW k \in Links, NEW w \in Whispers PROVE TwoAtMost(k, w)'
    <3>1. /\ got[k][w] \in Nat /\ InQueue(sess[k], w) \in Nat
          /\ EventLeft(w) \in {0, 1} /\ EventLeft(w)' \in {0, 1}
          /\ BacklogLeft(k, w) \in {0, 1} /\ BacklogLeft(k, w)' \in {0, 1}
      BY <1>1, <1>3, CountTypes, Zenon
    <3>2. /\ TwoAtMost(k, w) /\ EventLeft(w)' <= EventLeft(w) /\ BacklogLeft(k, w)' <= BacklogLeft(k, w)
          /\ failed[k][w] \in Nat
      BY <1>1, <1>5, <1>f, Zenon DEF FailureTypes
    <3> HIDE DEF InQueue, EventLeft, BacklogLeft
    <3> QED BY <1>2, <3>1, <3>2 DEF TwoAtMost
  <2> QED BY <1>2, <1>4, <1>5, <1>f, <2>1, Zenon DEF SessionsInv
<1>6. ASSUME NEW w \in Whispers, Say(w) PROVE SessionsInv'
  <2>1. /\ banned' = banned /\ fanout' = fanout
        /\ whisper[w] = "unsaid" /\ whisper' = [whisper EXCEPT ![w] = "unsent"]
        /\ \/ Range(events') = Range(events) \cup {w} /\ dropped' = dropped
           \/ Range(events') = Range(events) /\ dropped' = dropped \cup {w}
    BY <1>1, <1>6, SayKeeps, Zenon
  <2>2. \A x \in Whispers : whisper'[x] = IF x = w THEN "unsent" ELSE whisper[x]
    BY <1>1, <2>1, Zenon DEF SessionsTypes
  <2>3. Unsent' \subseteq Unsent \cup {w}
    BY <2>2, Zenon DEF Unsent
  <2>4. ASSUME NEW k \in Links PROVE BanAhead(k)' /\ WhisperAhead(k)'
    BY <1>1, <1>2, <2>1, <2>3, Zenon DEF BanAhead, WhisperAhead, InHand
  <2>5. ASSUME NEW x \in Whispers PROVE EventLeft(x)' <= EventLeft(x)
    BY <2>1, <2>2 DEF EventLeft
  <2>6. ASSUME NEW x \in Whispers, NEW k \in Links PROVE BacklogLeft(k, x)' <= BacklogLeft(k, x)
    BY <1>2, <2>1, <2>2 DEF BacklogLeft, InHand
  <2> QED BY <1>5, <2>4, <2>5, <2>6, Zenon
<1>7. CASE BanPerson
  <2>1. /\ whisper' = whisper /\ fanout' = fanout
        /\ \/ Range(events') = Range(events) \cup {"ban"} /\ dropped' = dropped
           \/ Range(events') = Range(events) /\ dropped' = dropped \cup {"ban"}
    BY <1>1, <1>7, BanKeeps, Zenon
  <2>2. Unsent' = Unsent
    BY <2>1, Zenon DEF Unsent
  <2>3. ASSUME NEW k \in Links PROVE BanAhead(k)' /\ WhisperAhead(k)'
    BY <1>1, <1>2, <2>1, <2>2, Zenon DEF BanAhead, WhisperAhead, InHand
  <2>4. ASSUME NEW x \in Whispers PROVE EventLeft(x)' <= EventLeft(x)
    BY <1>1, <2>1 DEF EventLeft
  <2>5. ASSUME NEW x \in Whispers, NEW k \in Links PROVE BacklogLeft(k, x)' <= BacklogLeft(k, x)
    BY <1>2, <2>1 DEF BacklogLeft, InHand
  <2> QED BY <1>5, <2>3, <2>4, <2>5, Zenon
<1>8. CASE MarkWhisper
  <2>1. /\ banned' = banned /\ events' = events /\ dropped' = dropped
        /\ fanout \in Whispers
        /\ \/ whisper' = [whisper EXCEPT ![fanout] = "sent"] /\ unmarked' = unmarked
           \/ whisper' = whisper /\ unmarked' = unmarked \cup {fanout}
    BY <1>1, <1>8, MarkKeeps, Zenon
  <2>2. /\ \A x \in Whispers : whisper'[x] = whisper[x] \/ whisper'[x] = "sent"
        /\ whisper'[fanout] = "sent" \/ fanout \in unmarked'
    BY <1>1, <2>1, Zenon DEF SessionsTypes
  <2>3. Unsent' \subseteq Unsent /\ (fanout \in Unsent' => fanout \in unmarked')
    BY <2>2, Zenon DEF Unsent
  <2>4. ASSUME NEW k \in Links PROVE BanAhead(k)' /\ WhisperAhead(k)'
    BY <1>1, <1>2, <2>1, <2>3, Zenon DEF BanAhead, WhisperAhead, InHand
  <2>5. ASSUME NEW x \in Whispers PROVE EventLeft(x)' <= EventLeft(x)
    BY <2>1, <2>2 DEF EventLeft
  <2>6. ASSUME NEW x \in Whispers, NEW k \in Links PROVE BacklogLeft(k, x)' <= BacklogLeft(k, x)
    BY <1>2, <2>2 DEF BacklogLeft, InHand
  <2> QED BY <1>5, <2>4, <2>5, <2>6, Zenon
<1> QED BY <1>6, <1>7, <1>8, Zenon

\* A whisper the fan-out takes is offered to every session and is in its hand
\* until it is marked; a ban it takes closes every session.
LEMMA DeliveredKeeps ==
    ASSUME SessionsInv, DeliverWhisper \/ DeliverBan
    PROVE  SessionsInv'
<1> DEFINE h == Head(events)
<1>1. /\ SessionsShape /\ SessionsTypes /\ EventsOnce /\ \A w \in Whispers : w # "ban" /\ w # None
      /\ \A k \in Links : BanAhead(k) /\ WhisperAhead(k) /\ CloseAhead(k) /\ WorkerHasSession(k)
      /\ \A k \in Links, w \in Whispers : TwoAtMost(k, w)
  BY SessionsConstants, Zenon DEF SessionsInv, SessionsShape
<1>2. /\ SessionsShape'
      /\ UNCHANGED <<link, jobs, late, worker, keepalive, whisper, banned, dropped, got, unread, unmarked, failed>>
      /\ fanout = None /\ h \in Range(events) /\ Range(events') = Range(events) \ {h}
  BY <1>1, DeliverKeeps, Zenon
<1>3. SessionsTypes' /\ Unsent' = Unsent
  BY <1>2, Zenon DEF SessionsShape, Unsent
<1>4. \A k \in Links, w \in Whispers : BacklogLeft(k, w)' = BacklogLeft(k, w) /\ InHand(k)' = InHand(k)
  BY <1>2, Zenon DEF BacklogLeft, InHand
<1>5. ASSUME NEW k \in Links
      PROVE  /\ (k \notin SessionsOf => sess'[k] = sess[k])
             /\ sess[k] # None => /\ sess[k] \in Session /\ sess'[k] \in Session
                                  /\ sess'[k].identified = sess[k].identified
                                  /\ sess'[k].welcomed = sess[k].welcomed
                                  /\ sess'[k].pending = sess[k].pending
                                  /\ sess'[k].state = "open" => sess[k].state = "open"
             /\ sess'[k] = None <=> sess[k] = None
  <2>1. sess[k] \in Session \cup {None}
    BY <1>1, Zenon DEF SessionsTypes
  <2>2. CASE k \notin SessionsOf
    <3>1. sess'[k] = sess[k]
      BY <2>2, Zenon DEF DeliverWhisper, DeliverBan
    <3> QED BY <2>1, <3>1, Zenon
  <2>3. CASE k \in SessionsOf /\ DeliverWhisper
    <3> DEFINE o == Offer(sess[k], h).out
    <3>1. sess[k] \in Session /\ sess[k] # None /\ h \in Frames
      BY <2>1, <2>3, Zenon DEF SessionsOf, DeliverWhisper, Frames
    <3>2. sess'[k] \in Session /\ sess'[k] = [sess[k] EXCEPT !.out = o]
      BY <2>3, <3>1, SessionKept, Zenon DEF DeliverWhisper
    <3> HIDE DEF o
    <3> QED BY <2>3, <3>1, <3>2, NoneIsNoSession, Zenon DEF Session
  <2>4. CASE k \in SessionsOf /\ DeliverBan
    <3>1. sess[k] \in Session /\ sess[k] # None
      BY <2>1, <2>4, Zenon DEF SessionsOf
    <3>2. sess'[k] = CloseAfterFlush(sess[k])
      BY <2>4, Zenon DEF DeliverBan
    <3>3. CloseAfterFlush(sess[k]) \in Session
      BY <3>1, Zenon DEF CloseAfterFlush, Session
    <3> QED BY <2>4, <3>1, <3>2, <3>3, NoneIsNoSession, ZenonT(30) DEF CloseAfterFlush, Session
  <2> QED BY <2>2, <2>3, <2>4, Zenon
<1>6. ASSUME NEW k \in Links PROVE CloseAhead(k)'
  BY <1>1, <1>2, <1>5, Zenon DEF CloseAhead, CloseHandled
<1>7. ASSUME NEW k \in Links PROVE BanAhead(k)'
  <2>1. CASE DeliverWhisper
    <3>1. h # "ban"
      BY <1>1, <2>1, Zenon DEF DeliverWhisper
    <3> QED BY <1>1, <1>2, <1>5, <3>1, Zenon DEF BanAhead
  <2>2. CASE DeliverBan
    <3>1. CASE k \in SessionsOf
      <4>1. sess'[k] = CloseAfterFlush(sess[k]) /\ sess[k] \in Session
        BY <1>1, <2>2, <3>1, Zenon DEF DeliverBan, SessionsOf, SessionsTypes
      <4>2. sess'[k].state # "open"
        BY <4>1, Zenon DEF CloseAfterFlush, Session
      <4> QED BY <4>2, Zenon DEF BanAhead
    <3>2. CASE k \notin SessionsOf
      BY <1>5, <3>2, Zenon DEF BanAhead, SessionsOf
    <3> QED BY <3>1, <3>2, Zenon
  <2> QED BY <2>1, <2>2, Zenon
<1>8. ASSUME NEW k \in Links PROVE WhisperAhead(k)'
  <2> SUFFICES ASSUME sess'[k] # None, sess'[k].welcomed, worker'[k].pc # "missed", NEW w \in Unsent
               PROVE  w \in Range(events') \cup {fanout'} \cup dropped' \cup InHand(k)' \cup unread'[k] \cup unmarked'
    BY <1>3, Zenon DEF WhisperAhead
  <2>1. sess[k] # None /\ sess[k].welcomed /\ w \in Whispers
    BY <1>5, Zenon DEF Unsent
  <2>2. w \in Range(events) \cup dropped \cup InHand(k) \cup unread[k] \cup unmarked
    BY <1>1, <1>2, <2>1, Zenon DEF WhisperAhead
  <2>3. CASE w # h
    BY <1>2, <1>4, <2>1, <2>2, <2>3, Zenon
  <2>4. CASE w = h
    <3>1. DeliverWhisper
      BY <1>1, <2>1, <2>4, Zenon DEF DeliverBan
    <3>2. k \in SessionsOf
      BY <1>1, <2>1, Zenon DEF SessionsOf, WorkerHasSession
    <3>3. fanout' = h
      BY <3>1, <3>2, Zenon DEF DeliverWhisper
    <3> QED BY <2>4, <3>3, Zenon
  <2> QED BY <2>3, <2>4, Zenon
<1>9. ASSUME NEW k \in Links, NEW w \in Whispers PROVE TwoAtMost(k, w)'
  <2>1. /\ got[k][w] \in Nat /\ InQueue(sess[k], w) \in Nat /\ InQueue(sess'[k], w) \in Nat
        /\ EventLeft(w) \in {0, 1} /\ EventLeft(w)' \in {0, 1}
        /\ BacklogLeft(k, w) \in {0, 1} /\ BacklogLeft(k, w)' = BacklogLeft(k, w)
        /\ failed[k][w] \in Nat
    BY <1>1, <1>3, <1>4, CountTypes, Zenon DEF SessionsInv, FailureTypes
  <2>2. ASSUME InQueue(sess'[k], w) + EventLeft(w)' <= InQueue(sess[k], w) + EventLeft(w)
        PROVE  TwoAtMost(k, w)'
    <3>1. TwoAtMost(k, w)
      BY <1>1, Zenon
    <3> HIDE DEF InQueue, EventLeft, BacklogLeft
    <3> QED BY <1>2, <2>1, <2>2, <3>1 DEF TwoAtMost
  <2>3. EventLeft(w)' <= EventLeft(w)
    BY <1>2 DEF EventLeft
  <2>4. CASE k \notin SessionsOf
    BY <1>5, <2>1, <2>2, <2>3, <2>4
  <2>5. CASE k \in SessionsOf /\ DeliverBan
    <3>1. sess'[k] = CloseAfterFlush(sess[k]) /\ sess[k] \in Session /\ sess[k] # None /\ sess'[k] # None
      BY <1>1, <1>5, <2>5, Zenon DEF DeliverBan, SessionsOf, SessionsTypes
    <3>2. sess'[k].out = sess[k].out
      BY <3>1, Zenon DEF CloseAfterFlush, Session
    <3>3. InQueue(sess'[k], w) = InQueue(sess[k], w)
      BY <3>1, <3>2, Zenon DEF InQueue
    <3> QED BY <2>1, <2>2, <2>3, <3>3
  <2>6. CASE k \in SessionsOf /\ DeliverWhisper
    <3>1. sess'[k] = Offer(sess[k], h) /\ sess[k] \in Session /\ h \in Frames
      BY <1>1, <2>6, Zenon DEF DeliverWhisper, SessionsOf, SessionsTypes, Frames
    <3>2. CASE h = w
      <4>1. EventLeft(w) = 1 /\ EventLeft(w)' = 0
        BY <1>1, <1>2, <3>2, Zenon DEF EventLeft, EventsOnce
      <4>2. InQueue(sess'[k], w) <= InQueue(sess[k], w) + 1
        BY <3>1, OfferCopies, Zenon
      <4> QED BY <2>1, <2>2, <4>1, <4>2
    <3>3. CASE h # w
      <4>1. InQueue(sess'[k], w) = InQueue(sess[k], w)
        BY <3>1, <3>3, OfferCopies, Zenon
      <4> QED BY <2>1, <2>2, <2>3, <4>1
    <3> QED BY <3>2, <3>3, Zenon
  <2> QED BY <2>4, <2>5, <2>6, Zenon
<1>10. FailureTypes'
  BY <1>2, Zenon DEF SessionsInv, FailureTypes
<1> QED BY <1>2, <1>6, <1>7, <1>8, <1>9, <1>10, Zenon DEF SessionsInv

\* At first there are no links.
LEMMA InitSessions == Init => SessionsInv
<1> SUFFICES ASSUME Init PROVE SessionsInv
  BY Zenon
<1>1. <<>> \in Seq(Kinds) /\ <<>> \in Seq(Whispers \cup {"ban"}) /\ Idle \in Worker
  BY DEF Idle, Worker
<1>2. SessionsTypes
  BY <1>1, Zenon DEF Init, SessionsTypes
<1>3. Range(events) = {} /\ NoRepeats(events)
  BY DEF Init, Range, NoRepeats
<1>4. EventsOnce
  BY <1>3 DEF EventsOnce
<1>5. \A l \in Links : WorkerHasSession(l)
  BY DEF Init, WorkerHasSession, Idle
<1>6. ASSUME NEW l \in Links PROVE BanAhead(l) /\ WhisperAhead(l) /\ CloseAhead(l)
  BY Zenon DEF Init, BanAhead, WhisperAhead, CloseAhead
<1>7. ASSUME NEW l \in Links, NEW w \in Whispers PROVE TwoAtMost(l, w)
  <2>1. InQueue(sess[l], w) = 0 /\ got[l][w] = 0 /\ failed[l][w] = 0
    BY Zenon DEF Init, InQueue
  <2> QED BY <2>1 DEF TwoAtMost, EventLeft, BacklogLeft
<1>8. FailureTypes
  BY DEF Init, FailureTypes
<1> QED BY <1>2, <1>4, <1>5, <1>6, <1>7, <1>8, Zenon DEF SessionsInv, SessionsShape

\* A step of one link's goroutines keeps every link's invariants.
LEMMA LinkStepInv ==
    ASSUME SessionsInv, NEW l \in Links, LinkStep(l)
    PROVE  SessionsInv'
<1>1. SessionsShape
  BY DEF SessionsInv
<1>2. /\ SessionsTypes' /\ WorkerHasSession(l)' /\ UNCHANGED <<banned, feed>>
      /\ whisper' = whisper \/ whisper' = [whisper EXCEPT ![worker[l].marking] = "sent"]
  BY <1>1, LinkStepKeeps, Zenon
<1>3. \A w \in Whispers : whisper'[w] = whisper[w] \/ whisper'[w] = "sent"
  BY <1>1, <1>2, Zenon DEF SessionsShape, SessionsTypes
<1>4. EventsOnce'
  BY <1>1, <1>2, <1>3, Zenon DEF SessionsShape, EventsOnce, feed
<1>5. ASSUME NEW k \in Links
      PROVE  WorkerHasSession(k)' /\ BanAhead(k)' /\ WhisperAhead(k)' /\ CloseAhead(k)'
  BY <1>2, OthersKeep, OwnBan, OwnWhisper, OwnClose, Zenon
<1>6. ASSUME NEW k \in Links, NEW w \in Whispers PROVE TwoAtMost(k, w)'
  BY OthersKeep, OwnCopies, Zenon
<1>7. FailureTypes'
  BY <1>1, LinkFailures, Zenon DEF SessionsInv, FailuresOf
<1> QED BY <1>2, <1>4, <1>5, <1>6, <1>7, Zenon DEF SessionsInv, SessionsShape

\* The invariant of the links and the fan-out holds throughout.
THEOREM SessionsInvariant == Spec => []SessionsInv
<1>1. Init => SessionsInv
  BY InitSessions, Zenon
<1>2. SessionsInv /\ [Next]_vars => SessionsInv'
  <2> SUFFICES ASSUME SessionsInv, [Next]_vars PROVE SessionsInv'
    BY Zenon
  <2>1. CASE Next
    <3>1. ASSUME NEW l \in Links, LinkStep(l) PROVE SessionsInv'
      BY <3>1, LinkStepInv, Zenon
    <3>2. CASE BanPerson \/ MarkWhisper \/ \E w \in Whispers : Say(w)
      BY <3>2, NewsKeeps, Zenon
    <3>3. CASE DeliverWhisper \/ DeliverBan
      BY <3>3, DeliveredKeeps, Zenon
    <3> QED BY <2>1, <3>1, <3>2, <3>3, Zenon DEF Next, LinkStep, FanOut
  <2>2. CASE UNCHANGED vars
    <3>1. UNCHANGED <<link, jobs, late, worker, sess, keepalive, whisper, banned, events, fanout, dropped,
                      got, unread, unmarked, failed>>
      BY <2>2, Zenon DEF vars, queues, server, chat, feed, history
    <3>2. SessionsShape'
      BY <3>1, Zenon DEF SessionsInv, SessionsShape, SessionsTypes, EventsOnce, WorkerHasSession
    <3>3. ASSUME NEW l \in Links PROVE BanAhead(l)' /\ WhisperAhead(l)' /\ CloseAhead(l)'
      BY <3>1, Zenon
         DEF SessionsInv, BanAhead, WhisperAhead, CloseAhead, CloseHandled, InHand, Unsent
    <3>4. ASSUME NEW l \in Links, NEW w \in Whispers PROVE TwoAtMost(l, w)'
      BY <3>1, Zenon DEF SessionsInv, TwoAtMost, EventLeft, BacklogLeft, InHand
    <3> QED BY <3>1, <3>2, <3>3, <3>4, Zenon DEF SessionsInv, FailureTypes
  <2> QED BY <2>1, <2>2, Zenon
<1> QED BY <1>1, <1>2, PTL DEF Spec

\* A link that is down and whose callbacks were handled has no welcomed session,
\* even when its close overtook them (enqueue, closed, sessionFor).
THEOREM NeverGhosts == Spec => []NoGhosts
<1>1. SessionsInv => NoGhosts
  <2> SUFFICES ASSUME SessionsInv, NEW l \in Links, link[l] = "down", jobs[l] = <<>>, late[l] = {}
               PROVE  sess[l] = None \/ ~sess[l].welcomed
    BY Zenon DEF NoGhosts
  <2>1. ~CloseQueued(jobs[l])
    <3>1. DOMAIN jobs[l] = {}
      OBVIOUS
    <3> QED BY <3>1, Zenon DEF CloseQueued
  <2> QED BY <2>1, Zenon DEF SessionsInv, CloseAhead, CloseHandled
<1> QED BY <1>1, SessionsInvariant, PTL

\* No whisper falls between the backlog and the events (sendMissedWhispers, deliver):
\* the only ones a welcomed link still lacks, once its worker is idle, are on their way,
\* or were dropped, could not be read, or were sent and could not be marked.
THEOREM WhisperNeverMissed == Spec => []NoWhisperMissed
<1>1. SessionsInv => NoWhisperMissed
  <2> SUFFICES ASSUME SessionsInv, NEW l \in Links, sess[l] # None, sess[l].welcomed, worker[l].pc = "idle"
               PROVE  Unsent \subseteq {events[k] : k \in DOMAIN events} \cup {fanout} \cup dropped
                                         \cup unread[l] \cup unmarked
    BY Zenon DEF NoWhisperMissed
  <2> QED BY DEF SessionsInv, WhisperAhead, InHand, Range
<1> QED BY <1>1, SessionsInvariant, PTL

\* However many HELLOs a client says, a link gets a whisper at most twice, and once
\* more for each time its worker sent it and failed to mark it (deliver,
\* sendMissedWhispers).
THEOREM AlwaysTwoAtMost == Spec => []AtMostTwoCopies
<1>1. SessionsInv => AtMostTwoCopies
  <2> SUFFICES ASSUME SessionsInv, NEW l \in Links, NEW w \in Whispers PROVE got[l][w] <= 2 + failed[l][w]
    BY DEF AtMostTwoCopies
  <2>1. SessionsTypes /\ TwoAtMost(l, w)
    BY Zenon DEF SessionsInv, SessionsShape
  <2>2. /\ got[l][w] \in Nat /\ InQueue(sess[l], w) \in Nat /\ failed[l][w] \in Nat
        /\ EventLeft(w) \in {0, 1} /\ BacklogLeft(l, w) \in {0, 1}
    BY <2>1, QueueType, Zenon DEF SessionsInv, SessionsTypes, FailureTypes, EventLeft, BacklogLeft
  <2> HIDE DEF InQueue, EventLeft, BacklogLeft
  <2> QED BY <2>1, <2>2 DEF TwoAtMost
<1> QED BY <1>1, SessionsInvariant, PTL

\* Once the fan-out has handled a ban, the only sessions of the person's left open
\* are those whose worker is about to ask the hub (identified, hello, deliver).
THEOREM BannedAlwaysClosed == Spec => []BannedIsClosed
<1>1. SessionsInv => BannedIsClosed
  <2> SUFFICES ASSUME SessionsInv, banned, \A k \in DOMAIN events : events[k] # "ban", "ban" \notin dropped,
                      NEW l \in SessionsOf, sess[l].state = "open"
               PROVE  worker[l].pc = "check"
    BY Zenon DEF BannedIsClosed
  <2>1. "ban" \notin Range(events)
    BY DEF Range
  <2> QED BY <2>1 DEF SessionsInv, BanAhead, SessionsOf
<1> QED BY <1>1, SessionsInvariant, PTL
=============================================================================
