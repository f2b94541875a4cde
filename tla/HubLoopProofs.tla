--------------------------- MODULE HubLoopProofs ---------------------------
(***************************************************************************)
(* For any number of callers and subscriptions and any capacity of the     *)
(* channels: what update returns is true, the hub's memory follows its     *)
(* store, and every event reaches every subscription or is counted.  And   *)
(* for any messages and sizes of the group's inbox and seenSet: no copy    *)
(* puts a deleted message back, commands run once, what counts as seen was *)
(* dealt with, and the budget of posts is kept.  And for a room with any   *)
(* identities and links: whoever is banned from it is out, and when it is  *)
(* gone no right in it is left.                                            *)
(*                                                                         *)
(* The invariant says, for each caller, where its job can be: not yet      *)
(* handed over, in reqs, in the loop's hand, or finished; never two of     *)
(* them.  Whether it has committed, has been applied and published, and    *)
(* what the caller may have been told follow from that place.  The inbox   *)
(* needs that its seenSet repeats nothing and holds the message in hand,   *)
(* and that posts made and tokens left together stay within the budget.    *)
(***************************************************************************)
EXTENDS HubLoop, Inbox, Rooms, SequenceTheorems, TLAPS

Busy == {"transaction", "after", "publish", "finish"}

NoRepeats(s) == \A m, n \in DOMAIN s : s[m] = s[n] => m = n

\* A job is in one place.
Placed(c) ==
    /\ pc[c] \in {"idle", "sending"} => c \notin Range(reqs) /\ c # current /\ c \notin finished
    /\ c \in Range(reqs) => c # current /\ c \notin finished
    /\ c = current => c \notin finished

\* What has become of it there.
Progress(c) ==
    /\ c = current /\ loop \in {"after", "publish"} => err[c] = "nil"
    /\ c \in Range(committed) <=>
           \/ c \in finished /\ err[c] = "nil"
           \/ c = current /\ loop \in {"after", "publish", "finish"} /\ err[c] = "nil"
    /\ c \in applied <=> c \in Range(committed) /\ ~(c = current /\ loop = "after")
    /\ c \in published <=> c \in Range(committed) /\ ~(c = current /\ loop \in {"after", "publish"})

\* What its caller has been told.
Told(c) ==
    /\ pc[c] # "returned" => result[c] = "none"
    /\ result[c] \in {"nil", "error"} => c \in finished /\ result[c] = err[c]
    /\ result[c] \in {"ErrClosed", "ctx.Err"} =>
           c # current /\ c \notin finished /\ (c \in Range(reqs) => done)

LoopInv ==
    /\ TypeOK
    /\ NoRepeats(reqs)
    /\ current # NoCaller <=> loop \in Busy
    /\ done => loop = "exited"
    /\ \A c \in Callers : Placed(c) /\ Progress(c) /\ Told(c)
----------------------------------------------------------------------------
(* Sequences *)

\* What appending adds.
LEMMA RangeAppend ==
    ASSUME NEW S, NEW s \in Seq(S), NEW x \in S
    PROVE  Range(Append(s, x)) = Range(s) \cup {x}
<1> DEFINE t == Append(s, x)
<1>1. t \in Seq(S) /\ DOMAIN t = 1 .. Len(s) + 1 /\ DOMAIN s = 1 .. Len(s) /\ Len(s) \in Nat
  OBVIOUS
<1>2. \A k \in 1 .. Len(s) : t[k] = s[k]
  OBVIOUS
<1>3. t[Len(s) + 1] = x
  OBVIOUS
<1>4. ASSUME NEW y \in Range(t) PROVE y \in Range(s) \cup {x}
  <2>1. PICK k \in DOMAIN t : y = t[k]
    BY <1>4 DEF Range
  <2>2. k \in 1 .. Len(s) \/ k = Len(s) + 1
    BY <1>1, <2>1
  <2> QED BY <1>1, <1>2, <1>3, <2>1, <2>2 DEF Range
<1>5. ASSUME NEW y \in Range(s) \cup {x} PROVE y \in Range(t)
  <2>1. CASE y = x
    <3>1. Len(s) + 1 \in DOMAIN t
      BY <1>1
    <3> QED BY <1>3, <2>1, <3>1 DEF Range
  <2>2. CASE y \in Range(s)
    <3>1. PICK k \in DOMAIN s : y = s[k]
      BY <2>2 DEF Range
    <3>2. k \in DOMAIN t
      BY <1>1, <3>1
    <3> QED BY <1>1, <1>2, <3>1, <3>2 DEF Range
  <2> QED BY <1>5, <2>1, <2>2
<1> QED BY <1>4, <1>5

\* What taking the first one leaves.
LEMMA RangeTail ==
    ASSUME NEW S, NEW s \in Seq(S), s # <<>>, NoRepeats(s)
    PROVE  /\ Head(s) \in Range(s)
           /\ Range(Tail(s)) = Range(s) \ {Head(s)}
           /\ NoRepeats(Tail(s))
<1> DEFINE t == Tail(s)
<1>1. DOMAIN t = 1 .. Len(s) - 1 /\ DOMAIN s = 1 .. Len(s) /\ Len(s) \in Nat /\ Len(s) > 0
  OBVIOUS
<1>2. \A k \in DOMAIN t : t[k] = s[k + 1] /\ k + 1 \in DOMAIN s /\ k + 1 # 1
  OBVIOUS
<1>3. Head(s) = s[1] /\ 1 \in DOMAIN s
  BY <1>1
<1>4. ASSUME NEW y \in Range(t) PROVE y \in Range(s) /\ y # Head(s)
  <2>1. PICK k \in DOMAIN t : y = t[k]
    BY <1>4 DEF Range
  <2> QED BY <1>2, <1>3, <2>1 DEF Range, NoRepeats
<1>5. ASSUME NEW y \in Range(s), y # Head(s) PROVE y \in Range(t)
  <2>1. PICK k \in DOMAIN s : y = s[k]
    BY <1>5 DEF Range
  <2>2. k # 1
    BY <1>3, <1>5, <2>1
  <2>3. k - 1 \in DOMAIN t /\ (k - 1) + 1 = k
    BY <1>1, <2>1, <2>2
  <2> QED BY <1>2, <2>1, <2>3 DEF Range
<1>6. NoRepeats(t)
  <2> SUFFICES ASSUME NEW m \in DOMAIN t, NEW n \in DOMAIN t, t[m] = t[n] PROVE m = n
    BY DEF NoRepeats
  <2>1. m + 1 = n + 1
    BY <1>2 DEF NoRepeats
  <2> QED BY <1>1, <2>1
<1>7. Head(s) \in Range(s)
  BY <1>3 DEF Range
<1> QED BY <1>4, <1>5, <1>6, <1>7

\* Appending something new repeats nothing.
LEMMA NoRepeatsAppend ==
    ASSUME NEW S, NEW s \in Seq(S), NEW x \in S, NoRepeats(s), x \notin Range(s)
    PROVE  NoRepeats(Append(s, x))
<1> DEFINE t == Append(s, x)
<1>1. DOMAIN t = 1 .. Len(s) + 1 /\ DOMAIN s = 1 .. Len(s) /\ Len(s) \in Nat
  OBVIOUS
<1>2. \A k \in 1 .. Len(s) : t[k] = s[k]
  OBVIOUS
<1>3. t[Len(s) + 1] = x
  OBVIOUS
<1>4. \A k \in DOMAIN s : s[k] # x
  BY DEF Range
<1> SUFFICES ASSUME NEW m \in DOMAIN t, NEW n \in DOMAIN t, t[m] = t[n] PROVE m = n
  BY DEF NoRepeats
<1>5. CASE m \in 1 .. Len(s) /\ n \in 1 .. Len(s)
  BY <1>1, <1>2, <1>5 DEF NoRepeats
<1>6. CASE m = Len(s) + 1 \/ n = Len(s) + 1
  BY <1>1, <1>2, <1>3, <1>4, <1>6
<1> QED BY <1>1, <1>5, <1>6
----------------------------------------------------------------------------
(* Steps *)

\* At first nothing has been asked.
LEMMA InitLoop == Init => LoopInv
<1> SUFFICES ASSUME Init PROVE LoopInv
  OBVIOUS
<1> USE HubConstants
<1>1. TypeOK
  <2>1. <<>> \in Seq(Callers)
    OBVIOUS
  <2>2. /\ queue \in [Subs -> Seq(Callers)] /\ received \in [Subs -> Seq(Callers)]
        /\ reqs \in Seq(Callers) /\ committed \in Seq(Callers)
    BY <2>1 DEF Init
  <2>3. dropped \in [Subs -> SUBSET Callers]
    BY DEF Init
  <2> QED BY <2>2, <2>3, Zenon DEF Init, TypeOK, Results
<1>2. Range(reqs) = {} /\ Range(committed) = {}
  BY DEF Init, Range
<1>3. NoRepeats(reqs)
  <2>1. reqs = <<>> /\ committed = <<>> /\ loop = "maintain"
    BY DEF Init
  <2>2. DOMAIN reqs = {} /\ DOMAIN committed = {}
    BY <2>1
  <2> QED BY <2>1, <2>2 DEF NoRepeats
<1>4. \A c \in Callers : Placed(c) /\ Progress(c) /\ Told(c)
  BY <1>2 DEF Init, Placed, Progress, Told
<1> QED BY <1>1, <1>3, <1>4 DEF LoopInv, Init, Busy

\* A caller's own steps move nothing but its job.
LEMMA CallerLoop ==
    ASSUME LoopInv, NEW d \in Callers, Call(d) \/ Cancel(d) \/ Caller(d)
    PROVE  LoopInv'
<1> USE HubConstants
<1>0. TypeOK /\ \A c \in Callers : Placed(c) /\ Progress(c) /\ Told(c)
  BY DEF LoopInv
<1>1. CASE Call(d)
  <2>1. TypeOK'
    BY <1>0, <1>1, Zenon DEF Call, TypeOK, adapters
  <2>2. \A c \in Callers : Placed(c)' /\ Progress(c)' /\ Told(c)'
    BY <1>0, <1>1 DEF Call, TypeOK, adapters, Placed, Progress, Told
  <2> QED BY <1>1, <2>1, <2>2 DEF Call, LoopInv
<1>2. CASE Cancel(d)
  <2>1. TypeOK'
    BY <1>0, <1>2, Zenon DEF Cancel, TypeOK, adapters
  <2>2. \A c \in Callers : Placed(c)' /\ Progress(c)' /\ Told(c)'
    BY <1>0, <1>2 DEF Cancel, Placed, Progress, Told
  <2> QED BY <1>2, <2>1, <2>2, Zenon DEF Cancel, LoopInv
<1>3. CASE SendJob(d)
  <2>1. TypeOK'
    BY <1>0, <1>3 DEF SendJob, TypeOK, adapters
  <2>2. Range(reqs') = Range(reqs) \cup {d} /\ d \notin Range(reqs)
    BY <1>0, <1>3, RangeAppend, Zenon DEF SendJob, TypeOK, Placed
  <2>3. NoRepeats(reqs')
    BY <1>0, <1>3, <2>2, NoRepeatsAppend, Zenon DEF SendJob, TypeOK, LoopInv
  <2>4. \A c \in Callers : Placed(c)' /\ Progress(c)' /\ Told(c)'
    BY <1>0, <1>3, <2>2, ZenonT(30) DEF SendJob, TypeOK, Placed, Progress, Told
  <2> QED BY <1>3, <2>1, <2>3, <2>4, Zenon DEF SendJob, LoopInv
<1>4. ASSUME NEW r \in Results, pc[d] \in {"sending", "waiting"}, Return(d, r),
             r \in {"nil", "error"} => d \in finished /\ r = err[d],
             r \in {"ErrClosed", "ctx.Err"} =>
                 d # current /\ d \notin finished /\ (d \in Range(reqs) => done)
      PROVE  LoopInv'
  <2>1. TypeOK'
    BY <1>0, <1>4, Zenon DEF Return, TypeOK, adapters
  <2>2. \A c \in Callers : Placed(c)' /\ Progress(c)'
    BY <1>0, <1>4, Zenon DEF Return, TypeOK, Placed, Progress
  <2>3. \A c \in Callers : Told(c)'
    BY <1>0, <1>4, Zenon DEF Return, TypeOK, Told
  <2> QED BY <1>4, <2>1, <2>2, <2>3, Zenon DEF Return, LoopInv
<1>5. CASE SendClosed(d)
  BY <1>0, <1>4, <1>5, Zenon DEF SendClosed, Placed, Results
<1>6. CASE SendCancelled(d)
  BY <1>0, <1>4, <1>6 DEF SendCancelled, Placed, Results
<1>7. err[d] \in {"nil", "error"}
  BY <1>0, ZenonT(30) DEF TypeOK
<1>8. CASE WaitFinished(d)
  BY <1>0, <1>4, <1>7, <1>8 DEF WaitFinished, Results
<1>9. CASE WaitClosed(d)
  <2>1. d # current
    BY <1>0, <1>9, Zenon DEF LoopInv, WaitClosed, Busy
  <2>2. CASE d \in finished
    BY <1>4, <1>7, <1>9, <2>2, Zenon DEF WaitClosed, Results
  <2>3. CASE d \notin finished
    BY <1>4, <1>9, <2>1, <2>3 DEF WaitClosed, Results
  <2> QED BY <2>2, <2>3, Zenon
<1> QED BY <1>1, <1>2, <1>3, <1>5, <1>6, <1>8, <1>9 DEF Caller

\* The steps of a request.
LEMMA WorkLoop == ASSUME LoopInv, Work PROVE LoopInv'
<1> USE HubConstants
<1>0. TypeOK /\ \A c \in Callers : Placed(c) /\ Progress(c) /\ Told(c)
  BY DEF LoopInv
<1>1. CASE TakeJob
  <2> DEFINE h == Head(reqs)
  <2>1. h \in Range(reqs) /\ Range(reqs') = Range(reqs) \ {h} /\ NoRepeats(reqs')
    BY <1>0, <1>1, RangeTail, Zenon DEF TakeJob, TypeOK, LoopInv
  <2>2. h \in Callers /\ TypeOK'
    BY <1>0, <1>1 DEF TakeJob, TypeOK, callers, adapters
  <2>3. current = NoCaller /\ ~done
    BY <1>1 DEF TakeJob, LoopInv, Busy
  <2>4. \A c \in Callers : Placed(c)' /\ Progress(c)' /\ Told(c)'
    <3> SUFFICES ASSUME NEW c \in Callers PROVE Placed(c)' /\ Progress(c)' /\ Told(c)'
      OBVIOUS
    <3>1. Placed(c)'
      BY <1>0, <1>1, <2>1, <2>2, Zenon DEF TakeJob, callers, Placed
    <3>2. Progress(c)'
      BY <1>0, <1>1, <2>1, <2>2, <2>3, Zenon DEF TakeJob, callers, Placed, Progress
    <3>3. Told(c)'
      BY <1>0, <1>1, <2>1, <2>2, <2>3, Zenon DEF TakeJob, callers, Told
    <3> QED BY <3>1, <3>2, <3>3
  <2> QED BY <1>1, <2>1, <2>2, <2>4, Zenon DEF TakeJob, LoopInv, Busy
<1>2. CASE Commit
  <2>1. current \in Callers /\ ~done
    BY <1>0, <1>2, Zenon DEF Commit, LoopInv, TypeOK, Busy
  <2>2. TypeOK'
    BY <1>0, <1>2, <2>1 DEF Commit, TypeOK, adapters
  <2>3. current \notin Range(committed)
    BY <1>0, <1>2, <2>1, Zenon DEF Commit, Placed, Progress
  <2>4. Range(committed') = Range(committed) \cup {current}
    BY <1>0, <1>2, <2>1, RangeAppend DEF Commit, TypeOK
  <2>6. \A c \in Callers : Placed(c)' /\ Progress(c)' /\ Told(c)'
    <3> SUFFICES ASSUME NEW c \in Callers PROVE Placed(c)' /\ Progress(c)' /\ Told(c)'
      OBVIOUS
    <3>1. Placed(c)'
      BY <1>0, <1>2, Zenon DEF Commit, Placed
    <3>2. Progress(c)'
      BY <1>0, <1>2, <2>1, <2>3, <2>4, Zenon DEF Commit, TypeOK, Placed, Progress
    <3>3. Told(c)'
      BY <1>0, <1>2, <2>1, Zenon DEF Commit, TypeOK, Placed, Told
    <3> QED BY <3>1, <3>2, <3>3
  <2> QED BY <1>2, <2>1, <2>2, <2>6, Zenon DEF Commit, LoopInv, Busy
<1>3. CASE Rollback
  <2>1. current \in Callers /\ ~done
    BY <1>0, <1>3, Zenon DEF Rollback, LoopInv, TypeOK, Busy
  <2>2. TypeOK'
    BY <1>0, <1>3, <2>1, Zenon DEF Rollback, TypeOK, adapters
  <2>3. \A c \in Callers : Placed(c)' /\ Progress(c)' /\ Told(c)'
    <3> SUFFICES ASSUME NEW c \in Callers PROVE Placed(c)' /\ Progress(c)' /\ Told(c)'
      OBVIOUS
    <3>1. Placed(c)'
      BY <1>0, <1>3, Zenon DEF Rollback, Placed
    <3>2. Progress(c)'
      BY <1>0, <1>3, <2>1, Zenon DEF Rollback, TypeOK, Placed, Progress
    <3>3. Told(c)'
      BY <1>0, <1>3, <2>1, Zenon DEF Rollback, TypeOK, Placed, Told
    <3> QED BY <3>1, <3>2, <3>3
  <2> QED BY <1>3, <2>1, <2>2, <2>3, Zenon DEF Rollback, LoopInv, Busy
<1>4. CASE After
  <2>1. current \in Callers
    BY <1>0, <1>4, Zenon DEF After, LoopInv, TypeOK, Busy
  <2>2. TypeOK'
    BY <1>0, <1>4, <2>1, Zenon DEF After, TypeOK, callers, adapters
  <2>3. \A c \in Callers : Placed(c)' /\ Progress(c)' /\ Told(c)'
    BY <1>0, <1>4, <2>1, Zenon DEF After, callers, Placed, Progress, Told
  <2> QED BY <1>4, <2>2, <2>3, Zenon DEF After, LoopInv, Busy
<1>5. CASE Publish
  <2>1. current \in Callers
    BY <1>0, <1>5, Zenon DEF Publish, LoopInv, TypeOK, Busy
  <2>2. queue' \in [Subs -> Seq(Callers)] /\ dropped' \in [Subs -> SUBSET Callers]
    BY <1>0, <1>5, <2>1 DEF Publish, TypeOK
  <2>3. TypeOK'
    BY <1>0, <1>5, <2>1, <2>2, Zenon DEF Publish, TypeOK, callers
  <2>4. \A c \in Callers : Placed(c)' /\ Progress(c)' /\ Told(c)'
    BY <1>0, <1>5, <2>1, Zenon DEF Publish, callers, Placed, Progress, Told
  <2> QED BY <1>5, <2>3, <2>4, Zenon DEF Publish, LoopInv, Busy
<1>6. CASE Finish
  <2>1. current \in Callers
    BY <1>0, <1>6, Zenon DEF Finish, LoopInv, TypeOK, Busy
  <2>2. TypeOK'
    BY <1>0, <1>6, <2>1, Zenon DEF Finish, TypeOK, callers, adapters
  <2>3. \A c \in Callers : Placed(c)' /\ Progress(c)' /\ Told(c)'
    <3> SUFFICES ASSUME NEW c \in Callers PROVE Placed(c)' /\ Progress(c)' /\ Told(c)'
      OBVIOUS
    <3>1. Placed(c)'
      BY <1>0, <1>6, <2>1, Zenon DEF Finish, callers, Placed
    <3>2. Progress(c)'
      BY <1>0, <1>6, <2>1, Zenon DEF Finish, callers, Placed, Progress
    <3>3. Told(c)'
      BY <1>0, <1>6, <2>1, Zenon DEF Finish, callers, Placed, Told
    <3> QED BY <3>1, <3>2, <3>3
  <2> QED BY <1>6, <2>2, <2>3, Zenon DEF Finish, LoopInv, Busy
<1>7. CASE Maintain
  <2>1. TypeOK'
    BY <1>0, <1>7 DEF Maintain, TypeOK, callers, adapters
  <2>2. \A c \in Callers : Placed(c)' /\ Progress(c)' /\ Told(c)'
    BY <1>0, <1>7, Zenon DEF Maintain, callers, Placed, Progress, Told
  <2> QED BY <1>7, <2>1, <2>2, Zenon DEF Maintain, LoopInv, Busy
<1> QED BY <1>1, <1>2, <1>3, <1>4, <1>5, <1>6, <1>7, Zenon DEF Work

\* The end of the loop, and what goes on around it.
LEMMA AroundLoop ==
    ASSUME LoopInv,
           \/ Tick \/ Stop \/ CloseSubs \/ CloseDone \/ Shutdown
           \/ \E s \in Subs : Receive(s)
           \/ UNCHANGED vars
    PROVE  LoopInv'
<1> USE HubConstants
<1>0. TypeOK /\ \A c \in Callers : Placed(c) /\ Progress(c) /\ Told(c)
  BY Zenon DEF LoopInv
<1>1. CASE Tick
  <2>1. TypeOK'
    BY <1>0, <1>1, Zenon DEF Tick, TypeOK, callers, adapters
  <2>2. \A c \in Callers : Placed(c)' /\ Progress(c)' /\ Told(c)'
    BY <1>0, <1>1, Zenon DEF Tick, callers, Placed, Progress, Told
  <2> QED BY <1>1, <2>1, <2>2, Zenon DEF Tick, LoopInv, Busy
<1>2. CASE Stop
  <2>1. TypeOK'
    BY <1>0, <1>2 DEF Stop, TypeOK, callers, adapters
  <2>2. \A c \in Callers : Placed(c)' /\ Progress(c)' /\ Told(c)'
    BY <1>0, <1>2, Zenon DEF Stop, callers, Placed, Progress, Told
  <2> QED BY <1>2, <2>1, <2>2, Zenon DEF Stop, LoopInv, Busy
<1>3. CASE CloseSubs
  <2>1. TypeOK'
    BY <1>0, <1>3, Zenon DEF CloseSubs, TypeOK, callers, adapters
  <2>2. \A c \in Callers : Placed(c)' /\ Progress(c)' /\ Told(c)'
    BY <1>0, <1>3, Zenon DEF CloseSubs, callers, Placed, Progress, Told
  <2> QED BY <1>3, <2>1, <2>2, Zenon DEF CloseSubs, LoopInv, Busy
<1>4. CASE CloseDone
  <2>1. TypeOK'
    BY <1>0, <1>4, Zenon DEF CloseDone, TypeOK, callers, adapters
  <2>2. \A c \in Callers : Placed(c)' /\ Progress(c)' /\ Told(c)'
    BY <1>0, <1>4, Zenon DEF CloseDone, callers, Placed, Progress, Told
  <2> QED BY <1>4, <2>1, <2>2, Zenon DEF CloseDone, LoopInv, Busy
<1>5. CASE Shutdown
  <2>1. TypeOK'
    BY <1>0, <1>5, Zenon DEF Shutdown, TypeOK, callers, adapters
  <2>2. \A c \in Callers : Placed(c)' /\ Progress(c)' /\ Told(c)'
    BY <1>0, <1>5, Zenon DEF Shutdown, callers, Placed, Progress, Told
  <2> QED BY <1>5, <2>1, <2>2, Zenon DEF Shutdown, LoopInv
<1>6. ASSUME NEW s \in Subs, Receive(s) PROVE LoopInv'
  <2>1. queue[s] \in Seq(Callers) /\ received[s] \in Seq(Callers) /\ queue[s] # <<>>
    BY <1>0, <1>6, Zenon DEF Receive, TypeOK
  <2>2. Head(queue[s]) \in Callers /\ Tail(queue[s]) \in Seq(Callers)
    BY <2>1
  <2>3. queue' \in [Subs -> Seq(Callers)] /\ received' \in [Subs -> Seq(Callers)]
    BY <1>0, <1>6, <2>1, <2>2 DEF Receive, TypeOK
  <2>4. TypeOK'
    BY <1>0, <1>6, <2>3, Zenon DEF Receive, TypeOK, callers
  <2>5. \A c \in Callers : Placed(c)' /\ Progress(c)' /\ Told(c)'
    BY <1>0, <1>6, Zenon DEF Receive, callers, Placed, Progress, Told
  <2> QED BY <1>6, <2>4, <2>5, Zenon DEF Receive, LoopInv
<1>7. CASE UNCHANGED vars
  <2>1. TypeOK'
    BY <1>0, <1>7, Zenon DEF vars, TypeOK
  <2>2. \A c \in Callers : Placed(c)' /\ Progress(c)' /\ Told(c)'
    BY <1>0, <1>7, Zenon DEF vars, Placed, Progress, Told
  <2> QED BY <1>7, <2>1, <2>2, Zenon DEF vars, LoopInv
<1> QED BY <1>1, <1>2, <1>3, <1>4, <1>5, <1>6, <1>7

\* The invariant holds throughout.
THEOREM LoopInvariant == Spec => []LoopInv
<1>1. LoopInv /\ [Next]_vars => LoopInv'
  BY CallerLoop, WorkLoop, AroundLoop DEF Next
<1> QED BY <1>1, InitLoop, PTL DEF Spec

\* What update tells its caller is true (update and do in hub.go), for any
\* number of callers and any capacity of reqs.
THEOREM ResultIsAlwaysTrue == Spec => []ResultIsTrue
<1>1. LoopInv => ResultIsTrue
  <2> SUFFICES ASSUME LoopInv, NEW c \in Callers
               PROVE  /\ result[c] = "nil" => c \in Range(committed) /\ c \in applied /\ c \in published
                      /\ result[c] \in {"error", "ErrClosed", "ctx.Err"} => c \notin Range(committed)
    BY DEF ResultIsTrue
  <2> QED BY Zenon DEF LoopInv, Placed, Progress, Told
<1> QED BY <1>1, LoopInvariant, PTL

\* The hub's memory and its events follow the store (update in hub.go).
THEOREM MemoryAlwaysFollows == Spec => []MemoryFollowsStore
<1>1. LoopInv => MemoryFollowsStore
  <2> SUFFICES ASSUME LoopInv PROVE MemoryFollowsStore
    BY Zenon
  <2>1. Range(committed) \subseteq Callers /\ applied \subseteq Callers /\ published \subseteq Callers
    BY DEF LoopInv, TypeOK, Range
  <2>2. \A c \in Callers : Progress(c)
    BY Zenon DEF LoopInv
  <2>3. applied \subseteq Range(committed) /\ published \subseteq applied
    BY <2>1, <2>2, Zenon DEF Progress
  <2>4. ASSUME current = NoCaller PROVE published = Range(committed)
    BY <2>1, <2>2, <2>4, HubConstants, Zenon DEF Progress
  <2> QED BY <2>3, <2>4 DEF MemoryFollowsStore
<1> QED BY <1>1, LoopInvariant, PTL
----------------------------------------------------------------------------
(* Events.  An adapter's log is what it has received and what waits in its *)
(* channel; the request being published is the last that committed.        *)

Log(s) == received[s] \o queue[s]

EventsInv ==
    /\ EventsAccounted
    /\ loop \in {"after", "publish"} => committed # <<>> /\ committed[Len(committed)] = current

\* Taking the head of one sequence to the end of another moves nothing.
LEMMA ConcatMove ==
    ASSUME NEW S, NEW s \in Seq(S), NEW t \in Seq(S), t # <<>>
    PROVE  Append(s, Head(t)) \o Tail(t) = s \o t
<1> DEFINE a == Append(s, Head(t))
<1>1. Head(t) \in S /\ Tail(t) \in Seq(S) /\ Len(Tail(t)) = Len(t) - 1
      /\ Head(t) = t[1] /\ \A i \in 1 .. Len(Tail(t)) : Tail(t)[i] = t[i + 1]
  BY HeadTailProperties
<1>2. a \in Seq(S) /\ Len(a) = Len(s) + 1 /\ a[Len(s) + 1] = Head(t)
      /\ \A i \in 1 .. Len(s) : a[i] = s[i]
  BY <1>1, AppendProperties
<1>3. Len(s) \in Nat /\ Len(t) \in Nat /\ Len(t) > 0
  BY LenProperties, EmptySeq
<1> HIDE DEF a
<1> DEFINE u == a \o Tail(t)
           v == s \o t
<1>4. u \in Seq(S) /\ Len(u) = Len(s) + Len(t)
      /\ \A i \in 1 .. Len(s) + Len(t) :
            u[i] = IF i <= Len(s) + 1 THEN a[i] ELSE Tail(t)[i - (Len(s) + 1)]
  <2>1. u \in Seq(S) /\ Len(u) = Len(a) + Len(Tail(t))
        /\ \A i \in 1 .. Len(a) + Len(Tail(t)) :
              u[i] = IF i <= Len(a) THEN a[i] ELSE Tail(t)[i - Len(a)]
    BY <1>1, <1>2, ConcatProperties, Zenon
  <2>2. Len(a) + Len(Tail(t)) = Len(s) + Len(t)
    BY <1>1, <1>2, <1>3
  <2> HIDE DEF u
  <2> QED BY <1>2, <2>1, <2>2, Zenon
<1>5. v \in Seq(S) /\ Len(v) = Len(s) + Len(t)
      /\ \A i \in 1 .. Len(s) + Len(t) : v[i] = IF i <= Len(s) THEN s[i] ELSE t[i - Len(s)]
  BY ConcatProperties
<1> HIDE DEF u, v
<1>6. ASSUME NEW i \in 1 .. Len(s) + Len(t) PROVE u[i] = v[i]
  <2>1. CASE i <= Len(s)
    BY <1>2, <1>3, <1>4, <1>5, <2>1
  <2>2. CASE i = Len(s) + 1
    <3>1. i - Len(s) = 1
      BY <1>3, <2>2
    <3> QED BY <1>1, <1>2, <1>3, <1>4, <1>5, <2>2, <3>1
  <2>3. CASE i > Len(s) + 1
    <3> DEFINE k == i - (Len(s) + 1)
    <3>1. k \in 1 .. Len(Tail(t)) /\ k + 1 = i - Len(s)
      BY <1>1, <1>3, <2>3
    <3>2. Tail(t)[k] = t[k + 1]
      BY <1>1, <3>1
    <3>3. u[i] = Tail(t)[k]
      BY <1>3, <1>4, <2>3
    <3>4. v[i] = t[k + 1]
      BY <1>3, <1>5, <2>3, <3>1
    <3> QED BY <3>2, <3>3, <3>4, Zenon
  <2> QED BY <1>3, <2>1, <2>2, <2>3
<1>7. u = v
  BY <1>3, <1>4, <1>5, <1>6, SeqEqual, Zenon
<1> QED BY <1>7 DEF u, v, a

\* Appending to the second of two sequences appends to the whole.
LEMMA ConcatAppend ==
    ASSUME NEW S, NEW s \in Seq(S), NEW t \in Seq(S), NEW x \in S
    PROVE  s \o Append(t, x) = Append(s \o t, x)
<1>1. <<x>> \in Seq(S) /\ s \o t \in Seq(S)
  BY ConcatProperties
<1>2. Append(t, x) = t \o <<x>> /\ Append(s \o t, x) = (s \o t) \o <<x>>
  BY <1>1, AppendIsConcat, Zenon
<1> QED BY <1>1, <1>2, ConcatAssociative

\* So a subscriber's log grows at its end with its queue.
LEMMA LogAppend == \A a, b \in Seq(Callers), x \in Callers : a \o Append(b, x) = Append(a \o b, x)
<1>1. ASSUME NEW a \in Seq(Callers), NEW b \in Seq(Callers), NEW x \in Callers
      PROVE  a \o Append(b, x) = Append(a \o b, x)
  BY ConcatAppend
<1> QED BY <1>1, Zenon

\* A log stays in order when more requests commit.
LEMMA OrderKept ==
    ASSUME NEW S, NEW all \in Seq(S), NEW x \in S, NEW log, InOrderOf(log, all)
    PROVE  InOrderOf(log, Append(all, x))
<1> DEFINE new == Append(all, x)
<1>1. DOMAIN all \subseteq DOMAIN new /\ \A i \in DOMAIN all : new[i] = all[i]
  BY AppendProperties, LenProperties
<1> QED BY <1>1 DEF InOrderOf

\* The last of all may follow any others.
LEMMA OrderGrows ==
    ASSUME NEW S, NEW all \in Seq(S), NEW log \in Seq(S), InOrderOf(log, all),
           all # <<>>, Range(log) \subseteq Range(all) \ {all[Len(all)]}
    PROVE  InOrderOf(Append(log, all[Len(all)]), all)
<1> DEFINE c == all[Len(all)]
           new == Append(log, c)
<1>1. DOMAIN all = 1 .. Len(all) /\ Len(all) \in Nat /\ Len(all) > 0
  BY LenProperties, EmptySeq
<1>2. c \in S
  BY <1>1, ElementOfSeq
<1>3. DOMAIN log = 1 .. Len(log) /\ DOMAIN new = 1 .. Len(log) + 1 /\ Len(log) \in Nat
      /\ new[Len(log) + 1] = c /\ \A i \in 1 .. Len(log) : new[i] = log[i]
  BY <1>2, AppendProperties, LenProperties
<1> SUFFICES ASSUME NEW m \in DOMAIN new, NEW n \in DOMAIN new, m < n
             PROVE  \E i, j \in DOMAIN all : i < j /\ all[i] = new[m] /\ all[j] = new[n]
  BY Zenon DEF InOrderOf
<1>4. CASE n \in 1 .. Len(log)
  <2>1. m \in DOMAIN log /\ n \in DOMAIN log
    BY <1>3, <1>4
  <2>2. new[m] = log[m] /\ new[n] = log[n]
    BY <1>3, <2>1, Zenon
  <2> QED BY <2>1, <2>2 DEF InOrderOf
<1>5. CASE n = Len(log) + 1
  <2>1. m \in DOMAIN log
    BY <1>3, <1>5
  <2>2. new[m] = log[m] /\ new[n] = c
    BY <1>3, <1>5, <2>1, Zenon
  <2>3. log[m] \in Range(all) /\ log[m] # c
    BY <2>1, Zenon DEF Range
  <2>4. PICK i \in DOMAIN all : all[i] = log[m]
    BY <2>3 DEF Range
  <2>5. i < Len(all) /\ Len(all) \in DOMAIN all
    BY <1>1, <2>3, <2>4
  <2> QED BY <2>2, <2>4, <2>5, Zenon
<1> QED BY <1>3, <1>4, <1>5

\* Steps that are not about events leave the logs alone.
LEMMA EventsFrame ==
    ASSUME EventsInv, UNCHANGED <<committed, published, queue, received, dropped>>,
           loop' \in {"after", "publish"} => loop \in {"after", "publish"} /\ current' = current
    PROVE  EventsInv'
<1>1. EventsAccounted'
  BY DEF EventsInv, EventsAccounted
<1> QED BY <1>1 DEF EventsInv

\* Every step keeps the account.
LEMMA EventsStep == LoopInv /\ EventsInv /\ [Next]_vars => EventsInv'
<1> SUFFICES ASSUME LoopInv, EventsInv, [Next]_vars PROVE EventsInv'
  OBVIOUS
<1>0. TypeOK /\ \A c \in Callers : Placed(c) /\ Progress(c)
  BY Zenon DEF LoopInv
<1>a. committed \in Seq(Callers) /\ \A s \in Subs :
          received[s] \in Seq(Callers) /\ queue[s] \in Seq(Callers) /\ Log(s) \in Seq(Callers)
  BY <1>0, ConcatProperties, Zenon DEF TypeOK, Log
<1>b. \A s \in Subs : dropped[s] \subseteq published /\ Range(Log(s)) = published \ dropped[s]
                      /\ InOrderOf(Log(s), committed)
  BY DEF EventsInv, EventsAccounted, Log
<1>1. ASSUME NEW d \in Callers, Call(d) \/ Cancel(d) \/ Caller(d) PROVE EventsInv'
  <2>1. UNCHANGED <<committed, published, queue, received, dropped, loop, current>>
    BY <1>1, Zenon DEF Call, Cancel, Caller, SendJob, SendClosed, SendCancelled, WaitFinished,
       WaitClosed, Return, adapters
  <2> QED BY <2>1, EventsFrame, Zenon
<1>2. CASE TakeJob \/ Rollback \/ After \/ Finish \/ Maintain \/ Tick \/ Stop \/ CloseSubs
           \/ CloseDone \/ Shutdown \/ UNCHANGED vars
  <2>1. UNCHANGED <<committed, published, queue, received, dropped>>
    BY <1>2, Zenon
       DEF TakeJob, Rollback, After, Finish, Maintain, Tick, Stop, CloseSubs, CloseDone,
       Shutdown, vars, callers, adapters
  <2>2. loop' \in {"after", "publish"} => loop \in {"after", "publish"} /\ current' = current
    BY <1>2, Zenon DEF TakeJob, Rollback, After, Finish, Maintain, Tick, Stop, CloseSubs, CloseDone,
       Shutdown, vars
  <2> QED BY <2>1, <2>2, EventsFrame, Zenon
<1>3. CASE Commit
  <2>1. current \in Callers
    BY <1>0, <1>3, Zenon DEF Commit, LoopInv, TypeOK, Busy
  <2>2. committed' = Append(committed, current) /\ current' = current
        /\ UNCHANGED <<published, queue, received, dropped>>
    BY <1>3, Zenon DEF Commit, adapters
  <2>3. committed' # <<>> /\ committed'[Len(committed')] = current
    BY <1>a, <2>1, <2>2, AppendProperties
  <2>4. \A s \in Subs : InOrderOf(Log(s), committed')
    BY <1>a, <1>b, <2>1, <2>2, OrderKept, Zenon
  <2>5. EventsAccounted'
    BY <1>b, <2>2, <2>4, Zenon DEF EventsAccounted, Log
  <2> QED BY <2>2, <2>3, <2>5, Zenon DEF EventsInv
<1>4. CASE Publish
  <2>1. current \in Callers /\ current \notin published /\ current \in Range(committed)
    <3>1. current \in Callers
      BY <1>0, <1>4, Zenon DEF Publish, LoopInv, TypeOK, Busy
    <3> QED BY <1>0, <1>4, <3>1, Zenon DEF Publish, Placed, Progress
  <2>2. published \subseteq Range(committed)
    BY <1>0, Zenon DEF TypeOK, Progress
  <2>3. committed # <<>> /\ committed[Len(committed)] = current
    BY <1>4, Zenon DEF Publish, EventsInv
  <2>4. UNCHANGED <<committed, received>> /\ published' = published \cup {current}
        /\ loop' = "finish"
    BY <1>4, Zenon DEF Publish
  <2>5. ASSUME NEW s \in Subs
        PROVE  /\ dropped'[s] \subseteq published'
               /\ Range(received'[s] \o queue'[s]) = published' \ dropped'[s]
               /\ InOrderOf(received'[s] \o queue'[s], committed')
    <3>1. CASE Len(queue[s]) < SubBuf
      <4>1. queue'[s] = Append(queue[s], current) /\ dropped'[s] = dropped[s]
        BY <1>4, <3>1, Zenon DEF Publish
      <4>2. received'[s] \o queue'[s] = Append(Log(s), current)
        <5>1. received[s] \o Append(queue[s], current) = Append(received[s] \o queue[s], current)
          <6>1. received[s] \in Seq(Callers) /\ queue[s] \in Seq(Callers) /\ current \in Callers
            BY <1>a, <2>1, Zenon
          <6> QED BY <6>1, LogAppend, Zenon
        <5> QED BY <2>4, <4>1, <5>1 DEF Log
      <4>3. Range(Append(Log(s), current)) = Range(Log(s)) \cup {current}
        BY <1>a, <2>1, RangeAppend
      <4>4. InOrderOf(Append(Log(s), current), committed)
        BY <1>a, <1>b, <2>1, <2>2, <2>3, OrderGrows, Zenon
      <4> QED BY <1>b, <2>1, <2>4, <4>1, <4>2, <4>3, <4>4, Zenon
    <3>2. CASE ~(Len(queue[s]) < SubBuf)
      <4>1. queue'[s] = queue[s] /\ dropped'[s] = dropped[s] \cup {current}
        BY <1>4, <3>2, Zenon DEF Publish
      <4>2. received'[s] \o queue'[s] = Log(s)
        BY <2>4, <4>1, Zenon DEF Log
      <4> QED BY <1>b, <2>1, <2>4, <4>1, <4>2, Zenon
    <3> QED BY <3>1, <3>2, Zenon
  <2>6. EventsAccounted'
    BY <2>5, Zenon DEF EventsAccounted
  <2> QED BY <2>4, <2>6, Zenon DEF EventsInv
<1>5. ASSUME NEW r \in Subs, Receive(r) PROVE EventsInv'
  <2>1. UNCHANGED <<committed, published, dropped, loop, current>>
    BY <1>5, Zenon DEF Receive
  <2>2. \A s \in Subs : received'[s] \o queue'[s] = Log(s)
    <3> SUFFICES ASSUME NEW s \in Subs PROVE received'[s] \o queue'[s] = Log(s)
      BY Zenon
    <3>1. CASE s = r
      <4>1. received'[s] = Append(received[s], Head(queue[s])) /\ queue'[s] = Tail(queue[s])
            /\ queue[s] # <<>>
        BY <1>0, <1>5, <3>1 DEF Receive, TypeOK
      <4> QED BY <1>a, <4>1, ConcatMove, Zenon DEF Log
    <3>2. CASE s # r
      BY <1>0, <1>5, <3>2, Zenon DEF Receive, TypeOK, Log
    <3> QED BY <3>1, <3>2, Zenon
  <2>3. EventsAccounted'
    BY <1>b, <2>1, <2>2, Zenon DEF EventsAccounted
  <2> QED BY <2>1, <2>3, Zenon DEF EventsInv
<1> QED BY <1>1, <1>2, <1>3, <1>4, <1>5 DEF Next, Work

\* Every event published is in every adapter's log, once and in commit order,
\* or is counted as dropped there (publish in hub.go), whatever the size of the
\* channels and however slowly the adapters read.
THEOREM EventsAlwaysAccounted == Spec => []EventsAccounted
<1>1. Init => EventsInv
  <2> SUFFICES ASSUME Init PROVE EventsInv
    OBVIOUS
  <2>1. \A s \in Subs : received[s] = <<>> /\ queue[s] = <<>> /\ dropped[s] = {}
    BY DEF Init
  <2>2. <<>> \o <<>> = <<>> /\ Range(<<>>) = {} /\ InOrderOf(<<>>, committed)
    BY DEF Range, InOrderOf
  <2> QED BY <2>1, <2>2, Zenon DEF Init, EventsInv, EventsAccounted
<1>2. EventsInv => EventsAccounted
  BY DEF EventsInv
<1> QED BY <1>1, <1>2, EventsStep, LoopInvariant, PTL DEF Spec
----------------------------------------------------------------------------
(* The inbox.  A message being handled is one the seenSet holds and whose  *)
(* command has not run; what the posts of the last k ticks took and what   *)
(* the bucket still holds are together no more than k ticks may give.      *)

InboxTypes ==
    /\ inbox \in Seq(Messages) /\ seen \in Seq(Messages)
    /\ msg \in Messages \cup {None}
    /\ rows \in [Messages -> 0 .. 1]
    /\ bucket \in [tokens : 0 .. Full, age : 0 .. Minute + 1] \cup {None}
    /\ took \in [0 .. Minute -> Nat]

SeenInv ==
    /\ NoRepeats(seen)
    /\ ran \subseteq Range(seen)
    /\ msg = None => asking = "receive"
    /\ msg # None => msg \in Range(seen) \ ran
    /\ deleted \subseteq Range(seen) \ {msg}
    /\ CommandsRunOnce
    /\ SeenIsAnswered

BudgetInv == \A k \in 0 .. Minute : Minute * took[k] + Tokens <= Full + k * PerMinute

InboxInv == InboxTypes /\ SeenInv /\ BudgetInv /\ DeletedStaysDeleted

\* The constants, one by one.
LEMMA InboxNumbers ==
    /\ PerMinute \in Nat \ {0} /\ Minute \in Nat \ {0} /\ SeenMax \in Nat \ {0}
    /\ Full \in Nat /\ Full = Minute * PerMinute
<1>1. PerMinute \in Nat \ {0} /\ Minute \in Nat \ {0} /\ SeenMax \in Nat \ {0}
  BY InboxConstants
<1>2. Full \in Nat /\ Full = Minute * PerMinute
  BY <1>1 DEF Full
<1> QED BY <1>1, <1>2, Zenon

\* A tick earns PerMinute, and a minute and a tick earn more than a full bucket.
LEMMA Earned ==
    ASSUME NEW a \in Nat
    PROVE  /\ a * PerMinute \in Nat
           /\ (a + 1) * PerMinute = a * PerMinute + PerMinute
           /\ (Minute + 1) * PerMinute = Full + PerMinute
  BY InboxNumbers

\* What the bucket holds.
LEMMA TokensHeld ==
    ASSUME InboxTypes
    PROVE  /\ Tokens \in 0 .. Full
           /\ bucket # None => /\ bucket.tokens \in 0 .. Full
                               /\ bucket.age \in 0 .. Minute + 1
                               /\ Tokens = AtMost(Full, bucket.tokens + bucket.age * PerMinute)
<1>1. CASE bucket = None
  BY <1>1, InboxNumbers DEF Tokens
<1>2. CASE bucket # None
  <2>1. bucket.tokens \in 0 .. Full /\ bucket.age \in 0 .. Minute + 1
    BY <1>2 DEF InboxTypes
  <2>2. bucket.age \in Nat
    BY <2>1, InboxNumbers
  <2>3. bucket.age * PerMinute \in Nat
    BY <2>2, Earned, Zenon
  <2> QED BY <1>2, <2>1, <2>3, InboxNumbers DEF Tokens, AtMost
<1> QED BY <1>1, <1>2, Zenon

\* A new bucket is a bucket, and holds what it says.
LEMMA NewBucket ==
    ASSUME NEW n \in 0 .. Full, bucket' = [tokens |-> n, age |-> 0]
    PROVE  /\ bucket' \in [tokens : 0 .. Full, age : 0 .. Minute + 1]
           /\ Tokens' = n
<1>1. bucket' \in [tokens : 0 .. Full, age : 0 .. Minute + 1] /\ bucket' \in [tokens : Nat, age : Nat]
  BY InboxNumbers
<1>2. bucket' # None
  BY <1>1, InboxConstants, Zenon
<1>3. bucket'.tokens = n /\ bucket'.age = 0 /\ n + 0 * PerMinute = n /\ ~(n > Full)
  BY InboxNumbers
<1> QED BY <1>1, <1>2, <1>3, Zenon DEF Tokens, AtMost

\* allowPost keeps the account.
LEMMA AllowPostKeeps ==
    ASSUME InboxTypes, BudgetInv, AllowPost
    PROVE  /\ bucket' \in [tokens : 0 .. Full, age : 0 .. Minute + 1]
           /\ took' \in [0 .. Minute -> Nat]
           /\ BudgetInv'
<1>0. Tokens \in 0 .. Full /\ took \in [0 .. Minute -> Nat]
  BY TokensHeld, Zenon DEF InboxTypes
<1>1. CASE Allowed
  <2>1. Tokens - Minute \in 0 .. Full
    BY <1>0, <1>1, InboxNumbers DEF Allowed
  <2>2. bucket' = [tokens |-> Tokens - Minute, age |-> 0]
    BY <1>1, Zenon DEF AllowPost
  <2>3. bucket' \in [tokens : 0 .. Full, age : 0 .. Minute + 1] /\ Tokens' = Tokens - Minute
    BY <2>1, <2>2, NewBucket, Zenon
  <2>4. took' = [k \in 0 .. Minute |-> took[k] + 1]
    BY <1>1 DEF AllowPost
  <2>5. took' \in [0 .. Minute -> Nat]
    BY <1>0, <2>4
  <2>6. ASSUME NEW k \in 0 .. Minute
        PROVE  Minute * took'[k] + Tokens' <= Full + k * PerMinute
    <3>1. took[k] \in Nat /\ took'[k] = took[k] + 1
      BY <1>0, <2>4, Zenon
    <3>2. Minute * took'[k] = Minute * took[k] + Minute
      BY <3>1, InboxNumbers
    <3>3. k \in Nat /\ Minute * took[k] \in Nat /\ k * PerMinute \in Nat
      BY <3>1, InboxNumbers
    <3>4. Minute * took[k] + Tokens <= Full + k * PerMinute
      BY Zenon DEF BudgetInv
    <3> QED BY <1>0, <2>3, <3>2, <3>3, <3>4, InboxNumbers
  <2> QED BY <2>3, <2>5, <2>6 DEF BudgetInv
<1>2. CASE ~Allowed
  <2>1. bucket' = [tokens |-> Tokens, age |-> 0] /\ took' = took
    BY <1>2, Zenon DEF AllowPost
  <2>2. bucket' \in [tokens : 0 .. Full, age : 0 .. Minute + 1] /\ Tokens' = Tokens
    BY <1>0, <2>1, NewBucket, Zenon
  <2> QED BY <1>0, <2>1, <2>2, Zenon DEF BudgetInv
<1> QED BY <1>1, <1>2, Zenon

\* A tick earns no more than a tick's worth.
LEMMA TimeKeeps ==
    ASSUME InboxTypes, BudgetInv, TimePasses
    PROVE  /\ bucket' \in [tokens : 0 .. Full, age : 0 .. Minute + 1] \cup {None}
           /\ took' \in [0 .. Minute -> Nat]
           /\ BudgetInv'
<1>0. Tokens \in 0 .. Full /\ took \in [0 .. Minute -> Nat]
  BY TokensHeld DEF InboxTypes
<1>1. /\ bucket' \in [tokens : 0 .. Full, age : 0 .. Minute + 1] \cup {None}
      /\ Tokens' \in 0 .. Full /\ Tokens' <= Tokens + PerMinute
  <2>1. CASE bucket = None
    BY <2>1, <1>0, InboxNumbers DEF TimePasses, Tokens
  <2>2. CASE bucket # None
    <3> DEFINE n == AtMost(Minute + 1, bucket.age + 1)
    <3>1. /\ bucket.tokens \in 0 .. Full /\ bucket.age \in 0 .. Minute + 1
          /\ Tokens = AtMost(Full, bucket.tokens + bucket.age * PerMinute)
          /\ bucket \in [tokens : 0 .. Full, age : 0 .. Minute + 1]
      BY <2>2, TokensHeld, Zenon DEF InboxTypes
    <3>2. n \in 0 .. Minute + 1 /\ (n = bucket.age \/ n = bucket.age + 1)
      BY <3>1, InboxNumbers DEF AtMost
    <3>3. bucket' = [bucket EXCEPT !.age = n]
      BY <2>2 DEF TimePasses
    <3> HIDE DEF n
    <3>4. /\ bucket' \in [tokens : 0 .. Full, age : 0 .. Minute + 1]
          /\ bucket'.tokens = bucket.tokens /\ bucket'.age = n
      BY <3>1, <3>2, <3>3, Zenon
    <3>5. bucket' # None
      <4>1. bucket' \in [tokens : Nat, age : Nat]
        BY <3>4, InboxNumbers
      <4> QED BY <4>1, InboxConstants, Zenon
    <3>6. Tokens' = AtMost(Full, bucket.tokens + n * PerMinute)
      BY <3>4, <3>5, Zenon DEF Tokens
    <3>7. bucket.age \in Nat /\ n \in Nat
      BY <3>1, <3>2, InboxNumbers
    <3>8. /\ bucket.age * PerMinute \in Nat /\ n * PerMinute \in Nat
          /\ n * PerMinute <= bucket.age * PerMinute + PerMinute
      BY <3>2, <3>7, Earned, InboxNumbers
    <3> QED BY <3>1, <3>4, <3>6, <3>8, InboxNumbers DEF AtMost
  <2> QED BY <2>1, <2>2
<1>2. took' = [k \in 0 .. Minute |-> IF k = 0 THEN 0 ELSE took[k - 1]]
  BY DEF TimePasses
<1>3. took' \in [0 .. Minute -> Nat]
  BY <1>0, <1>2, InboxNumbers
<1>4. ASSUME NEW k \in 0 .. Minute
      PROVE  Minute * took'[k] + Tokens' <= Full + k * PerMinute
  <2>1. CASE k = 0
    <3>1. took'[k] = 0
      BY <1>2, <2>1, InboxNumbers, Zenon
    <3>2. Minute * took'[k] = 0 /\ k * PerMinute = 0
      BY <2>1, <3>1, InboxNumbers
    <3> QED BY <1>1, <3>2, InboxNumbers
  <2>2. CASE k # 0
    <3>1. k - 1 \in 0 .. Minute /\ k - 1 \in Nat /\ (k - 1) + 1 = k /\ took'[k] = took[k - 1]
      BY <1>2, <2>2, InboxNumbers
    <3>2. Minute * took[k - 1] + Tokens <= Full + (k - 1) * PerMinute
      BY <3>1, Zenon DEF BudgetInv
    <3>3. (k - 1) * PerMinute \in Nat /\ k * PerMinute = (k - 1) * PerMinute + PerMinute
      BY <3>1, Earned, Zenon
    <3>4. took[k - 1] \in Nat
      BY <1>0, <3>1
    <3>5. Minute * took[k - 1] \in Nat
      BY <3>4, InboxNumbers
    <3>6. Tokens' \in 0 .. Full /\ Tokens' <= Tokens + PerMinute /\ Tokens \in 0 .. Full
      BY <1>0, <1>1, Zenon
    <3>7. Minute * took'[k] = Minute * took[k - 1]
      BY <3>1, Zenon
    <3> QED BY <3>2, <3>3, <3>5, <3>6, <3>7, InboxNumbers
  <2> QED BY <2>1, <2>2, Zenon
<1> QED BY <1>1, <1>3, <1>4, Zenon DEF BudgetInv

\* A bucket is forgotten only when it is full.
LEMMA ForgetKeeps ==
    ASSUME InboxTypes, BudgetInv, ForgetBucket
    PROVE  BudgetInv'
<1>1. bucket # None /\ bucket.age > Minute /\ bucket' = None /\ took' = took
  BY Zenon DEF ForgetBucket
<1>2. /\ bucket.tokens \in 0 .. Full /\ bucket.age \in 0 .. Minute + 1
      /\ Tokens = AtMost(Full, bucket.tokens + bucket.age * PerMinute)
  BY <1>1, TokensHeld, Zenon
<1>3. bucket.age = Minute + 1
  BY <1>1, <1>2, InboxNumbers
<1>4. bucket.age * PerMinute = Full + PerMinute
  BY <1>3, Earned, InboxNumbers, Zenon
<1>5. Tokens = Full /\ Tokens' = Full
  BY <1>1, <1>2, <1>4, InboxNumbers DEF AtMost, Tokens
<1> QED BY <1>1, <1>5, Zenon DEF BudgetInv

\* Nothing else touches the budget.
LEMMA BudgetFrame ==
    ASSUME BudgetInv, UNCHANGED <<bucket, took>>
    PROVE  BudgetInv'
  BY Zenon DEF BudgetInv, Tokens

\* A new budget.
LEMMA BudgetFirst ==
    ASSUME bucket = None, took = [k \in 0 .. Minute |-> 0]
    PROVE  BudgetInv /\ took \in [0 .. Minute -> Nat]
<1>1. took \in [0 .. Minute -> Nat] /\ Tokens = Full
  BY InboxNumbers, Zenon DEF Tokens
<1>2. ASSUME NEW k \in 0 .. Minute PROVE Minute * took[k] + Tokens <= Full + k * PerMinute
  <2>1. took[k] = 0 /\ Minute * 0 = 0 /\ k * PerMinute \in Nat
    BY InboxNumbers, Earned
  <2> QED BY <1>1, <2>1, InboxNumbers
<1> QED BY <1>1, <1>2, Zenon DEF BudgetInv

\* The rows, the bucket and the account, whatever happens.
LEMMA BudgetStep ==
    ASSUME InboxTypes, BudgetInv, [InboxNext]_inboxVars
    PROVE  /\ bucket' \in [tokens : 0 .. Full, age : 0 .. Minute + 1] \cup {None}
           /\ took' \in [0 .. Minute -> Nat]
           /\ BudgetInv'
<1> DEFINE Kept == /\ bucket' \in [tokens : 0 .. Full, age : 0 .. Minute + 1] \cup {None}
                   /\ took' \in [0 .. Minute -> Nat]
                   /\ BudgetInv'
<1>1. CASE UNCHANGED <<bucket, took>>
  BY <1>1, BudgetFrame, Zenon DEF InboxTypes
<1>2. CASE AllowPost
  BY <1>2, AllowPostKeeps, Zenon
<1>3. CASE TimePasses
  BY <1>3, TimeKeeps, Zenon
<1>4. CASE ForgetBucket
  BY <1>4, ForgetKeeps, Zenon DEF ForgetBucket, InboxTypes
<1>5. CASE Restart
  <2>1. bucket' = None /\ took' = [k \in 0 .. Minute |-> 0]
    BY <1>5, Zenon DEF Restart
  <2>2. took' \in [0 .. Minute -> Nat] /\ Tokens' = Full
    BY <2>1, InboxNumbers, Zenon DEF Tokens
  <2>3. ASSUME NEW k \in 0 .. Minute PROVE Minute * took'[k] + Tokens' <= Full + k * PerMinute
    <3>1. took'[k] = 0 /\ Minute * 0 = 0 /\ k * PerMinute \in Nat
      BY <2>1, InboxNumbers, Earned
    <3> QED BY <2>2, <3>1, InboxNumbers
  <2> QED BY <2>1, <2>2, <2>3, Zenon DEF BudgetInv
<1>6. \/ UNCHANGED <<bucket, took>> \/ AllowPost \/ TimePasses \/ ForgetBucket \/ Restart
  BY Zenon DEF InboxNext, Receiver, OnMessage, DeleteMessage, Handle, TakeMessage, Identify, Post,
     PostRefused, PostAllowed, Command, Fails, PostElsewhere, Announce, Ban, Unban, SendReply,
     Notice, inboxVars, hub
<1> QED BY <1>1, <1>2, <1>3, <1>4, <1>5, <1>6, Zenon

\* Adding a message to the seenSet, which may forget its oldest.
LEMMA SeenAdded ==
    ASSUME seen \in Seq(Messages), NoRepeats(seen), NEW m \in Messages, m \notin Range(seen), SeenAdd(m)
    PROVE  /\ seen' \in Seq(Messages) /\ NoRepeats(seen')
           /\ m \in Range(seen')
           /\ ran \subseteq Range(seen) => ran' \subseteq Range(seen') \ {m}
           /\ Range(seen) \subseteq answered \cup untold
                => Range(seen') \subseteq answered' \cup untold' \cup {m}
           /\ deleted \subseteq Range(seen) => deleted' \subseteq Range(seen') \ {m}
<1> DEFINE order == Append(seen, m)
<1>1. /\ order \in Seq(Messages) /\ order # <<>> /\ NoRepeats(order)
      /\ Range(order) = Range(seen) \cup {m}
      /\ Len(order) = Len(seen) + 1 /\ Len(seen) \in Nat
  BY RangeAppend, NoRepeatsAppend
<1>2. CASE Len(order) > SeenMax
  <2> DEFINE h == Head(order)
  <2>1. /\ seen' = Tail(order) /\ ran' = ran \ {h} /\ answered' = answered \ ({h} \cup {m})
        /\ untold' = untold \ ({h} \cup {m}) /\ deleted' = deleted \ {h}
    BY <1>2, Zenon DEF SeenAdd
  <2>2. h \in Range(order) /\ Range(Tail(order)) = Range(order) \ {h} /\ NoRepeats(Tail(order))
    BY <1>1, RangeTail, Zenon
  <2>3. Tail(order) \in Seq(Messages)
    BY <1>1
  <2>4. h # m
    <3>1. order[1] = h /\ order[Len(order)] = m /\ Len(order) > 1
      BY <1>1, <1>2, InboxNumbers
    <3>2. 1 \in DOMAIN order /\ Len(order) \in DOMAIN order
      BY <1>1
    <3>3. h = m => Len(order) = 1
      BY <1>1, <3>1, <3>2, Zenon DEF NoRepeats
    <3> HIDE DEF order, h
    <3> QED BY <3>1, <3>3
  <2> HIDE DEF order, h
  <2> QED BY <1>1, <2>1, <2>2, <2>3, <2>4
<1>3. CASE ~(Len(order) > SeenMax)
  <2>1. /\ seen' = order /\ ran' = ran /\ answered' = answered \ {m}
        /\ untold' = untold \ {m} /\ deleted' = deleted
    BY <1>3, Zenon DEF SeenAdd
  <2> HIDE DEF order
  <2> QED BY <1>1, <2>1, Zenon
<1> QED BY <1>2, <1>3

\* When a message has been dealt with, the next may be taken.
LEMMA SeenDone ==
    ASSUME NEW dealt \in BOOLEAN, InboxTypes, SeenInv, Done(dealt), msg # None,
           ran' \subseteq ran \cup {msg}, again' = again
    PROVE  SeenInv'
<1>1. /\ msg' = None /\ asking' = "receive" /\ seen' = seen /\ deleted' = deleted
      /\ answered' \cup untold' = answered \cup untold \cup {msg}
  BY DEF Done
<1>2. Range(seen) \subseteq Messages /\ None \notin Messages
  BY InboxConstants, RangeOfSeq, Zenon DEF InboxTypes
<1> QED BY <1>1, <1>2 DEF SeenInv, CommandsRunOnce, SeenIsAnswered

\* Each step of the receiver, and a restart.
LEMMA SeenStep ==
    ASSUME InboxTypes, SeenInv, [InboxNext]_inboxVars
    PROVE  SeenInv' /\ inbox' \in Seq(Messages) /\ seen' \in Seq(Messages) /\ msg' \in Messages \cup {None}
<1> DEFINE Kept == SeenInv' /\ inbox' \in Seq(Messages) /\ seen' \in Seq(Messages)
                   /\ msg' \in Messages \cup {None}
<1> USE InboxConstants
<1>0. /\ inbox \in Seq(Messages) /\ seen \in Seq(Messages) /\ msg \in Messages \cup {None}
      /\ NoRepeats(seen) /\ ran \subseteq Range(seen)
      /\ msg = None => asking = "receive"
      /\ msg # None => msg \in Range(seen) \ ran
      /\ again = {} /\ Range(seen) \subseteq answered \cup untold \cup {msg}
      /\ deleted \subseteq Range(seen) \ {msg}
      /\ Range(seen) \subseteq Messages
  BY RangeOfSeq, Zenon DEF InboxTypes, SeenInv, CommandsRunOnce, SeenIsAnswered
<1>1. ASSUME UNCHANGED <<seen, msg, asking, answered, untold, ran, again>>,
             deleted' \subseteq Range(seen) \ {msg}, inbox' \in Seq(Messages)
      PROVE  Kept
  BY <1>0, <1>1, Zenon DEF SeenInv, CommandsRunOnce, SeenIsAnswered
<1>2. ASSUME NEW m \in Messages, OnMessage(m) PROVE Kept
  <2>1. inbox' \in Seq(Messages)
    BY <1>0, <1>2 DEF OnMessage
  <2> QED BY <1>0, <1>1, <1>2, <2>1, Zenon DEF OnMessage, history
<1>3. CASE Handle
  <2>1. Head(inbox) \in Messages /\ inbox' \in Seq(Messages) /\ msg = None /\ again' = again
    BY <1>0, <1>3 DEF Handle, TakeMessage
  <2>2. CASE ~announced \/ Head(inbox) \in Range(seen)
    BY <1>0, <1>1, <1>3, <2>1, <2>2, Zenon DEF Handle
  <2>3. CASE ~(~announced \/ Head(inbox) \in Range(seen))
    <3> DEFINE m == Head(inbox)
    <3>1. SeenAdd(m) /\ msg' = m /\ asking' = "identify" /\ m \notin Range(seen)
      BY <1>3, <2>3, Zenon DEF Handle
    <3>2. Range(seen) \subseteq answered \cup untold /\ deleted \subseteq Range(seen)
      BY <1>0, <2>1, Zenon
    <3> HIDE DEF m
    <3>3. m \in Messages
      BY <2>1, Zenon DEF m
    <3>4. /\ seen' \in Seq(Messages) /\ NoRepeats(seen') /\ m \in Range(seen')
          /\ ran' \subseteq Range(seen') \ {m}
          /\ Range(seen') \subseteq answered' \cup untold' \cup {m}
          /\ deleted' \subseteq Range(seen') \ {m}
      BY <1>0, <3>1, <3>2, <3>3, SeenAdded, Zenon
    <3>5. SeenInv'
      BY <1>0, <2>1, <3>1, <3>3, <3>4, Zenon DEF SeenInv, CommandsRunOnce, SeenIsAnswered
    <3> QED BY <2>1, <3>1, <3>3, <3>4, <3>5, Zenon
  <2> QED BY <2>2, <2>3, Zenon
<1>4. ASSUME NEW dealt \in BOOLEAN, Done(dealt), msg # None,
             ran' \subseteq ran \cup {msg}, again' = again
      PROVE  Kept
  <2>1. inbox' = inbox /\ seen' = seen /\ msg' = None
    BY <1>4, Zenon DEF Done
  <2> QED BY <1>0, <1>4, <2>1, SeenDone, Zenon
<1>5. CASE Identify
  <2>1. msg # None /\ ran' = ran /\ again' = again
    BY <1>0, <1>5, Zenon DEF Identify
  <2>2. CASE banned \/ Kind[msg] = "blank"
    BY <1>4, <1>5, <2>1, <2>2, Zenon DEF Identify
  <2>3. CASE ~(banned \/ Kind[msg] = "blank")
    <3>1. UNCHANGED <<inbox, seen, msg, answered, untold, deleted>>
      BY <1>5, <2>3, Zenon DEF Identify
    <3> QED BY <1>0, <2>1, <3>1, Zenon DEF SeenInv, CommandsRunOnce, SeenIsAnswered
  <2> QED BY <2>2, <2>3, Zenon
<1>6. CASE Post
  <2>1. msg # None /\ ran' = ran /\ again' = again
    BY <1>0, <1>6, Zenon DEF Post
  <2>2. Done(TRUE) \/ Done(Replied)
    BY <1>6, Zenon DEF Post, PostRefused, PostAllowed
  <2>3. Replied \in BOOLEAN
    BY DEF Replied
  <2> QED BY <1>4, <2>1, <2>2, <2>3, Zenon
<1>7. CASE Command
  <2>1. msg # None /\ Done(Replied)
    BY <1>0, <1>7, Zenon DEF Command
  <2>2. ran' \subseteq ran \cup {msg} /\ again' = again
    BY <1>0, <1>7, <2>1 DEF Command
  <2>3. Replied \in BOOLEAN
    BY DEF Replied
  <2> QED BY <1>4, <2>1, <2>2, <2>3, Zenon
<1>8. CASE Fails
  <2>1. msg # None /\ ran' = ran /\ again' = again /\ (Done(FALSE) \/ Done(Replied))
    BY <1>8, Zenon DEF Fails
  <2>2. Replied \in BOOLEAN
    BY DEF Replied
  <2> QED BY <1>4, <2>1, <2>2, Zenon
<1>9. CASE Restart
  <2>1. /\ inbox' = <<>> /\ seen' = <<>> /\ msg' = None /\ asking' = "receive" /\ ran' = {} /\ again' = again
        /\ deleted' = {}
    BY <1>9, Zenon DEF Restart
  <2>2. NoRepeats(<<>>) /\ Range(<<>>) = {} /\ <<>> \in Seq(Messages)
    BY DEF NoRepeats, Range
  <2> QED BY <1>0, <2>1, <2>2, Zenon DEF SeenInv, CommandsRunOnce, SeenIsAnswered
<1>10. CASE \/ TimePasses \/ ForgetBucket \/ PostElsewhere \/ Announce \/ Ban \/ Unban
            \/ SendReply \/ Notice \/ UNCHANGED inboxVars \/ \E m \in Messages : DeleteMessage(m)
  <2>1. UNCHANGED <<inbox, seen, msg, asking, answered, untold, ran, again>>
    BY <1>10 DEF TimePasses, ForgetBucket, PostElsewhere, Announce, Ban, Unban, SendReply, Notice,
       DeleteMessage, inboxVars, group, history
  <2>2. deleted' \subseteq Range(seen) \ {msg}
    BY <1>0, <1>10 DEF TimePasses, ForgetBucket, PostElsewhere, Announce, Ban, Unban, SendReply, Notice,
       DeleteMessage, inboxVars, history
  <2> QED BY <1>0, <1>1, <2>1, <2>2, Zenon
<1> QED BY <1>2, <1>3, <1>5, <1>6, <1>7, <1>8, <1>9, <1>10, Zenon DEF InboxNext, Receiver

\* AddMessage keeps one row for each origin, and no copy of a deleted message
\* comes as far as AddMessage.
LEMMA RowsStep ==
    ASSUME InboxTypes, SeenInv, DeletedStaysDeleted, [InboxNext]_inboxVars
    PROVE  rows' \in [Messages -> 0 .. 1] /\ DeletedStaysDeleted'
<1>0. /\ rows \in [Messages -> 0 .. 1] /\ (asking = "post" => msg \in Messages)
      /\ msg \notin deleted /\ deleted \subseteq Messages
      /\ \A m \in deleted : rows[m] = 0
  BY RangeOfSeq DEF InboxTypes, SeenInv, DeletedStaysDeleted
<1>1. CASE rows' = rows /\ deleted' \subseteq deleted
  BY <1>0, <1>1, Zenon DEF DeletedStaysDeleted
<1>2. CASE Post
  <2>1. (rows' = rows \/ AddMessage(msg)) /\ deleted' = deleted
    BY <1>2, Zenon DEF Post, PostRefused, PostAllowed, Done
  <2>2. msg \in Messages
    BY <1>0, <1>2, Zenon DEF Post
  <2>3. rows' \in [Messages -> 0 .. 1] /\ \A m \in Messages \ {msg} : rows'[m] = rows[m]
    BY <1>0, <2>1, <2>2 DEF AddMessage
  <2> QED BY <1>0, <2>1, <2>3, Zenon DEF DeletedStaysDeleted
<1>3. ASSUME NEW m \in Messages, DeleteMessage(m)
      PROVE  rows' \in [Messages -> 0 .. 1] /\ DeletedStaysDeleted'
  <2>1. rows[m] = 1 /\ rows' = [rows EXCEPT ![m] = rows[m] - 1] /\ deleted' \subseteq deleted \cup {m}
    BY <1>0, <1>3 DEF DeleteMessage
  <2>2. rows' \in [Messages -> 0 .. 1] /\ rows'[m] = 0 /\ \A k \in Messages \ {m} : rows'[k] = rows[k]
    BY <1>0, <2>1
  <2> QED BY <1>0, <2>1, <2>2, Zenon DEF DeletedStaysDeleted
<1>4. ASSUME SeenAdd(Head(inbox)) PROVE deleted' \subseteq deleted
  BY <1>4 DEF SeenAdd
<1>5. CASE Handle
  BY <1>1, <1>4, <1>5 DEF Handle, TakeMessage, hub
<1>6. CASE Identify \/ Command \/ Fails
  BY <1>1, <1>6 DEF Identify, Command, Fails, Done, hub
<1>7. CASE Restart
  BY <1>1, <1>7 DEF Restart
<1>8. ASSUME NEW m \in Messages, OnMessage(m) PROVE rows' = rows /\ deleted' \subseteq deleted
  BY <1>8 DEF OnMessage, hub, history
<1>9. CASE \/ TimePasses \/ ForgetBucket \/ PostElsewhere \/ Announce \/ Ban \/ Unban
           \/ SendReply \/ Notice \/ UNCHANGED inboxVars
  BY <1>1, <1>9 DEF TimePasses, ForgetBucket, PostElsewhere, Announce, Ban, Unban, SendReply, Notice,
     inboxVars, hub, history
<1> QED BY <1>1, <1>2, <1>3, <1>5, <1>6, <1>7, <1>8, <1>9, Zenon DEF InboxNext, Receiver

\* The invariant of the inbox holds throughout.
THEOREM InboxInvariant == InboxSpec => []InboxInv
<1>1. InboxInit => InboxInv
  <2> SUFFICES ASSUME InboxInit PROVE InboxInv
    OBVIOUS
  <2>1. NoRepeats(<<>>) /\ Range(<<>>) = {} /\ <<>> \in Seq(Messages)
    BY DEF NoRepeats, Range
  <2>2. BudgetInv /\ took \in [0 .. Minute -> Nat]
    BY BudgetFirst, Zenon DEF InboxInit
  <2>3. InboxTypes
    BY <2>1, <2>2 DEF InboxInit, InboxTypes
  <2>4. SeenInv
    BY <2>1, Zenon DEF InboxInit, SeenInv, CommandsRunOnce, SeenIsAnswered
  <2>5. DeletedStaysDeleted
    BY Zenon DEF InboxInit, DeletedStaysDeleted
  <2> QED BY <2>2, <2>3, <2>4, <2>5, Zenon DEF InboxInv
<1>2. InboxInv /\ [InboxNext]_inboxVars => InboxInv'
  BY BudgetStep, SeenStep, RowsStep, Zenon DEF InboxInv, InboxTypes
<1> QED BY <1>1, <1>2, PTL DEF InboxSpec

\* No copy puts back a message deleted since the seenSet came to know it, for any
\* size of the seenSet (handle in group.go, AddMessage).
THEOREM AlwaysStaysDeleted == InboxSpec => []DeletedStaysDeleted
<1>1. InboxInv => DeletedStaysDeleted
  BY Zenon DEF InboxInv
<1> QED BY <1>1, InboxInvariant, PTL

\* No command runs again while the seenSet remembers it (handle and seenSet in
\* group.go).
THEOREM CommandsAlwaysRunOnce == InboxSpec => []CommandsRunOnce
<1>1. InboxInv => CommandsRunOnce
  BY DEF InboxInv, SeenInv
<1> QED BY <1>1, InboxInvariant, PTL

\* A message whose copies are discarded was said, replied to or ignored on purpose,
\* or is in hand, but for those whose reply was dropped or that the hub failed
\* before a reply was due (handle in group.go).
THEOREM SeenAlwaysAnswered == InboxSpec => []SeenIsAnswered
<1>1. InboxInv => SeenIsAnswered
  BY Zenon DEF InboxInv, SeenInv
<1> QED BY <1>1, InboxInvariant, PTL

\* Posts keep to the rate over any stretch of ticks up to a minute, for every
\* PostsPerMinute and every length of a tick (allowPost in post.go).
THEOREM RateAlwaysKept == InboxSpec => []RateKept
<1>1. InboxInv => RateKept
  <2> SUFFICES ASSUME InboxInv, NEW k \in 0 .. Minute PROVE Minute * took[k] <= Full + k * PerMinute
    BY Zenon DEF RateKept
  <2>1. Minute * took[k] + Tokens <= Full + k * PerMinute /\ Tokens \in 0 .. Full /\ took[k] \in Nat
    BY TokensHeld, Zenon DEF InboxInv, BudgetInv, InboxTypes
  <2>2. Minute * took[k] \in Nat /\ k * PerMinute \in Nat
    BY <2>1, InboxNumbers
  <2> QED BY <2>1, <2>2, InboxNumbers
<1> QED BY <1>1, InboxInvariant, PTL
----------------------------------------------------------------------------
(* The life of a room.  Requests that need the room leave it in place, and *)
(* only the last to leave, or maintenance of an empty room, deletes it.    *)

RoomsInv ==
    /\ room \in Row \cup {Nil}
    /\ links \in [Identities -> Nat]
    /\ BannedAreOut
    /\ NoRightOutlivesTheRoom

\* A room that is there stays so when its row is written.
LEMMA RowWritten ==
    ASSUME RoomsInv, Exists, room' \in Row,
           \A i \in Identities : links'[i] = 0 \/ links'[i] = links[i],
           links' \in [Identities -> Nat],
           \A i \in Identities : i \in bans' => i \in bans \/ links'[i] = 0
    PROVE  RoomsInv'
<1>1. room' # Nil
  BY RoomsNone, Zenon
<1>2. BannedAreOut'
  BY DEF RoomsInv, BannedAreOut, Present
<1> QED BY <1>1, <1>2, Zenon DEF RoomsInv, NoRightOutlivesTheRoom, Exists

\* When nothing but presence goes, the rest is as it was.
LEMMA PresenceGoes ==
    ASSUME RoomsInv, UNCHANGED <<room, roles, invites>>, links' \in [Identities -> Nat],
           \A i \in Identities : Present(i)' => Present(i)
    PROVE  RoomsInv'
<1>1. UNCHANGED <<room, ops, voiced, bans, invites>>
  BY Zenon DEF roles
<1>2. BannedAreOut'
  BY <1>1, Zenon DEF RoomsInv, BannedAreOut
<1>3. NoRightOutlivesTheRoom'
  BY <1>1, Zenon DEF RoomsInv, NoRightOutlivesTheRoom, Exists, Empty, roles
<1> QED BY <1>1, <1>2, <1>3, Zenon DEF RoomsInv

\* A room deleted when nobody is in it leaves nothing.
LEMMA RoomDeleted ==
    ASSUME DeleteRoom, links' \in [Identities -> Nat], \A i \in Identities : ~Present(i)'
    PROVE  RoomsInv'
<1>1. room' = Nil /\ ops' = {} /\ voiced' = {} /\ bans' = {} /\ \A i \in Identities : invites'[i] = "no"
  BY Zenon DEF DeleteRoom
<1> QED BY <1>1, Zenon DEF RoomsInv, BannedAreOut, NoRightOutlivesTheRoom, Empty, roles

\* Joining founds the room if it has to, and nobody banned joins.
LEMMA JoinKeeps ==
    ASSUME RoomsInv, NEW i \in Identities, NEW knowsKey \in BOOLEAN, Join(i, knowsKey)
    PROVE  RoomsInv'
<1>1. room' \in Row
  <2>1. CASE Exists
    BY <2>1, Zenon DEF Join, RoomsInv, Exists, Row
  <2>2. CASE ~Exists
    BY <2>2 DEF Join, NewRow, Row
  <2> QED BY <2>1, <2>2
<1>2. links' \in [Identities -> Nat] /\ \A j \in Identities : j # i => links'[j] = links[j]
  BY DEF Join, RoomsInv
<1>3. BannedAreOut'
  BY <1>2 DEF Join, MayJoin, RoomsInv, BannedAreOut, Present, roles
<1>4. room' # Nil
  BY <1>1, RoomsNone
<1> QED BY <1>1, <1>2, <1>3, <1>4, Zenon DEF RoomsInv, NoRightOutlivesTheRoom, Exists

\* The last link out takes a room that is not kept with it.
LEMMA PartKeeps ==
    ASSUME RoomsInv, NEW i \in Identities, Part(i)
    PROVE  RoomsInv'
<1>1. /\ links \in [Identities -> Nat] /\ links' = [links EXCEPT ![i] = @ - 1]
      /\ links[i] > 0
  BY DEF Part, Present, RoomsInv
<1>2. links' \in [Identities -> Nat] /\ \A j \in Identities : Present(j)' => Present(j)
  BY <1>1 DEF Present
<1>3. CASE UNCHANGED <<room, roles, invites>>
  BY <1>2, <1>3, PresenceGoes
<1>4. CASE links[i] = 1 /\ ForgetEmptyRoom(i) /\ ~UNCHANGED <<room, roles, invites>>
  <2>1. Exists /\ \A j \in Identities \ {i} : ~Present(j)
    BY <1>4, Zenon DEF ForgetEmptyRoom
  <2>2. \A j \in Identities : ~Present(j)'
    BY <1>1, <1>4, <2>1 DEF Present
  <2>3. CASE DeleteRoom
    BY <1>2, <2>2, <2>3, RoomDeleted, Zenon
  <2>4. CASE room' = [room EXCEPT !.recent = TRUE] /\ UNCHANGED <<roles, invites>>
    <3>1. room' \in Row
      BY <2>1, <2>4, Zenon DEF RoomsInv, Exists, Row
    <3>2. \A j \in Identities : links'[j] = 0 \/ links'[j] = links[j]
      BY <1>1, <1>4
    <3>3. bans' = bans
      BY <2>4 DEF roles
    <3> QED BY <1>2, <2>1, <3>1, <3>2, <3>3, RowWritten, Zenon
  <2> QED BY <1>4, <2>1, <2>3, <2>4 DEF ForgetEmptyRoom
<1> QED BY <1>3, <1>4 DEF Part

\* The operators' requests, and posts, find the room and leave it.
LEMMA VerbKeeps ==
    ASSUME RoomsInv, NEW a \in Identities,
           \/ \E t \in Identities : RoomVerb(a, t)
           \/ \E m \in Modes, on \in BOOLEAN : Mode(a, m, on)
           \/ Register(a) \/ Unregister(a) \/ RoomPost(a)
    PROVE  RoomsInv'
<1>1. Exists
  BY DEF RoomVerb, Kick, RoomBan, RoomUnban, Invite, Uninvite, Op, Deop, Voice, Mode, Register,
     Unregister, RoomPost, OpRoom
<1>2. room \in Row /\ links \in [Identities -> Nat]
  BY <1>1 DEF RoomsInv, Exists
<1>3. ASSUME NEW t \in Identities, RoomVerb(a, t) PROVE RoomsInv'
  <2>1. room' = room
    BY <1>3, Zenon DEF RoomVerb, Kick, RoomBan, RoomUnban, Invite, Uninvite, Op, Deop, Voice
  <2>2. /\ links' = links \/ links' = [links EXCEPT ![t] = 0]
        /\ bans' \subseteq bans \cup {t}
        /\ bans' \subseteq bans \/ links' = [links EXCEPT ![t] = 0]
    BY <1>3, Zenon DEF RoomVerb, Kick, RoomBan, RoomUnban, Invite, Uninvite, Op, Deop, Voice,
       ForgetPresence, roles
  <2>3. /\ links' \in [Identities -> Nat]
        /\ \A i \in Identities : links'[i] = 0 \/ links'[i] = links[i]
        /\ \A i \in Identities : i \in bans' => i \in bans \/ links'[i] = 0
    BY <1>2, <2>2
  <2> QED BY <1>1, <1>2, <2>1, <2>3, RowWritten, Zenon
<1>4. CASE \/ \E m \in Modes, on \in BOOLEAN : Mode(a, m, on)
           \/ Register(a) \/ Unregister(a) \/ RoomPost(a)
  <2>1. links' = links /\ bans' = bans
    BY <1>4, Zenon DEF Mode, Register, Unregister, RoomPost, roles
  <2>2. room' \in Row
    <3>1. CASE \E m \in Modes, on \in BOOLEAN : Mode(a, m, on)
      BY <1>2, <3>1 DEF Mode, Row
    <3>2. CASE Register(a)
      BY <1>2, <3>2, Zenon DEF Register, Row, Modes
    <3>3. CASE Unregister(a) \/ RoomPost(a)
      BY <1>2, <3>3, Zenon DEF Unregister, RoomPost, Row
    <3> QED BY <1>4, <3>1, <3>2, <3>3, Zenon
  <2> QED BY <1>1, <1>2, <2>1, <2>2, RowWritten, Zenon
<1> QED BY <1>3, <1>4

\* Kicks, restarts, time and maintenance.
LEMMA AroundRoomKeeps ==
    ASSUME RoomsInv,
           \/ \E i \in Identities : HubRemove(i) \/ InviteExpires(i)
           \/ PresenceLost \/ Age \/ MaintainRoom \/ UNCHANGED roomsVars
    PROVE  RoomsInv'
<1>0. links \in [Identities -> Nat]
  BY Zenon DEF RoomsInv
<1>1. ASSUME NEW i \in Identities, HubRemove(i) PROVE RoomsInv'
  <2>1. links' \in [Identities -> Nat] /\ \A j \in Identities : Present(j)' => Present(j)
    BY <1>0, <1>1, Zenon DEF HubRemove, ForgetPresence, Present
  <2> QED BY <1>1, <2>1, PresenceGoes, Zenon DEF HubRemove
<1>2. CASE PresenceLost
  <2>1. links' \in [Identities -> Nat] /\ \A j \in Identities : Present(j)' => Present(j)
    BY <1>2 DEF PresenceLost, Present
  <2> QED BY <1>2, <2>1, PresenceGoes, Zenon DEF PresenceLost
<1>3. ASSUME NEW i \in Identities, InviteExpires(i) PROVE RoomsInv'
  <2>1. Exists
    BY <1>3, Zenon DEF InviteExpires, Invited, RoomsInv, NoRightOutlivesTheRoom
  <2> QED BY <1>0, <1>3, <2>1, RowWritten, Zenon DEF InviteExpires, RoomsInv, Exists, roles
<1>4. CASE Age
  <2>1. Exists /\ room' \in Row /\ links' = links /\ bans' = bans
    BY <1>4, Zenon DEF Age, RoomsInv, Exists, Row, roles
  <2> QED BY <1>0, <2>1, RowWritten
<1>5. CASE MaintainRoom
  <2>1. CASE Prunable
    <3>1. DeleteRoom /\ links' = links /\ \A i \in Identities : ~Present(i)'
      BY <1>5, <2>1 DEF MaintainRoom, Prunable, Empty, Present
    <3> QED BY <1>0, <3>1, RoomDeleted, Zenon
  <2>2. CASE ~Prunable
    <3>1. /\ UNCHANGED <<room, ops, voiced, bans, links>>
          /\ invites' = [i \in Identities |-> IF invites[i] = "expired" THEN "no" ELSE invites[i]]
      BY <1>5, <2>2, Zenon DEF MaintainRoom, roles
    <3>2. \A i \in Identities : invites[i] = "no" => invites'[i] = "no"
      BY <3>1, Zenon
    <3>3. BannedAreOut'
      BY <3>1, Zenon DEF RoomsInv, BannedAreOut, Present
    <3>4. NoRightOutlivesTheRoom'
      BY <3>1, <3>2, Zenon DEF RoomsInv, NoRightOutlivesTheRoom, Exists, Empty, Present, roles
    <3> QED BY <1>0, <3>1, <3>3, <3>4, Zenon DEF RoomsInv
  <2> QED BY <2>1, <2>2
<1>6. CASE UNCHANGED roomsVars
  BY <1>0, <1>6, PresenceGoes, Zenon DEF roomsVars, roles, Present
<1> QED BY <1>1, <1>2, <1>3, <1>4, <1>5, <1>6

\* The invariant of a room holds throughout.
THEOREM RoomsInvariant == RoomsSpec => []RoomsInv
<1>1. RoomsInit => RoomsInv
  <2> SUFFICES ASSUME RoomsInit PROVE RoomsInv
    OBVIOUS
  <2>1. room \in Row \cup {Nil}
    BY DEF RoomsInit, NewRow, Row
  <2>2. links \in [Identities -> Nat] /\ Empty /\ bans = {}
    BY DEF RoomsInit, Empty, Present
  <2> QED BY <2>1, <2>2, Zenon DEF RoomsInit, RoomsInv, BannedAreOut, NoRightOutlivesTheRoom, roles
<1>2. RoomsInv /\ [RoomsNext]_roomsVars => RoomsInv'
  BY JoinKeeps, PartKeeps, VerbKeeps, AroundRoomKeeps DEF RoomsNext
<1> QED BY <1>1, <1>2, PTL DEF RoomsSpec

\* For any identities, ranks and number of links, whoever is banned from a
\* room is out of it (join and roomBan).
THEOREM BannedAlwaysOut == RoomsSpec => []BannedAreOut
<1>1. RoomsInv => BannedAreOut
  BY Zenon DEF RoomsInv
<1> QED BY <1>1, RoomsInvariant, PTL

\* A room that is gone has left nobody in it, and no operator, voice, ban or invitation
\* (part, forgetEmptyRoom and pruneRooms), over kicks, restarts and several links.
THEOREM NoRightEverOutlives == RoomsSpec => []NoRightOutlivesTheRoom
<1>1. RoomsInv => NoRightOutlivesTheRoom
  BY DEF RoomsInv
<1> QED BY <1>1, RoomsInvariant, PTL
=============================================================================
