------------------------------ MODULE HubLoop ------------------------------
(***************************************************************************)
(* The hub's loop: callers hand it requests over a bounded channel, it     *)
(* runs them one at a time, each in one store transaction, and publishes   *)
(* the events of those that commit to the adapters' bounded queues.        *)
(*                                                                         *)
(* A caller is one call of update.  Its steps are the two selects of do;   *)
(* where several cases of a select are ready, Go picks any of them.  The   *)
(* loop's steps are those of one request: the transaction, the in-memory   *)
(* changes queued with then, the events, and close(finished).              *)
(***************************************************************************)
EXTENDS Naturals, Sequences, FiniteSets, Functions

CONSTANTS
    Callers,    \* calls of update; each one request with one event
    Subs,       \* the adapters' subscriptions
    ReqBuf,     \* capacity of reqs (256)
    SubBuf,     \* capacity of a subscription's channel (4096)
    NoCaller    \* the loop has no request in hand

ASSUME HubConstants == /\ ReqBuf \in Nat
                       /\ SubBuf \in Nat
                       /\ NoCaller \notin Callers

VARIABLES
    pc,         \* pc[c]: where the call of do is
    result,     \* result[c]: what update returned
    err,        \* err[c]: the transaction's error, written by the job
    cancelled,  \* callers whose context is done
    finished,   \* callers whose finished channel is closed
    reqs,       \* the request channel
    loop,       \* where Run is
    current,    \* the request the loop has in hand
    stopping,   \* whether Run's context is done
    done,       \* whether h.done is closed
    committed,  \* the requests whose transaction committed, in order
    applied,    \* the requests whose after functions have run
    published,  \* the requests whose events have been published
    queue,      \* queue[s]: the subscription's channel
    received,   \* received[s]: what the adapter has taken from it
    dropped     \* dropped[s]: events lost because the channel was full

callers == <<pc, result, err, cancelled>>
adapters == <<queue, received, dropped>>
vars == <<pc, result, err, cancelled, finished, reqs, loop, current, stopping,
          done, committed, applied, published, queue, received, dropped>>

Init ==
    /\ pc = [c \in Callers |-> "idle"]
    /\ result = [c \in Callers |-> "none"]
    /\ err = [c \in Callers |-> "nil"]
    /\ cancelled = {}
    /\ finished = {}
    /\ reqs = <<>>
    /\ loop = "maintain"
    /\ current = NoCaller
    /\ stopping = FALSE
    /\ done = FALSE
    /\ committed = <<>>
    /\ applied = {}
    /\ published = {}
    /\ queue = [s \in Subs |-> <<>>]
    /\ received = [s \in Subs |-> <<>>]
    /\ dropped = [s \in Subs |-> {}]
----------------------------------------------------------------------------
(* Callers *)

\* update is called; do is about to hand over its job.
Call(c) ==
    /\ pc[c] = "idle"
    /\ pc' = [pc EXCEPT ![c] = "sending"]
    /\ UNCHANGED <<result, err, cancelled, finished, reqs, loop, current, stopping,
                   done, committed, applied, published, adapters>>

\* The caller gives up: its context is done.
Cancel(c) ==
    /\ c \notin cancelled
    /\ pc[c] # "returned"
    /\ cancelled' = cancelled \cup {c}
    /\ UNCHANGED <<pc, result, err, finished, reqs, loop, current, stopping, done,
                   committed, applied, published, adapters>>

Return(c, r) ==
    /\ pc' = [pc EXCEPT ![c] = "returned"]
    /\ result' = [result EXCEPT ![c] = r]
    /\ UNCHANGED <<err, cancelled, finished, reqs, loop, current, stopping, done,
                   committed, applied, published, adapters>>

\* case h.reqs <- job
SendJob(c) ==
    /\ pc[c] = "sending"
    /\ Len(reqs) < ReqBuf
    /\ reqs' = Append(reqs, c)
    /\ pc' = [pc EXCEPT ![c] = "waiting"]
    /\ UNCHANGED <<result, err, cancelled, finished, loop, current, stopping, done,
                   committed, applied, published, adapters>>

\* case <-h.done, before the job was handed over
SendClosed(c) ==
    /\ pc[c] = "sending"
    /\ done
    /\ Return(c, "ErrClosed")

\* case <-ctx.Done()
SendCancelled(c) ==
    /\ pc[c] = "sending"
    /\ c \in cancelled
    /\ Return(c, "ctx.Err")

\* case <-finished: update returns what the transaction returned.
WaitFinished(c) ==
    /\ pc[c] = "waiting"
    /\ c \in finished
    /\ Return(c, err[c])

\* Mutants: the second look at finished is left out, or is all there is.
WaitClosedUnlooked(c) ==
    /\ pc[c] = "waiting"
    /\ done
    /\ Return(c, "ErrClosed")

WaitClosedIfFinished(c) ==
    /\ pc[c] = "waiting"
    /\ done
    /\ c \in finished
    /\ Return(c, err[c])

\* case <-h.done, while waiting: the job may have finished all the same.
WaitClosed(c) ==
    /\ pc[c] = "waiting"
    /\ done
    /\ Return(c, IF c \in finished THEN err[c] ELSE "ErrClosed")

Caller(c) ==
    \/ SendJob(c)
    \/ SendClosed(c)
    \/ SendCancelled(c)
    \/ WaitFinished(c)
    \/ WaitClosed(c)
----------------------------------------------------------------------------
(* The loop *)

\* h.maintain(ctx): at the start, and from the select when the ticker ticks.
\* What it does to the store, and what of it may fail, is in the modules of the
\* rooms, cursors and deliveries; to the loop it is a step between requests.
Maintain ==
    /\ loop = "maintain"
    /\ loop' = "select"
    /\ UNCHANGED <<callers, finished, reqs, current, stopping, done, committed,
                   applied, published, adapters>>

Tick ==
    /\ loop = "select"
    /\ loop' = "maintain"
    /\ UNCHANGED <<callers, finished, reqs, current, stopping, done, committed,
                   applied, published, adapters>>

\* case fn := <-h.reqs
TakeJob ==
    /\ loop = "select"
    /\ reqs # <<>>
    /\ current' = Head(reqs)
    /\ reqs' = Tail(reqs)
    /\ loop' = "transaction"
    /\ UNCHANGED <<callers, finished, stopping, done, committed, applied, published,
                   adapters>>

\* h.st.Update returns nil.  Committing after the context is done is possible:
\* it may be cancelled while the commit is under way.
Commit ==
    /\ loop = "transaction"
    /\ committed' = Append(committed, current)
    /\ err' = [err EXCEPT ![current] = "nil"]
    /\ loop' = "after"
    /\ UNCHANGED <<pc, result, cancelled, finished, reqs, current, stopping, done,
                   applied, published, adapters>>

\* Mutant: the after functions run whatever Update returned.
RollbackThenAfter ==
    /\ loop = "transaction"
    /\ err' = [err EXCEPT ![current] = "error"]
    /\ loop' = "after"
    /\ UNCHANGED <<pc, result, cancelled, finished, reqs, current, stopping, done,
                   committed, applied, published, adapters>>

\* The request is refused, the store fails or the context is done: the
\* transaction is rolled back, and only close(finished) is left to do.
Rollback ==
    /\ loop = "transaction"
    /\ err' = [err EXCEPT ![current] = "error"]
    /\ loop' = "finish"
    /\ UNCHANGED <<pc, result, cancelled, finished, reqs, current, stopping, done,
                   committed, applied, published, adapters>>

\* for _, fn := range out.after
After ==
    /\ loop = "after"
    /\ applied' = applied \cup {current}
    /\ loop' = "publish"
    /\ UNCHANGED <<callers, finished, reqs, current, stopping, done, committed,
                   published, adapters>>

\* Mutants: a dropped event is not counted; publish waits for the adapter.
PublishUncounted ==
    /\ loop = "publish"
    /\ queue' = [s \in Subs |-> IF Len(queue[s]) < SubBuf
                                THEN Append(queue[s], current) ELSE queue[s]]
    /\ published' = published \cup {current}
    /\ loop' = "finish"
    /\ UNCHANGED <<callers, finished, reqs, current, stopping, done, committed,
                   applied, received, dropped>>

PublishBlocking ==
    /\ loop = "publish"
    /\ \A s \in Subs : Len(queue[s]) < SubBuf
    /\ queue' = [s \in Subs |-> Append(queue[s], current)]
    /\ published' = published \cup {current}
    /\ loop' = "finish"
    /\ UNCHANGED <<callers, finished, reqs, current, stopping, done, committed,
                   applied, received, dropped>>

\* publish: never waits for an adapter.
Publish ==
    /\ loop = "publish"
    /\ queue' = [s \in Subs |-> IF Len(queue[s]) < SubBuf
                                THEN Append(queue[s], current) ELSE queue[s]]
    /\ dropped' = [s \in Subs |-> IF Len(queue[s]) < SubBuf
                                  THEN dropped[s] ELSE dropped[s] \cup {current}]
    /\ published' = published \cup {current}
    /\ loop' = "finish"
    /\ UNCHANGED <<callers, finished, reqs, current, stopping, done, committed,
                   applied, received>>

\* defer close(finished)
Finish ==
    /\ loop = "finish"
    /\ finished' = finished \cup {current}
    /\ current' = NoCaller
    /\ loop' = "select"
    /\ UNCHANGED <<callers, reqs, stopping, done, committed, applied, published, adapters>>

\* case <-ctx.Done(), with the final save of the cursors, which may fail
\* (Restart and Crash of CatchUp).
Stop ==
    /\ loop = "select"
    /\ stopping
    /\ loop' = "closing"
    /\ UNCHANGED <<callers, finished, reqs, current, stopping, done, committed,
                   applied, published, adapters>>

\* The deferred calls: the subscriptions are closed, then h.done.
CloseSubs ==
    /\ loop = "closing"
    /\ loop' = "closed"
    /\ UNCHANGED <<callers, finished, reqs, current, stopping, done, committed,
                   applied, published, adapters>>

CloseDone ==
    /\ loop = "closed"
    /\ loop' = "exited"
    /\ done' = TRUE
    /\ UNCHANGED <<callers, finished, reqs, current, stopping, committed, applied,
                   published, adapters>>

\* Work is what Run does whenever it can; Stop is its choice in the select.
Work == TakeJob \/ Commit \/ Rollback \/ After \/ Publish \/ Finish \/ Maintain
----------------------------------------------------------------------------
(* Around the loop *)

\* The process is told to stop.
Shutdown ==
    /\ ~stopping
    /\ stopping' = TRUE
    /\ UNCHANGED <<callers, finished, reqs, loop, current, done, committed, applied,
                   published, adapters>>

\* An adapter takes an event.  A closed channel still gives what it holds.
Receive(s) ==
    /\ queue[s] # <<>>
    /\ received' = [received EXCEPT ![s] = Append(@, Head(queue[s]))]
    /\ queue' = [queue EXCEPT ![s] = Tail(@)]
    /\ UNCHANGED <<callers, finished, reqs, loop, current, stopping, done, committed,
                   applied, published, dropped>>

Next ==
    \/ \E c \in Callers : Call(c) \/ Cancel(c) \/ Caller(c)
    \/ Work \/ Tick \/ Stop \/ CloseSubs \/ CloseDone
    \/ Shutdown
    \/ \E s \in Subs : Receive(s)

Spec == Init /\ [][Next]_vars

\* The Go runtime runs the callers and the loop.  In the select, Go chooses
\* uniformly among the ready cases: neither a request nor the end is put off
\* for ever.  Nothing is assumed of the adapters.
FairSpec ==
    /\ Spec
    /\ \A c \in Callers : WF_vars(Caller(c))
    /\ SF_vars(TakeJob)
    /\ WF_vars(Commit \/ Rollback \/ After \/ Publish \/ Finish \/ Maintain)
    /\ SF_vars(Stop)
    /\ WF_vars(CloseSubs \/ CloseDone)
----------------------------------------------------------------------------
(* Properties *)

Results == {"none", "nil", "error", "ErrClosed", "ctx.Err"}

TypeOK ==
    /\ pc \in [Callers -> {"idle", "sending", "waiting", "returned"}]
    /\ result \in [Callers -> Results]
    /\ err \in [Callers -> {"nil", "error"}]
    /\ cancelled \subseteq Callers
    /\ finished \subseteq Callers
    /\ reqs \in Seq(Callers)
    /\ loop \in {"maintain", "select", "transaction", "after", "publish", "finish",
                 "closing", "closed", "exited"}
    /\ current \in Callers \cup {NoCaller}
    /\ stopping \in BOOLEAN
    /\ done \in BOOLEAN
    /\ committed \in Seq(Callers)
    /\ applied \subseteq Callers
    /\ published \subseteq Callers
    /\ queue \in [Subs -> Seq(Callers)]
    /\ received \in [Subs -> Seq(Callers)]
    /\ dropped \in [Subs -> SUBSET Callers]

\* What update returns is what happened, however the call raced the end of the
\* loop: nil means that the request committed and that its memory changes and
\* events followed; an error, ErrClosed or the context's error means that the
\* request changed nothing, and never will.
ResultIsTrue ==
    \A c \in Callers :
        /\ result[c] = "nil" => c \in Range(committed) /\ c \in applied /\ c \in published
        /\ result[c] \in {"error", "ErrClosed", "ctx.Err"} => c \notin Range(committed)

\* The hub's memory follows its store: in-memory changes and events are those
\* of committed requests, and between requests all of them have been made.
MemoryFollowsStore ==
    /\ applied \subseteq Range(committed)
    /\ published \subseteq applied
    /\ current = NoCaller => published = Range(committed)

\* What log holds, it holds in the order of all.
InOrderOf(log, all) ==
    \A m, n \in DOMAIN log : m < n =>
        \E i, j \in DOMAIN all : i < j /\ all[i] = log[m] /\ all[j] = log[n]

\* Every event published reaches every adapter's queue or is counted as
\* dropped there, never both, and an adapter sees events once and in commit
\* order.
EventsAccounted ==
    \A s \in Subs :
        /\ dropped[s] \subseteq published
        /\ Range(received[s] \o queue[s]) = published \ dropped[s]
        /\ InOrderOf(received[s] \o queue[s], committed)

\* A call that was made returns: a caller is never left waiting for a loop that
\* has ended, and the loop is never held up by an adapter that does not read.
CallsReturn == \A c \in Callers : pc[c] = "sending" ~> pc[c] = "returned"

\* Once the process is told to stop, the hub stops.
Stops == stopping ~> done
============================================================================
