# ScotMesh chat: TLA+ models and proofs

ScotMesh chat is one chat room system reached in three ways: RRC links, LXMF
messages and NomadNet pages. This directory models its concurrent core and the
rules of its people and rooms, model-checks them with TLC and proves the main
safety properties with TLAPS.

## The system

| Part | State | Modules |
|---|---|---|
| hub loop (`hub/hub.go`) | request channel, per-adapter event queues | HubLoop |
| presence and catch-up (`hub/rooms.go`, `hub/maintain.go`) | `presence` (in memory), cursors (stored) | CatchUp |
| rooms and their commands (`hub/rooms.go`, `hub/cmd_rooms.go`, `store/rooms.go`) | rooms, room roles, invites | Rooms |
| people, linked apps, ranks, moderation (`hub/people.go`, `links.go`, `ranks.go`, `cmd_people.go`, `moderation.go`, `store/persons.go`) | persons, names, roles, codes, bans | People |
| LXMF settings (`hub/people.go`) | modes, LXMF cursors | Pause |
| LXMF group, sending (`lxmfgroup/group.go`, `hub/deliveries.go`, `store/group.go`) | deliveries, members, away marks, `inFlight`, `finished` | Delivery |
| LXMF group, receiving (`lxmfgroup/group.go`, `hub/post.go`) | inbox, `seenSet`, replies, post buckets | Inbox |
| RRC server, rooms (`rrcsrv`) | joined rooms, hold buffers, fan-out | RrcRoom |
| RRC server, links (`rrcsrv`, `hub/whispers.go`) | sessions, job and send queues, whispers | Sessions |

All writes go through one goroutine, the hub loop: a request is one function
and one SQLite transaction, and its events are published after the commit to
bounded queues that drop when full. The adapters run goroutines of their own
and call the hub; what they read may be stale by the time they act on it. That
is where the hard behaviours are, and `PROJECT.json` lists each at its line
under `hazards`: a round of the scheduler against the attempts that finish
during it, a join against the fan-out, a ban against HELLO, a caller against
the end of the loop, a crash against what is only in memory. Inside the hub
there is no concurrency; there the difficulty is long sequences of legal
requests, over apps that move between people and rooms that come and go.

HubLoop shows that a request is atomic, that memory and events follow the
commit and that callers are told the truth. Every other module relies on that:
in them one hub request is one action.

## Modules

**HubLoop.** A caller is one call of `update`: `Call`, then the two selects of
`do`. The loop's steps are one request: `TakeJob`, `Commit` or `Rollback`,
`After` (the functions queued with `then`), `Publish`, `Finish`
(`close(finished)`), and `Maintain`, `Stop` and the deferred closes. Where several
cases of a select are ready, any is taken. Whether the final save of the cursors
succeeds changes nothing in the loop; what it means for them is in CatchUp.

**Delivery.** Hub requests: `Post`, `DeleteMessages`, `Maintain`, `AddMember`,
`RemoveMember`, `RecordDelivery`. A round is `TakeSeq` (`snapshotSeq`),
`DueDeliveries` (the snapshot), then `SkipBusy` or `Dispatch` per row and
`EndRound`. A sender does `SendPart` or `SendFails`, then `RecordDelivery` or
`RecordFails`, then `Finish`. Time is abstract: `RetryDue`, `AwayExpires` and
`Age` are steps of the clock. `seq` is counted from the round's snapshot, because
it is compared with nothing else. A `DueDeliveries` that fails is a round
without rows. `Crash` keeps only the store.

**Promise** and **DeliveryRefines.** Promise says what the queue is for, without a
queue: a delivery is owed from the post on until it arrives, is given up on or is
cancelled; what became of it is final, and nothing is owed for ever.
DeliveryRefines maps Delivery to it. A delivery has arrived when all its parts
have been sent; one that was cancelled lingers while an attempt at it, or a row
its outcome put back, is still there.

**CatchUp** models one configured room: messages, RRC cursors and the count of
links per identity. A kick clears presence and leaves the cursor alone, as
`forgetPresence` does. `Restart` saves cursors and `Crash` does not; a shutdown
whose save fails is a `Crash`.

**RrcRoom** extends CatchUp with the event queue, the fan-out goroutine and one
session per link. Handlers are cut at the calls to the hub and at the points
where the session's mutex is given up. Links here are identified and welcomed.
`Sends` hands a message to the link's send queue, or the queue refuses it because
it is full or the session is closing; `lost[l]` keeps what was refused, with what
the hold buffer had no room for. `HubPartFails` is a `Part` or `Disconnect` whose
transaction fails: the session has left and the hub goes on counting the link,
which `leaked` keeps.

**Sessions** has what comes before and around that: transport callbacks queued
for a link's worker, with a goroutine for each lifecycle callback that finds the
queue full; the session from established to closed; HELLO with its ban check and
its backlog of whispers; the writer behind the send queue; keepalive; and the
fan-out of whispers and bans. Hub requests may fail: an `Identify` that fails
refuses the link as a ban does, a read of the backlog that fails ends it
(`unread`), and a mark that fails is only logged (`unmarked`, `failed`). Keepalive
looks at a session under its lock and then closes it, or sends a PING and in a
further step sets `pingSent`; `due` says that the time it waits for is over.

**People.** Identities (apps), the persons they make up, names, roles, bans and
link codes. Actions are the commands and requests that change them. `inside` is
whether an identity is in any room or in the group. Row IDs of persons are given
again once free, as SQLite does.

**Rooms.** One room that need not be in the configuration: its row, operators,
voices, bans, invites and links. Its founding, forgetting and pruning are the
point.

**Pause.** `lxmfPaused` is never stored. Joins, parts and the settings look
whether it has changed (`Watched`); posts, links, unlinks, kicks and restarts
change it, or what it counts, without looking (`Unwatched`).

**Inbox.** `OnMessage`, the receiver's `Handle`, `Identify`, `Post` and `Command`,
cut where it waits for the hub, and the token bucket of `allowPost`. `took[k]`
counts the posts allowed in the last `k` ticks. A message leaves the receiver
dealt with (`answered`) or with its sender left untold (`untold`).

**MC...** modules give constants values. **...Proofs** modules hold theorems.
Delivery's rest on **DeliveryCurrent**, those of Sessions on **SessionsSteps**, and
those of RrcRoom, in **RoomProofs**, on **CatchUpProofs**. **HubLoopProofs** is also
about Inbox and Rooms, and **PeopleProofs** about Pause.

History variables are read only by properties, except that `posts` numbers the
next message and, with `faults` and `changes`, bounds behaviours. They are
`posts`, `given`, `sent`, `resent`, `promised`, `gaveUp` (Delivery), `leftAt`,
`abrupt` (CatchUp), `got`, `lost`, `since`, `dropped`, `kicked`, `leaked` (RrcRoom),
`got`, `dropped`, `unread`, `unmarked`, `failed` (Sessions), `received`, `dropped`,
`applied`, `published` (HubLoop), `recorded`, `missed`, `due` (Pause) and `answered`,
`untold`, `ran`, `again`, `deleted`, `took` (Inbox). `lost`, `leaked` and `failed` also
bound the failures they count.

A request that is refused changes nothing and is no step. Ages and lengths of
time are expiries that may happen at any moment, except in Inbox, whose budget
counts ticks.

## Runs

| Run | Checks | Instance |
|---|---|---|
| `hub_calls` | `ResultIsTrue`, `MemoryFollowsStore`, `EventsAccounted`, `CallsReturn`, `Stops` | three callers, one subscription, channels of one |
| `delivery_parts` | `TypeOK`, `PartsSentOnce`, `NoDeliveryLost`, `AttemptIsCurrent`, `FinalIsFinal`, `KeepsPromise` | one member, two senders, a two-part message, a node, one fault, two changes |
| `delivery_live` | `Settles` | two members, one sender, one fault |
| `catchup_replay` | `TypeOK`, `MissedIsReplayed`, `OnlyMissedIsReplayed`, `CursorsOnlyAdvance` | two identities with up to two links, three messages, one crash or restart, two changes |
| `room_join` | `NothingLost`, `PresenceCountsLinks`, `NewSentOnce` | two links of one identity, two messages, a hold buffer of one, two refused messages, one failed part, one crash or restart |
| `room_live` | `NothingLost`, `NewSentOnce`, `Delivered` | one link, two messages, one refused, one failed part, one crash or restart, one kick or deletion |
| `room_removed` | `RemovedAreOut`, violated | one link, one kick |
| `sessions_links` | `NoGhosts`, `NoWhisperMissed`, `AtMostTwoCopies`, `BannedIsClosed`, `SilentLinksEnd` | one link with two frames, one whisper, one ban, a job queue of two and others of one, one failed mark of the backlog |
| `people_links` | `BannedAreOut`, `OwnedBySomeone`, `RoleNeedsApproval` | an owner's identity and two others, three row IDs, one name, two codes, two apps per person |
| `rooms_life` | `BannedAreOut`, `NoRightOutlivesTheRoom`, `AbandonedRoomsGo` | a member and a hub moderator with up to two links |
| `pause_notes` | `PausePointKept`, `NoteIsExact` | three apps, two messages |
| `inbox_copies` | `DeletedStaysDeleted`, `CommandsRunOnce`, `SeenIsAnswered`, `RateKept`, `ReceiverReturns` | a post, a join, a leave and a blank message, an inbox of one, a `seenSet` of two, a queue of one reply, two posts a minute of three ticks, one fault |

What they show, beside what each property's comment says:

- *hub_calls*: a caller may give up, the loop may stop, both at once, and the
  request's fate and the answer still agree. No reader of events can hold up the
  hub.
- *delivery_parts, delivery_live*: no interleaving of a round with finishing
  attempts sends a row from its old state; the whole is a correct implementation
  of Promise, liveness included.
- *room_join, room_live*: "nothing is lost" of a join holds for every order of
  replay, hold, flush and fan-out, but for the very messages that a full or closing
  queue refused: a refusal costs one link one message. "Nothing is sent twice"
  holds for what is said after the join. A part that fails, and nothing else short
  of a kick, puts the hub's count of links out, by one.
- *sessions_links*: a close that overtakes earlier callbacks leaves no welcomed
  session; a ban cannot slip between the check and the listing of a session. A
  whisper stays unsent only if its event was dropped, or a read or a mark of it
  failed, and is repeated only for marks of the backlog that failed.
- *people_links*: whatever order links, promotions, bans and expiries come in,
  nothing is left to nobody.
- *rooms_life*: what kicks and restarts leave behind, pruning removes.
- *inbox_copies*: while the `seenSet` remembers a message, no copy of it runs a
  command again or brings back what was deleted, which the store's own check of
  origins would allow. What it holds was dealt with, except where the code tells
  nobody.

**Bounds.** `MaxPosts`, `MaxFaults`, `MaxChanges`, `MaxLinks`, `MaxFrames`, `MaxLost`,
`MaxLeaks` and `MaxFailed` end behaviours; with them, and with calls that are made once, a model may stop where
the program would go on, and those runs do not check deadlock. People, Rooms,
Pause and Inbox never stop and do. One stale snapshot and one finishing attempt
make the scheduler's race; two rows and one sender make a round that ends early;
one message held and one fanned out make the join's race. `ReplayMax = 2` with
three messages reaches the truncated replay; `MaxHeld = 1`, `Buf = 2` and all
queues of one or two reach their limits, and three callers fill a channel of one
beside the request in hand. `Window` is the least `WindowCoversRound` allows; the
program has 2048 against 256 rows and its senders. `Limit = 1` reaches a full
snapshot. Three apps are a person with two and one more to link or unlink, and
three persons are all that three identities can be; one name is enough to be
claimed, released and claimed again, and two codes for a link to race another. A `seenSet` of two against
four messages evicts.

**Symmetry** is used for identities in `catchup_replay`, links in `room_join`,
apps in `pause_notes`, and persons, codes and the two ordinary identities in
`people_links`. None of these runs checks liveness.

**Fairness.** The goroutines run and the hub answers (all `Fair...` specs). In
Delivery a send returns with a proof or an error (direct and propagated sends
both time out in `third_party/reticulum-go/lxmf/delivery.go`), the ticker ticks
and the clock moves. In HubLoop, Go's select picks uniformly among ready cases,
so `TakeJob` and `Stop` are strongly fair. In Sessions the keepalive ticker ticks,
the keepalive finishes what it has begun, and time passes. In Rooms maintenance runs every minute and time passes. In
Inbox only the receiver is fair: nothing is assumed of the goroutines that
send replies. Nothing is assumed of the network, of people, of clients or of
adapters.

## Proofs

The theorems hold for all values of the constants that satisfy the named
assumptions: `HubConstants`; `ConstantsOK`, `WindowCoversRound` and
`NoJobIsNoWorker` (Delivery); `CatchUpConstants`; `RoomConstants`; `PeopleConstants`;
`PauseConstants`; `RoomsConstants` and `RoomsNone`; `InboxConstants`;
`SessionsConstants` and `NoneIsNoSession`. Those that say a `None` or `Nil` is
nothing else stand for the program's nil. A bound on the number of posts, links, faults
or frames may be any number. Leaves that need no arithmetic name Zenon, which is
the quicker there.

*Delivery.* `AttemptIsCurrent` is not inductive: whether a row may be dispatched
depends on the rest of the snapshot. `Inv` adds that a row of the snapshot is
current unless its key is busy, that keys in flight are those of the senders and
no two senders share one, and that the finish stamps of a round outlast it, which
needs `WindowCoversRound`: a round dispatches at most `Limit` rows beside the
attempts already under way. Further conjuncts tie the parts an attempt counts to
those confirmed. From `Inv` follow `TypeCorrect`, `NoStaleAttempt`, `SentOnce`,
`NothingLost` and `FinalStays`.

`PromiseKept`: while no ID is reused Delivery implements `PromiseSpec`, under
the mapping of DeliveryRefines. `Inv` is not enough: it allows a second attempt at
a delivery recorded as failed, which would arrive after it was given up on.
`PromiseInv` adds that such a delivery is over (`Over`): nobody works on it, its
row is not queued, and a snapshot that still has it finds its key busy. Then
`Post` maps to `Owe`, the last part confirmed to `Arrive`, a failure recorded to
`GiveUp`, and every other step, `Crash` included, to a `Cancel` or to nothing.

*CatchUp.* `Inv` adds that stored messages lie under the IDs they were given,
that IDs are in the order of posting while none is reused, that the cursor of
someone who is away is below all they missed, and that after an orderly leave
it reaches everything before. From it follow `TypeCorrect`, `NothingMissed`,
`NothingRepeated` and `CursorsAdvance`.

*RrcRoom.* `RoomIsCatchUp`: every step of the RRC server is a step of CatchUp or
leaves the hub's room alone, so the theorems above hold behind the server.
`RoomInv` adds to CatchUp's `Inv`:
- events are queued in the order of posting, and the one with the fan-out is
  before them (`QueueOK`);
- what a session holds comes, in the same order, before what is still ahead of
  it (`InTurn`): a message sent from the hold buffer has no event to come;
- while no ID is reused an event's ID is its message's (`IdsAreBodies`), so what
  `finishJoin` leaves out as seen was said before the join;
- a message comes to a link by the replay at most once and by its event at most
  once, and what was said after the join not by the replay (`OnceEach`).

From it follow `NothingEverLost`, `NewAlwaysSentOnce` and `PresenceAlwaysCounts`.
The last needs besides that a step changes the count of an identity's links, less
those it failed to take off, by as many sessions as it moves, which is one.

*HubLoop.* `ResultIsTrue` says nothing of a request whose caller has not been
told. `LoopInv` says for every request where it is (with its caller, in the
channel, in hand, finished; `Placed`), what has become of it there (`Progress`)
and what its caller may have been told (`Told`): after `ErrClosed` or a context's
error it is not in hand, not finished, and in the channel only if the loop is
done. From it follow `ResultIsAlwaysTrue` and `MemoryAlwaysFollows`.
`EventsAlwaysAccounted` needs besides
that the request being published is the last one committed: an event appended to
a queue is then later than all that are in it.

*Inbox.* `CommandsRunOnce` and `SeenIsAnswered` need each other (`SeenInv`): the
`seenSet` repeats nothing, holds the message in hand and every command that ran
and may not run again, so what leaves it by eviction or restart leaves both.
`DeletedStaysDeleted` rests on the same: a deleted message is in the `seenSet` and
not in hand, so no post of it is under way or can begin.
`RateKept` alone is not inductive, since it does not say what may still be
spent; `BudgetInv` adds the tokens left to the posts made. From them follow
`CommandsAlwaysRunOnce`, `SeenAlwaysAnswered`, `AlwaysStaysDeleted` and
`RateAlwaysKept`.

*People.* `PeopleInv` is the type invariant with `BannedAreOut` and
`OwnedBySomeone`, and it is inductive. The argument is which steps can leave a
person without apps. Unlinking, forgetting and bans give each app they take away a
row of its own and leave the person one (`Scattered`); only a link can empty a
person, and it takes the name, the role and the codes with it (`LinkStep`). From
it follow `BannedStayOut`, `NothingUnowned` and `RoleAlwaysNeedsApproval`.

*Pause.* `PausePointKept` needs that persons partition the apps (`Partition`).
Then the apps whose pause a join begins or a part ends are the ones
`autoPauseChanged` goes through, and an app already paused is not among them.
`PauseInv` adds that a recorded pause has a cursor. From it follow
`PausePointAlwaysKept` and `NoteAlwaysExact`.

*Rooms.* With the type of the row, `BannedAreOut` and `NoRightOutlivesTheRoom` are
inductive (`RoomsInv`). A request either writes the row of a room that exists and
takes nobody in who is banned (`RowWritten`), or deletes the room of which
nobody is left. From it follow `BannedAlwaysOut` and `NoRightEverOutlives`.

*Sessions.* Each property speaks of a link at rest, and its invariant says where
what it waits for is before that. `CloseAhead`: the close of a link that is down
waits in a goroutine, is in the queue with no data behind it, or has been handled
and nothing was welcomed since. `WhisperAhead`: a whisper not sent to a welcomed
link is an event, dropped, with the fan-out, in the worker's hand, or one of those
a failed read or mark left (`unread`, `unmarked`). `BanAhead`:
a session that is open and past its check has the ban's event still to come.
`TwoAtMost` counts, for a link and a whisper, copies received, copies in the send
queue and the ways left to send one, against two and the worker's failed marks. A step of one link leaves what these say of
the others as it is (`OnlyOf`). From `SessionsInv` follow `NeverGhosts`,
`WhisperNeverMissed`, `BannedAlwaysClosed` and `AlwaysTwoAtMost`.

Only model-checked: liveness (`Settles`, `Delivered`, `CallsReturn`, `Stops`,
`AbandonedRoomsGo`, `SilentLinksEnd`, `ReceiverReturns`), which is out of the
prover's reach, and the fairness in `KeepsPromise`; its safety part is
`PromiseKept`.

## Where the code and what is said of it differ

`room_removed` has a run: `hub/events.go:58` says a kick drops the links from the
room, and a join under way puts the link back. The rest were met while modelling;
properties that hold are stated so that they say what the code does guarantee.

Message IDs. `messages.id` is an `INTEGER PRIMARY KEY` without `AUTOINCREMENT`:
deleting the newest message makes its ID available again. Properties exclude this
by `~Reused`. A message under a reused ID can be skipped by a replay (README.md:
"exactly what was said since you disconnected"), and a late record can mark it
delivered.

LXMF.
- An outcome recorded after the member left or the message was deleted puts the
  row back (`hub/deliveries.go:122`; `RemoveMember` goes "with its unfinished
  deliveries"). Promise calls this lingering.
- A message whose `Identify` or `PersonOf` fails, or whose reply finds the queue
  full, counts as seen: its sender is not told and the copies to come are
  discarded (`group.go:227`: "one we could not read must still be handled when the
  client sends it again").
- A deleted message comes back if it is handed over again once the `seenSet` has
  forgotten it. A command then runs again.
- A ninth slow reply holds up the others, and replies to one person can change
  order.
- A pause that ends by a kick, a restart, an unlink or `/forget` ends without a
  note (ADR 0006), and linking an app to a person on RRC begins one without
  recording it.

RRC.
- A message committed before a join but not yet fanned out can be replayed and
  then sent live; `NewSentOnce` is the part of "nothing is sent twice" that holds.
- After `finishJoin`'s unlock the fan-out can send a newer message before the held
  ones.
- Leaving sets the cursor past a message still queued for the fan-out.
- A frame that a full or closing send queue refuses, and a message for which the
  hold buffer has no room, is counted in `FramesDropped` and lost to that link.
- A `Part` or `Disconnect` that fails leaves the identity counted as present until
  a kick or a restart: it is listed, gets no replay at its next join, and its
  cursor goes on being saved.
- A whisper whose mark fails is sent again from the backlog of the next HELLO; one
  whose backlog could not be read waits for it.
- `pingSent` is set after the PING has been queued: an answer handled in between
  is overwritten, and the link is closed after `PingTimeout` unless it says more.
- A kick's event handled after a rejoin drops the new membership of the session
  while the hub goes on counting it.
- A second HELLO after `HelloTimeout` can be closed by keepalive while it is being
  handled.

People and rooms.
- `linkDecide` does not compare ranks again, nor the number of apps (ADR 0007:
  "No redeeming upwards").
- `linkRedeem` looks at the ban of the identity that asked for the code, not of
  the person's other apps (ADR 0007: "Banned identities can't link or be linked").
- An app that has since become one of the person's by another code can approve
  the code it redeemed; if it is the last app by then, the name is released.
- `/release` leaves links in place (ADR 0007), and `/forget` from another app
  unlinks an owner's identity.
- A kick or a restart leaves an empty unregistered room until `pruneRooms`
  (`store/rooms.go:11`).
- `DeleteRoom` takes the row, the roles and the invites. Messages and cursors stay
  under the name: who joins the next room of the name is replayed what was said in
  the earlier one, until it is pruned by age. `NoRightOutlivesTheRoom` is about
  rights, and CatchUp about a name.

## Not modelled

- `whisper_deliveries`: whispers by LXMF take the path of Delivery with rows of
  their own. Blocking and reports of whispers are lists beside them.
- How often a delivery is retried, and other rates that need real time.
- Topics, room keys (a password compared at the join), private rooms (hidden from
  lists), the audit log, warnings and profiles: written and listed, and nothing
  else depends on them.
- Text: splitting of long messages, names and their skeletons, parsing of
  commands, help. A name in People stands for its skeleton.
- NomadNet pages render hub state, and their requests are hub requests.
- The wire codec, configuration, importer, migrations, backups and the command
  line are conversions and I/O. SQLite transactions are atomic.
- Reticulum (`third_party/reticulum-go`) appears only as sends that succeed or
  fail and callbacks that come in its order.
