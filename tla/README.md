# A TLA+ model of the Go federation sender

This directory models `gofederation-worker`, a replacement for a Synapse
federation sender: it follows Synapse's replication stream, decides which remote
servers an event or an ephemeral update (EDU) concerns, and delivers it to them
over HTTP, one transaction at a time per server, with backoff and catch-up.

Everything is in this directory: modules (`*.tla`), TLC configurations
(`*.cfg`), and `PROJECT.json`, which ties each definition to the source lines it
models, each run to its properties, and each property to a seeded fault it
detects. To run something:

    tlc -workers 2 -config MCDestination_pdus.cfg MCDestination
    tlapm Destination_proofs.tla

Paths below are relative to the repository.

## 1. The system

Only the mode in which the worker is the primary sender is modelled: it writes
Synapse's tables and dials remote servers. A shadow runs the same code with a
sink that answers without dialling (`DryRunSend` in `HttpSink`).

| component | state it keeps | operations | talks to |
|---|---|---|---|
| replication client, `internal/replication` | positions, liveness, rows pending per stream | Run, session, handleRDATA, handlePOSITION | calls the handler from its goroutine |
| handler, `cmd/gofederation-worker/handler.go` | none | OnRows, OnPosition, OnRemoteServerUp | pokes the sender, feeds typing, receipts, presence, devices |
| event pickup, `internal/sender/sender.go`, `event.go` | lastPoked, wake, the events cursor | NotifyNewEvents, Run, seed, processBatch, handleEvents, handleEvent | reads Synapse's events, writes both positions and `destination_rooms`, enqueues PDUs |
| device senders, `devices.go`, `devicelist.go` | per-destination cursors | read an outbox page, enqueue marked EDUs | queue, own state, outbox tables |
| typing, `typing.go` | who types where, last announcement | HandleRows, diff, KeepAlive, Run, push | keyed EDUs to the queue |
| receipts and presence, `ephemeral.go` | none | fan out | merging EDUs to the queue |
| queue, `internal/queue` | per destination: pending PDUs and EDUs, running, newData, catching-up state, hold timer | Enqueue*, TryStart, Run, SendCatchUp, Release | sink, retry limiter, writer callbacks |
| manager, `queue/manager.go` | map of destinations, slots | Get, Wake, Start | spawns transmission loops |
| catch-up, `sender/catchup.go` | the sweep's local cursor and page | Run, sweep, Destination | reads `destination_rooms`, claims a destination, sends through it |
| retry limiter, `internal/retry` | timings, cooldown, refusals per destination | Due, Success, Failure, Refused, RateLimited, Recovered | asked by queue, catch-up and producers; persisted by writer.go |
| writer callbacks, `cmd/.../writer.go` | none | onDelivered, onEDUsDelivered, onSendOutcome, recordRoutes, recordPosition | Synapse's tables and our own |
| stores, `internal/store`, `internal/state` | rows in PostgreSQL | reads, conditional upserts, deletes | everyone |
| sink, `internal/sink` | resolve cache | Send, one attempt, rate-limit delay | the remote server |
| resolution, `internal/destinations`; `sharding`; `txn` | host cache | pure functions of the event and the room | event routing |
| configuration, logs, metrics, capture and comparison tools | - | - | not part of delivery |

**What is hard here.** Each destination is worked on by a transmission loop, a
catch-up goroutine, a flush timer and any number of producers, sharing one mutex
that is given back around every network and database call. State decided before
such a call is used after it: the batch that was taken is dequeued by *number*,
a loop that has decided to exit gives up its claim in a later critical section,
catch-up reads a page and finishes on what it read. Delivery is at least once
and survives crashes only through three records written at different moments
(`destination_rooms`, the destination's cursor, the events position), each of
which may be written and its answer lost. A remote may answer, refuse, rate
limit, or process a transaction whose answer never arrives. What is read is
read while Synapse writes it: a maximum is taken over transactions still open, a
room's hosts come from two tables that change in between, and the replication
channel keeps nothing for a subscriber that was away. `PROJECT.json`
lists 40 hazards with the lines where they bite.

**What makes it correct.** One transaction at a time per destination; every
event handed over is queued, delivered, or left to catch-up; a cursor names only
what was delivered and passes only what is recorded; what is owed is eventually
delivered; an outbox row is not deleted while its unit is still to be sent; no
older update of a fact follows a newer one; a claim is always given back; a
backoff neither grows without failures nor is forgotten over a restart; no
position is passed unread; of a batch of replication rows what is handed over is
consecutive and reaches the batch's end; a typing indicator is on exactly while
its user types; an outbox cursor passes nothing that was not queued, and a
device update refers to one that was sent or given up; a route that is not
marked approximate is the room before the event; a send ends, and waits between
its attempts.

## 2. The modules

    Backoff <---(implements)--- RetryLimiter <--- RetryLimiter_proofs   MCRetryLimiter
       ^
    Destination ----> EDUQueue                                          MCDestination
       ^    ^--- Destination_proofs
       |              ^
    CatchUp <--- CatchUp_proofs                                         MCCatchUp
    EventPickup <--- EventPickup_proofs                                 MCEventPickup
    Streams ----> Replication, Typing                                   MCStreams
       ^--- Streams_proofs
    DeviceOutbox <--- DeviceOutbox_proofs                               MCDeviceOutbox
    HttpSink ----> ResolveCache                                         MCHttpSink
       ^--- HttpSink_proofs
    Routing ----> RoomState                                             MCRouting
       ^--- Routing_proofs

**Backoff** is the abstract contract of `retry.Limiter` for one destination,
without clocks: whether there is an interval and of which class (none, at most
the hour that separates a hiccup from a long outage, or more), whether it has
run out, whether the last failure was an answer, whether a 429 cooldown runs.
`Destination` and `CatchUp` use it as their limiter.

**RetryLimiter** is the limiter itself: clock, intervals that grow and are
capped, cooldowns, the lazily read row, our row and Synapse's written after the
lock is given back by two possible callers, failing writes, restarts. Two
goroutines dial. The transmission loop asks `Due` and sends under one claim, which
is one step (`StartAttempt`). Catch-up asks (`SweepAsks`: the sweep, the
destination, each page) and then claims for each event of the page without asking
again (`CatchUpDials`); `sweep` says whether the loop has failed since the answer.
`heard`, `outage` and `intact` are history: whether this process has cleared or cut
the backoff, the first and last failed attempt since a success, and whether the
limiter was told all of it. Checked to implement `Backoff` under the mapping `Seen`.

**EDUQueue** has the operators on the pending slice of EDUs: the marked append,
the keyed replacement (typing), the receipt and presence merges, the prefix
taken for a transaction, the ephemeral drop of a long outage. A unit's content is
a function from slots to versions; versions are a global counter of updates, so
that "newer" has a meaning.

**Destination** is `queue.Destination` with its producers, `Manager.Wake` and
the goroutine it spawns, `SendCatchUp`, the flush timer, REMOTE_SERVER_UP and
shutdown. A step is one critical section of `d.mu` or one call made outside it:
`loop` is the program counter of `Run` (`gate`, `outage`, `restart`, `take`,
`recheck`, `send`, `retry`, `dequeue`, `marks`, `cursor`, `persist`, `exit`),
`claim` that of `SendCatchUp`. `wakers` counts callers between their enqueue and
their `Wake`. `remote`, `posted` and `dropped` are history.

**CatchUp** composes `Destination` with the event router's side of one
destination (retry filter, `destination_rooms`, fan-out, in room order), with
`CatchUp.Destination` read by read, and with crashes of the worker, after which
any routed event may be routed again.

**EventPickup** is `Sender` from the poke to the fan-out for several
destinations: the seed, passes over batches limited in size, rooms handled
concurrently and cancelled by one another's errors, every database call with
its failure (and its write applied or not), the events cursor and Synapse's copy
of it, crashes. Synapse's side is external: events commit out of order with up to
`Overlap` transactions open, may be rolled back or purged, and a position is
announced once everything below it is settled. `unseen` remembers the orderings
that were open below the maximum read by `seed`.

**Replication** is the subscriber: sessions with their delay, the client
library's own reconnects below a session, "batch" rows that are buffered and the
numeric token that hands them over, POSITIONs, rows under our own instance name.
Writers and Redis are external: a batch goes out row by row, and what nobody
listens to is gone. `torn` remembers the streams that lost a message inside a
session, where no subscriber could know.

**Typing** is `sender.Typing`: the diff under the lock, the bounded work channel
and its drops, the ticker, the keep-alive's decision and its submits after the
lock, the one consumer with its push and the announcement it records. Time is
counted in ticks of the ticker. `fate` and `tried` are history: what became of
the newest change of a member, and since when nobody tried to announce it.

**Streams** composes the two with `handler.OnRows` and `OnPosition`, and with a
typing writer that owns the truth and may restart with its tokens beginning anew.

**DeviceOutbox** follows both device tables from Synapse's commit to the deletion
of the rows, for one server: an announced row starts a goroutine that reads the
maximum, the cursor, a limited batch and (for device lists) the last successes,
queues the units one lock at a time, the last one marked, and saves the cursor;
the transmission loop sends prefixes and deletes by mark. Faults are writes that
fail, a long outage that sheds unmarked units, and crashes. `excused` collects the
rows that these, or a read above an open transaction, cost.

**ResolveCache** and **HttpSink** are `sink.Router` and `HTTP.Send` over the
resolution cache: attempts, 429s and their limit, waits, cancellation, durations
that wrap; a server that moves and a `.well-known` that fails and comes back.

**RoomState** holds Synapse's tables about one room, and beside them the truth:
events with forks, state groups and their chains of deltas, forward extremities,
purged rows, and a faster join that ends in three writes. Its queries are the
worker's. **Routing** is `handleEvent` up to its filters, `Eligible`, `Resolve`
with the cache of hosts, and a receipt's `roomHosts`, one query per step. `stayed`
and `stayedFor` are history: the servers that were there when an event was made,
or a receipt came, and have been since.

`*_proofs` hold the theorems; `MC*` give constants their values.

### Correspondence that is not one to one

- `Destination.Run`'s `TryStart`, decision to exit and deferred release are
  separate steps because the lock is given back in between.
- `reportOutcome` happens at the end of `send` in the code and is part of
  `SendOutcome`: the limiter's update, the outcome and the remote's processing
  are one step, the writes of the row being `RetryLimiter`'s concern.
- The retry filter of `CatchUp` may give either verdict, because it reads
  Synapse's row, which lags the limiter; in `EventPickup` the row is a variable
  that changes on its own.
- `MaxRoomConcurrency` only restricts which rooms run together; all rooms of a
  batch may, in the model.
- `RoutesOf` stands for `Eligible`, `Resolve`, the shard filter and
  `SerialisePDU`: functions of the event, not of the loop.
- `DeviceOutbox` and `EventPickup` have queues of their own instead of
  `Destination`'s: what they need of it (units are appended, sent from the head and
  removed by number, marks included) is what `Destination` is checked and proved to
  do. A transaction is one step there.
- `HttpSink`'s results are the `Outcomes` of `Destination`.
- The event's goroutine and the receipt's share nothing but Synapse's tables, so a
  behaviour of `Routing` has one of them.
- An announcement that `ourShare` drops during a backoff is one that is never
  handled in `DeviceOutbox`.
- Presence, receipts and ready-made EDUs reach `Destination` as `Enqueue*` in any
  order, which is what a goroutine per batch of rows amounts to.
- Calls that only log, count or time are left out.

## 3. The runs

The violating run shows a disagreement between the code and what a comment says
of it; section 6 has it, and the others that need no run of their own.

| run | configuration | shows |
|---|---|---|
| `pdus` | MCDestination_pdus | `OneTransaction`, `TakenIsHead`, `EveryPDUAccounted`, `CursorIsTrue` with all five answers of the remote, catch-up, REMOTE_SERVER_UP, shutdown |
| `edus` | MCDestination_edus | `TakenIsHead`, `EveryDeviceUnitAccounted`, `DeletedRowsLeftTheQueue`, `NoStaleDuplicate`, `MergeKeepsNewest`, `HeldPresenceHasTimer` with every kind of EDU |
| `live` | MCDestination_live | `ClaimGivenBack`, `CatchUpRewakes` under fairness |
| `limiter` | MCRetryLimiter | `ImplementsBackoff` (refinement), `RestartRemembersBackoff`, `OutageRemembered` with both dialers, failing writes and reads, a restart |
| `oneroom` | MCCatchUp_oneroom | `NoOwedRoomPassed`: the cursor passes no recorded event that was not delivered, for a single room |
| `catchup_live` | MCCatchUp_live | `OwedIsDelivered` over two crashes |
| `pickup` | MCEventPickup | `PassedEventIsOwed`, `PassedEventIsQueued`, `FirstArrivalsInOrder`, `PositionNeverAhead`, `NoPokeLost` |
| `streams` | MCStreams | `BatchIsWhole`, `RemembersTheWriter`, `LastNoticeIsTrue`, `IndicatorKept` over lost sessions, torn batches, dropped notices and a restarted writer |
| `outbox` | MCDeviceOutbox | `CursorPassesNothing`, `DeletedWasReceived`, `PrevIdWasSent` with two readers, late commits, cut batches, failed writes, outages and crashes |
| `sink` | MCHttpSink | `WaitIsSane`, `FallbackForgotten`, and `SendReturns` under fairness |
| `routing` | MCRouting | `ExactIsExact`, `StableMemberReached` over forks, purges, rescinded invites and the end of a faster join |
| `passed` | MCCatchUp_passed | a violation, section 6 |

### Bounds, and why they are enough for the cases of interest

- `pdus`: two events and transactions of one PDU, so that a batch and a rest
  coexist; one catch-up transaction and one REMOTE_SERVER_UP, each able to meet
  the loop at any of its steps. Events arrive in either order.
- `edus`: three updates over two users, two receipt threads, a typing key and
  both device types, transactions of two units and a presence hold of two
  states: enough for a merge into the first, the second or no unit, before,
  during and after a take, and for an update behind a full unit. Users and
  threads are interchangeable and used only as identities (symmetry).
- `live`: one event, one update, one catch-up: liveness needs no more than one
  of each to be left behind.
- `limiter`: intervals of 2 and 3 around an hour of 2 (so both classes, the cap and
  the cut to an hour are reached), hints of 0 and 9 around a cap of 2, four ticks,
  one REMOTE_SERVER_UP, one restart. The second failure comes at the end of the
  first interval at the earliest, or in the middle of it, from a catch-up that asked
  before; then there is time left for a restart that reads either row back.
- `oneroom`, `catchup_live`: pages of one event; one crash anywhere with two
  events, two crashes with one. To-device messages wait in the outbox, so the
  sweep may also come when no event is owed.
- `pickup`: four events in two alternating rooms, a limit of two (a full batch, a
  batch that ends exactly at the window's end, a short one, an empty window), an
  event that goes nowhere, one destination, and one each of a lost event, a
  failing call, a change of backoff, a crash.
- `streams`: two rooms and two users, one of them ours, batches of up to two rows,
  a channel of two notices (so that it can be full), one break: a lost
  connection, a session that ends or a writer that restarts. An interval of one
  tick and a time-out of three keep the proportion in which the ticker, the
  interval and the remote's time-out stand.
- `outbox`: three rows in the two tables, committed in any order, batches of two,
  transactions of one EDU, two goroutines, one fault: a batch that is cut, one that
  is not, and a transaction that ends inside either.
- `sink`: a clock of six units over periods of one to six in the order of the real
  ones; three retries around a shift that fits two; durations that wrap at 128,
  which the uncapped shift and the largest Retry-After both exceed. `HttpSink`
  keeps no clock during a send: a wait takes any time.
- `routing`: four events (three after a faster join) with forks of two prev events,
  two membership changes, an ineligible event, one purge; a user of ours and one
  on each of two servers; a cache of one entry; chains of two groups. Two servers
  suffice for one to be in the join's list and the other not.

Deadlock is not checked where every bound can be used up: the system then rests
with nothing to do, and the code's goroutines wait. What must not rest is said by
the liveness properties, `HeldPresenceHasTimer` and `NoPokeLost`.

### Fairness

`Destination!Fairness` is weak fairness of each goroutine that can run: the Go
scheduler runs it, sends have deadlines, and the timer fires. Nothing is assumed
of the remote: it may fail for ever. `HoldRunsOut` is the clock.

`CatchUpFairness` adds that the sweep's ticker comes round (strong fairness of
`StartSweep`: a tick that meets a backoff is followed by others), that a backoff
ends, and that a remote which is tried for ever answers sometime (strong fairness
of a delivery on either path). The last is not a property of the code but the
condition under which delivery can be promised at all. It is stated for a
destination whose row holds a cursor (`KnownInit`): `CatchUp.Destination` returns
at once for one that has none (catchup.go:192), so before its first successful
transaction a destination depends on the live path alone.

`SinkFair` is weak fairness of one send's own steps: every attempt has the
client's time-out, every wait is a timer. Nothing is assumed of the remote, the
`.well-known` or the clock.

## 4. What is proved

Every invariant that a passing run checks is a theorem, with `NoOwedRoomPassed`
for the one room its run has, and so is the refinement of the limiter: they hold for
every value of the constants that satisfies the assumptions named in the modules
(`DestinationAssumption`, `EDUQueueAssumption`, `CatchUpAssumption`,
`PickupAssumption`, `RetryLimiterAssumption`, `ReplicationAssumption`,
`TypingAssumption`, `StreamsAssumption`, `HttpSinkAssumption`,
`ResolveCacheAssumption`, `DeviceOutboxAssumption`, `RoomAssumption`,
`RoutingAssumption`). They say that sizes are natural numbers, limits
positive, minima below maxima, rooms and users finitely many, and that the
periods stand in the order of the code's constants. One of them is an arithmetic
fact about the code's constants that the provers cannot compute, because they know
nothing of powers: no shift up to the largest attempt overflows.

| theorem | statement | invariant it rests on |
|---|---|---|
| `OneTransactionAlways` | `Spec => []OneTransaction` | inductive as it stands |
| `TypeAlways` | `Spec => []TypeOK` | with `NamesAPDU`: the loop reaches the cursor only with a batch that has events, and a claim names one |
| `TakenIsHeadAlways` | `Spec => []TakenIsHead` | with `BatchDelivered` |
| `EveryPDUAccountedAlways` | `Spec => []EveryPDUAccounted` | from `TypeOK`, `TakenIsHead`, `BatchDelivered` |
| `CursorIsTrueAlways` | `Spec => []CursorIsTrue` | `CursorInv`, which adds the pending write of either path |
| `NoStaleDuplicateAlways` | `Spec => []NoStaleDuplicate` | `EDUsTidy`, which also relates every version to the counter of updates |
| `EveryDeviceUnitAccountedAlways` | `Spec => []EveryDeviceUnitAccounted` | `EDUInv` |
| `DeletedRowsLeftTheQueueAlways` | `Spec => []DeletedRowsLeftTheQueue` | `EDUInv` |
| `MergeKeepsNewestAlways` | `Spec => []MergeKeepsNewest` | `EDUInv` |
| `HeldPresenceHasTimerAlways` | `Spec => []HeldPresenceHasTimer` | `HoldInv` |
| `LimiterTypeAlways` | `Spec => []LimiterTypeOK` | inductive |
| `OutageRememberedAlways` | `Spec => []OutageRemembered` | `LimiterInv` with `OutageOnRecord` |
| `RestartRemembersBackoffAlways` | `Spec => RestartRemembersBackoff` | `LimiterInv` with `RowRemembered` |
| `RefinesBackoff` | `Spec => ImplementsBackoff` | `LimiterInv`, action by action |
| `CatchUpTypeAlways` | `CatchUpSpec => []CatchUpTypeOK` | `DestinationInv`, `SweepType` |
| `OneTransactionThroughCrashes`, `TakenIsHeadThroughCrashes` | the same under `CatchUpSpec` | `DestinationInv` |
| `OneRoomNotPassed` | one room: `CatchUpSpec => []NoOwedRoomPassed` | `OnRecord`, `RowsOwn` |
| `PickupTypeAlways` | `PickupSpec => []PickupTypeOK` | inductive |
| `PassedEventIsOwedAlways`, `PositionNeverAheadAlways` | `PickupSpec => []PassedEventIsOwed`, `[]PositionNeverAhead` | `PickupInv` |
| `NoPokeLostAlways` | `PickupSpec => []NoPokeLost` | `PokeInv` |
| `PassedEventIsQueuedAlways`, `FirstArrivalsInOrderAlways` | `PickupSpec => []PassedEventIsQueued`, `[]FirstArrivalsInOrder` | `OrderInv` |
| `BatchIsWholeAlways` | `StreamsSpec => []BatchIsWhole` | `ReplicationInv` |
| `RemembersTheWriterAlways` | `StreamsSpec => []RemembersTheWriter` | `RememberInv` |
| `StreamsTypeAlways` | `StreamsSpec => []StreamsTypeOK` | `StreamsInv` |
| `IndicatorKeptAlways` | `StreamsSpec => []IndicatorKept` | `KeepInv` |
| `LastNoticeIsTrueAlways` | `StreamsSpec => []LastNoticeIsTrue` | `NoticeInv` |
| `WaitIsSaneAlways`, `FallbackForgottenAlways` | `SinkSpec => []WaitIsSane`, `[]FallbackForgotten` | `SinkInv` |
| `OutboxTypeAlways` | `OutboxSpec => []OutboxTypeOK` | with `TablesBounded` and the marks: a cursor and a deletion stay among the rows there are |
| `CursorPassesNothingAlways` | `OutboxSpec => []CursorPassesNothing` | `CursorCovered`, `ReadersCover` |
| `DeletedWasReceivedAlways` | `OutboxSpec => []DeletedWasReceived` | `MarksCovered`, `DeletingCovered` |
| `PrevIdWasSentAlways` | `OutboxSpec => []PrevIdWasSent` | `LastWasSent`, `QueueRefers`, `UnitsRefer` |
| `RoutingTypeAlways` | `RoutingSpec => []RoutingTypeOK` | `RoutingInv`, `RoutesTyped` |
| `ExactIsExactAlways` | `RoutingSpec => []ExactIsExact` | `TablesTrue`, `CacheTrue`, `ResolverShape` |
| `StableMemberReachedAlways` | `RoutingSpec => []StableMemberReached` | `StayedKnown`, `ReceiptShape`, `TablesTrue` |

*The queue.* `Destination_proofs` begins with the merges, and shows once for each
producer that it extends the slice: no unit already queued is moved, removed, or changes its mark
(`AppendMarkedExtends`, `ReplaceKeyedExtends`, `MergeReceiptExtends`,
`MergePresenceExtends`). That is the fact that makes removal by number right, and
`TakenIsHead` follows by cases on the loop's steps. `TakenIsHead` alone does not
give `EveryPDUAccounted`: `BatchDelivered` says that a batch at `dequeue` has
been processed, so that what leaves the queue has arrived.

*EDUs.* A unit in the slice may differ from the copy that was taken, because
producers merge into it. `DeviceUnitsAsTaken` says that a device unit does not, so
that a dequeued one was processed as it was queued; `MarksBehind` that
what stays in the queue once the batch is gone has ids above every mark consumed
or about to be. Together they give the deletion of rows its safety.
`HoldInv` shows that the limiter's gate stays open during a hold (a transaction
ends the hold before it can fail), which is why a fired timer finds a loop that
sends. A catch-up transaction breaks that argument, so the property asks for none.

*The limiter.* `GoodTimings` (a run of failures began before its last one, which
is past, and there is an interval exactly when there was a failure) holds for the
timings in memory, in both rows and in the hands of both writers. `RowRemembered`
is what a restart needs: until the process has heard from the server, our row, if it
could be read, never rules out more than the memory does, and a catch-up that was
told to go on and was not overtaken by a failure may still dial. After a success
the row may lag (its write can fail), so nothing is claimed then. `OutageOnRecord`
is what an outage's dates need: while nothing was lost, they are in the timings in
memory, and in the row a restart would read unless a write of ours is on its way;
without a row of ours nothing of ours is in Synapse's either. The refinement treats
each action with what `Seen` makes of it; a restart is a `Reload` of the contract,
every other step a step of `NextBackoff` or none. A tick may end an interval and a
cooldown at once, because a catch-up's dial can fail inside a cooldown; the
contract's `WaitRunsOut` allows it.

*Catch-up.* A crash resets the destination and keeps its tables and the remote.
`CursorIsTrue` does not survive it (the local copy of the cursor starts over);
`DestinationInv` keeps the half that does. `OnRecord` says that nothing is
sent, queued, or on a page before its room's row has reached it: so the cursor
never exceeds the row of its own room, and with one room a row at or below the
cursor *is* the cursor. With two rooms the last step fails, which is the run
`passed`.

*The pickup loop.* `PassedEventIsOwed` needs to know why the cursor may move to
`next`. `PickupInv` adds that a pass starts at the cursor and works within what it
was told (`PassStartsAtCursor`), that the batch holds every committed event
between the two (`BatchCovers`), that an event counts as handled after its record
was written (`HandledIsOwed`), and that whatever is still open below a position
the loop works towards was open when `seed` read it (`OpenIsUnseen`): without the
last, an event could commit behind the window that was read. Which is exactly
what happens to the events the theorem excludes, see `SeedIsALowerBound` in
section 6. `NoPokeLost` rests on `PokeServed`: a pass that has no wake-up waiting
works towards the newest position announced. The order within a room rests on
`NoneOvertaken`: whatever lies between the cursor and an event already queued, in
the same room and for the same server, was queued or held back before, also by a
pass that failed.

*Replication.* `Chained` follows a batch from the writer to the buffer: in a stream
that is not torn, the rows buffered are consecutive rows of one batch, and each
row that is buffered or in the channel is followed by its successor in the
channel or is the last its writer has published. Handing over at the numeric
token then hands over a whole end of a batch. That a room's remembered set is true
needs more than the last row handled: `RememberInv` says of *every* row on its
way that it was issued, and that it is true if it is its room's newest.

*Typing.* `KeepInv` counts: an announcement that is due is coming, or was
tried within an interval and a tick. `NoticeInv` says of every member what the
channel holds: the last change pending is the truth (`PendingIsTrue`), and if there
is none the last notice queued is (`SaidIsTrue`). The proof showed that
`LastNoticeIsTrue` needs no exception for notices on their way.

*The sink.* `AskedIsCapped` keeps what a remote asked for within its cap until the
wait is computed; `FallbackIsShort` bounds a fallback's expiry from the moment it is
stored, and from the moment the `.well-known` came back, whichever is later.

*Device outbox.* Everything is one notion, `Covered(t, n, S)`: each of our server's
rows among the first `n` of the table is in `S`. A saved cursor is covered by what
is done (processed or excused) or queued; a mark by what is done or queued up to and
with its own unit (`MarksIn`), which is why a transaction that cuts the queue
anywhere may delete by the marks it carried; a goroutine's next position by those
and what it has in hand (`Covers`). All of these survive because what is done never gets less, and a
unit leaves the queue only from its head, when it becomes done, or in an outage or a
crash, when it becomes excused. Two
goroutines need no order between them, because each covers its whole range from a
place the cursor has reached. It is necessary that the mark sits on the *last* unit of
a read, and that a row uncommitted at the read is excused. A prev_id refers to what is
done or stands in front (`RefersIn`); that the last success is done (`LastWasSent`)
comes from `DeletingCovered`. Done includes given up: of a batch [1, 2] whose
unmarked unit 1 is shed in a long outage, unit 2 stays with prev_id 1, and the
server is referred to an update it never gets. It sees the gap and asks for the whole
list. What is excluded is a link to anything that was never a poke of that user, or
that is still behind it.

*Routing.* `StateAt` walks edges by a recursive function. `ChainsExist` shows that
there is such a function for any table whose groups hang on older ones, by the
least length for which there would be none, and `ChainKept` that the walk does not
depend on groups appended later. Hence the statements `StateOfFull` and
`StateOfStep` about a group that stands alone and one that hangs on another, and the
notion the invariant is made of: `Holds(groups, g, st)`, the state at `g` is `st`,
which no later write disturbs (`HoldsLater`). `TablesTrue` says when the tables
are the truth: an event's group once the events' state has been fetched, the current
state once that has, and the join's list goes last. `PersistTrue` shows that Synapse
keeps it so, through forks, new chains and full snapshots. What a goroutine has read
stays true: the group it asks for holds the state before its event, also after a
purge took the row it came from; so does every entry of the cache. The receipt's
half rests on the order of the two reads: whoever is known is on the list that was
read, or the list is gone and the current state, read second, is the truth. Its
proof needs "known of": in a partial room a server whose one known user leaves
while another, never seen, stays is in neither list, and no order of reads finds it.

*Technique.* The provers have no induction over data. Facts that would need it
(that a slice has a first position with some property, that the sequence kept by
the ephemeral drop is one, that a finite set of rows has a newest) are stated with
quantifiers over positions and proved from a least element, which the
well-foundedness of `<` provides, or taken from the library's theorems on finite
sets.

*Only model-checked.* The liveness properties and everything under fairness
(`ClaimGivenBack`, `CatchUpRewakes`, `OwedIsDelivered`, `SendReturns`), because the
provers have neither fairness nor ENABLED. The disagreements of section 6 are
counterexamples, which TLC finds.

## 5. Faults the properties detect

Every property of a passing run has a seeded fault in `PROJECT.json`, an operator
next to the one it replaces, marked `Fault:` in the module: a claim that does not
look at `running`, a dequeue that miscounts, a truncated batch that resumes at the
window's end, a failed room that does not fail its batch, a wake-up dropped
because a pass is at work, a page that counts its boundary as owed, half a batch
kept over a session, a mark on every unit, a prev_id that points at a signing key,
a shift that overflows, the state group of the event instead of its predecessors',
two reads in the other order, and so on.

## 6. Where the code disagrees with what is said of it

The run `passed` ends in a counterexample: an event of one room left to catch-up
is passed by the cursor when the live path delivers a later event of another room
(queue.go:280), although "catch-up will find it there in stream order"
(queue.go:276).

Eight more are stated as properties next to the others and violated as well. To
see one, add the line named here to the configuration.

- `INVARIANT NothingStranded` in `MCDestination_pdus.cfg`: `Run` finds `newData`
  false and leaves; its deferred function clears `running` in another critical
  section. A producer in between loses `TryStart`, and its unit waits for the next
  wake (queue.go:477), although "that loop will see the newData flag TryStart set
  and go round again, so nothing is dropped" (manager.go:197).
- `INVARIANT DeletedRowsWereDelivered` in `MCDestination_edus.cfg`: only the last
  unit of an outbox read carries the mark; a long outage drops the others as
  ephemeral, and the delivered mark deletes the rows of all (queue.go:614 says that
  only typing, receipts and presence are discarded).
- `INVARIANT NewestUpdateKept` in `MCDestination_edus.cfg`: an update merged into a
  unit whose copy is on the wire is dequeued with it (ephemeral.go:31); compare
  `TestDataArrivingDuringASendIsNotLost`.
- `PROPERTY CatchUpHeedsBackoff` in `MCRetryLimiter.cfg`: catch-up asks once per
  page and `SendCatchUp` does not ask (queue.go:856). The loop can fail between the
  question and a send of that page; the send "dialled a destination the backoff had
  ruled out" (catchup.go:175). It is one dial: if it fails the catch-up ends, and if
  it succeeds the backoff is over.
  `RestartRemembersBackoff` leaves out exactly these dials (`sweep = "overtaken"`).
- `INVARIANT SeedIsALowerBound` in `MCEventPickup.cfg`: after a restart the loop
  reads up to the newest *committed* ordering; one still open below it is passed
  and never routed, although docs/shadow-safety.md:30 calls a seeded position "a
  lower bound".
- `INVARIANT KeepAliveNeverOvertakes` in `MCStreams.cfg`: the keep-alive decides
  under the lock and submits after it. A stop that is diffed and submitted in
  between is followed by the keep-alive's start, and the indicator stays on until
  the remote expires it, although "a keep-alive cannot overtake a stop and leave
  an indicator switched on" (typing.go:265).
- `INVARIANT GapIsNoticed` in `MCDeviceOutbox.cfg`: a poke that commits below the
  maximum already read is passed, and the user's next update names the one before
  it as its prev_id: the remote sees a chain without a gap, which prev_id is there
  to show (devicelist.go:18-22).
- `PROPERTY DownIsRecheckedSoon` in `MCHttpSink.cfg`: that a server delegates is
  remembered for two hours, its delegation is trusted for a day. When it expires
  while the `.well-known` is down, the fallback is kept for an hour and not for
  the two minutes of resolvecache.go:57.

Met while modelling, without a run of their own:

- queue.go:133 says the cursor moves to the highest ordering of a delivered
  transaction; queue.go:530 takes that of the last PDU, and rooms interleave.
- A 429 that meets an armed hold timer schedules nothing (queue.go:502-505):
  the earlier timer fires into the cooldown.
- REMOTE_SERVER_UP and a failed attempt can write the retry row in the other order
  than they changed the limiter (retry.go:376-380).
- A failed read of the retry row is remembered as no backoff (retry.go:226-235),
  although the comment says it is not cached.
- An event skipped between `TakeCatchUpSkipped` and `FinishCatchUp` is left to the
  next sweep (catchup.go:212-219).
- `Run` says that after an error "the cursor was not advanced, so the next poke
  retries" (sender.go:164): when `RecordPosition` fails it was, and Synapse's
  row stays behind until the next batch that has events.
- After a failed pass and a change of backoff, an event held back the first time
  can be queued behind a later event of its room (`FirstArrivalsInOrder` allows
  exactly this).
- The sweep lists destinations for their outbox rows too (destinations.go:153-156),
  but `CatchUp.Destination` sends events only. And the cursor moves on the read
  (devices.go:162), so after a failed deletion or a crash the rows are not read
  again: "the next pass sends them again" (writer.go:22-26) does not happen.
- A server that joins while the room is in partial state is not in the join's list,
  so events miss it until the resync ends; ephemeral.go:151 says that both paths
  err toward sending. `StableMemberReached` leaves those servers out
  (`KnownToJoin`), and for receipts those known by a user who left only (`Known`).
- Receipts and presence are queued by a goroutine per batch of rows
  (handler.go:141, 167): a later one can be queued first and is then replaced by
  the earlier.
- A POSITION's comment speaks of positions seeded from the database: `Seed`,
  `SetOnConnect` and `SetOnDrop` have no caller. The delay between sessions grows
  to 32 s, not thirty. Two writers of one stream that interleave their "batch"
  rows would share one buffer (`BatchIsWhole` asks for one writer per stream).
- A 429 is retried once; `maxRateLimitedAttempts`, 2, is called the number of
  retries (http.go:427). The jitter may exceed `MaxDelay` by two fifths. A
  Retry-After that overflows becomes negative and falls back to the ordinary
  delay: harmless.

## 7. What is not modelled

- The bodies of events and EDUs, JSON, signing, hashing, TLS, DNS.
- `takeLocked`'s encoding error, which no unit the producers build can cause;
  catch-up's unserialisable and missing events.
  An event that cannot be serialised is never recorded as owed, so catch-up can
  only meet one that Synapse recorded; it is stepped over. One purged between the
  two queries is gone from the next page.
- More than one destination competing for slots; several event writers (the
  handler takes the highest of their positions, so `Settled` is an assumption).
- Presence and ready-made EDUs of the federation stream: a parse and an enqueue,
  without state of their own.
- Configuration, the schema, opening of connections, metrics, logs, capture and
  comparison tools: no behaviour over time that delivery depends on.

## 8. Plan

Modelling is complete as far as delivery goes, and the invariants are proved; the
liveness properties stay with TLC. What would add to it is a manager with several
destinations and bounded slots, the one hazard that no module reaches
(manager.go:204).
