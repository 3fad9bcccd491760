---------------------------- MODULE EventPickup ----------------------------
(***************************************************************************)
(* sender.Sender: from a poke on the replication stream to the events that *)
(* are recorded as owed and handed to the destinations' queues.            *)
(*                                                                         *)
(* A poke only says how far the events stream has got.  The loop reads the *)
(* events above its cursor from Synapse's database in batches, handles the *)
(* rooms of a batch concurrently and the events of a room in order, then   *)
(* moves the cursor and Synapse's copy of it.  Every database call may     *)
(* fail, with or without its write applied, and the worker may die between *)
(* any two calls.                                                          *)
(*                                                                         *)
(* Synapse is external: an event's row appears when its transaction        *)
(* commits, up to Overlap transactions are open at once, and a position is *)
(* announced when everything up to it is committed or given up.            *)
(***************************************************************************)
EXTENDS Naturals, Sequences, FiniteSets

CONSTANTS
  Orderings,    \* stream orderings
  Rooms,
  RoomOf,       \* the room of each event
  Servers,      \* destinations of our shard
  RoutesOf,     \* what Eligible, Resolve, the shard filter and SerialisePDU leave
  BatchLimit,
  Overlap,      \* bound: transactions open below a committed one
  MaxGone,      \* bound: transactions rolled back and events purged
  MaxFaults,    \* bound: database calls that fail
  MaxFlips,     \* bound: changes of a destination's backoff
  MaxCrashes    \* bound: restarts of the worker

ASSUME PickupAssumption ==
  /\ Orderings \subseteq Nat \ {0} /\ IsFiniteSet(Orderings)
  /\ RoomOf \in [Orderings -> Rooms]
  /\ RoutesOf \in [Orderings -> SUBSET Servers]
  /\ BatchLimit \in Nat \ {0}
  /\ {Overlap, MaxGone, MaxFaults, MaxFlips, MaxCrashes} \subseteq Nat

VARIABLES
  \* Synapse
  events,       \* what has become of each ordering
  backingOff,   \* destinations whose retry row rules them out
  \* the tables this worker writes
  known, cursor,  \* the events cursor: is there one, and its position
  outPos,         \* federation_stream_position
  routes,         \* our routing record: the newest ordering, per server and room
  destRooms,      \* Synapse's destination_rooms, likewise
  \* the running worker
  pc, lastPoked, wake, failed,
  from, upto, next, batch,
  step,         \* how far handleEvent is with each event of the batch
  due,          \* what the retry filter left of its destinations
  broken,       \* rooms whose goroutine returned an error
  \* history
  start,        \* where the first process began
  origin,       \* where this process began
  unseen,       \* orderings still open below the maximum that seed read
  queued,       \* what this process put on each queue, in order of arrival
  held,         \* what the retry filter kept from each queue
  faults, flips, crashes

synapse == <<events, backingOff>>
tables  == <<known, cursor, outPos, routes, destRooms>>
pass    == <<from, upto, next, batch, step, due, broken>>
history == <<start, origin, unseen, queued, held>>
bounds  == <<faults, flips, crashes>>
pickupVars ==
  <<synapse, tables, pc, lastPoked, wake, failed, pass, history, bounds>>

Positions == Orderings \cup {0}
Record == [Servers -> [Rooms -> Positions]]
Stages == {"waiting", "filtered", "noted", "owed", "done"}
Calls  == {"tip", "seed", "cursor", "query", "gap", "load", "rooms", "save", "position"}

(* One goroutine takes pokes; the other is between two database calls.     *)
PickupTypeOK ==
  /\ events \in [Orderings -> {"open", "stored", "gone"}]
  /\ backingOff \in SUBSET Servers
  /\ known \in BOOLEAN /\ {cursor, outPos} \subseteq Positions
  /\ routes \in Record /\ destRooms \in Record
  /\ pc \in Calls \cup {"down", "idle"}
  /\ lastPoked \in Positions /\ wake \in BOOLEAN /\ failed \in BOOLEAN
  /\ {from, upto, next} \subseteq Positions /\ batch \in SUBSET Orderings
  /\ step \in [Orderings -> Stages] /\ due \in [Orderings -> SUBSET Servers]
  /\ broken \in SUBSET Rooms
  /\ {start, origin} \subseteq Positions /\ unseen \in SUBSET Orderings
  /\ queued \in [Servers -> Seq(Orderings)] /\ held \in [Servers -> SUBSET Orderings]
  /\ faults \in 0..MaxFaults /\ flips \in 0..MaxFlips /\ crashes \in 0..MaxCrashes

Nothing == [s \in Servers |-> [r \in Rooms |-> 0]]
Unhandled == [o \in Orderings |-> "waiting"]
NoRoute == [o \in Orderings |-> {}]

(* A worker never run before, or one that replaces a sender at some point. *)
PickupInit ==
  /\ events = [o \in Orderings |-> "open"]
  /\ backingOff \in SUBSET Servers
  /\ known = FALSE /\ cursor = 0 /\ outPos = 0
  /\ routes = Nothing /\ destRooms = Nothing
  /\ pc = "down" /\ lastPoked = 0 /\ wake = FALSE /\ failed = FALSE
  /\ from = 0 /\ upto = 0 /\ next = 0 /\ batch = {}
  /\ step = Unhandled /\ due = NoRoute /\ broken = {}
  /\ start = 0 /\ origin = 0 /\ unseen = {}
  /\ queued = [s \in Servers |-> <<>>] /\ held = [s \in Servers |-> {}]
  /\ faults = 0 /\ flips = 0 /\ crashes = 0

HigherOf(a, b) == IF a > b THEN a ELSE b

(* The locals of seed, processBatch and handleEvents end with them.        *)
Return ==
  /\ from' = 0 /\ upto' = 0 /\ next' = 0 /\ batch' = {}
  /\ step' = Unhandled /\ due' = NoRoute /\ broken' = {}

-----------------------------------------------------------------------------
(* Synapse.                                                                *)

Settled(p) == \A o \in Orderings : o <= p => events[o] # "open"

OpenBelow(o) == {x \in Orderings : x < o /\ events[x] = "open"}

MayLose == Cardinality({o \in Orderings : events[o] = "gone"}) < MaxGone

(* An event's transaction commits, or is rolled back and leaves a gap.     *)
(* Synapse persists the events of one room one after the other.            *)
Commit(o) ==
  /\ events[o] = "open"
  /\ Cardinality(OpenBelow(o)) <= Overlap
  /\ \A x \in OpenBelow(o) : RoomOf[x] # RoomOf[o]
  /\ \/ events' = [events EXCEPT ![o] = "stored"]
     \/ MayLose /\ events' = [events EXCEPT ![o] = "gone"]
  /\ UNCHANGED <<backingOff, tables, pc, lastPoked, wake, failed, pass, history, bounds>>

(* A room's history is purged while a batch that names it is in hand.      *)
Purge(o) ==
  /\ pc = "load" /\ o \in batch /\ events[o] = "stored" /\ MayLose
  /\ events' = [events EXCEPT ![o] = "gone"]
  /\ UNCHANGED <<backingOff, tables, pc, lastPoked, wake, failed, pass, history, bounds>>

FlipBackoff(s) ==
  /\ flips < MaxFlips /\ flips' = flips + 1
  /\ backingOff' = IF s \in backingOff THEN backingOff \ {s} ELSE backingOff \cup {s}
  /\ UNCHANGED <<events, tables, pc, lastPoked, wake, failed, pass, history, faults, crashes>>

-----------------------------------------------------------------------------
(* Pokes.                                                                  *)

(* Fault: a poke that finds a pass at work leaves no wake-up behind.       *)
NotifyIfIdle(p) ==
  /\ pc # "down" /\ Settled(p)
  /\ lastPoked' = HigherOf(p, lastPoked)
  /\ wake' = (wake \/ pc = "idle")
  /\ UNCHANGED <<synapse, tables, pc, failed, pass, history, bounds>>

(* NotifyNewEvents, from OnRows and OnPosition.  A position may come late, *)
(* more than once or not at all.  The channel holds one wake-up; a second  *)
(* says nothing new.                                                       *)
NotifyNewEvents(p) ==
  /\ pc # "down" /\ Settled(p)
  /\ lastPoked' = HigherOf(p, lastPoked) /\ wake' = TRUE
  /\ UNCHANGED <<synapse, tables, pc, failed, pass, history, bounds>>

-----------------------------------------------------------------------------
(* Run and seed.                                                           *)

LastOf(S) == {o \in S : \A x \in S : x <= o}

(* The newest row of the table, 0 when there is none.                      *)
MaxStreamOrdering ==
  LET rows == {o \in Orderings : events[o] = "stored"}
  IN  IF rows = {} THEN {0} ELSE LastOf(rows)

Start ==
  /\ pc = "down" /\ pc' = "tip"
  /\ UNCHANGED <<synapse, tables, lastPoked, wake, failed, pass, history, bounds>>

SeedTip ==
  /\ pc = "tip" /\ pc' = "seed"
  /\ \E max \in MaxStreamOrdering :
       /\ lastPoked' = HigherOf(max, lastPoked) /\ next' = max
       /\ unseen' = unseen \cup OpenBelow(max)
  /\ UNCHANGED <<synapse, tables, wake, failed, from, upto, batch, step, due, broken,
                 start, origin, queued, held, bounds>>

(* The cursor is read for the log line; the loop is nudged.                *)
SeedCursor ==
  /\ pc = "seed" /\ pc' = "idle"
  /\ lastPoked' = HigherOf(next, lastPoked) /\ wake' = TRUE /\ Return
  /\ UNCHANGED <<synapse, tables, failed, history, bounds>>

Begin ==
  /\ pc = "idle" /\ wake
  /\ wake' = FALSE /\ failed' = FALSE /\ pc' = "cursor"
  /\ UNCHANGED <<synapse, tables, lastPoked, pass, history, bounds>>

-----------------------------------------------------------------------------
(* processBatch.                                                           *)

(* Cursors.Set: a cursor is never moved backwards.                         *)
Set(pos) == IF known THEN HigherOf(pos, cursor) ELSE pos

(* Never run before: start from the tip.                                   *)
StartFromTip ==
  /\ pc = "cursor" /\ ~known
  /\ known' = TRUE /\ cursor' = Set(lastPoked)
  /\ start' = lastPoked /\ origin' = lastPoked
  /\ UNCHANGED <<synapse, outPos, routes, destRooms, pc, lastPoked, wake, failed, pass,
                 unseen, queued, held, bounds>>

ReadCursor ==
  /\ pc = "cursor" /\ known
  /\ IF cursor >= lastPoked
     THEN pc' = "idle" /\ UNCHANGED <<from, upto>>
     ELSE pc' = "query" /\ from' = cursor /\ upto' = lastPoked
  /\ UNCHANGED <<synapse, tables, lastPoked, wake, failed, next, batch, step, due, broken,
                 history, bounds>>

Window == {o \in Orderings : from < o /\ o <= upto /\ events[o] = "stored"}

(* ORDER BY stream_ordering LIMIT: the one prefix of the window that is    *)
(* all of it or as long as the limit.                                      *)
Limited ==
  {rows \in SUBSET Window :
     /\ \A o \in rows, x \in Window : x < o => x \in rows
     /\ Cardinality(rows) <= BatchLimit
     /\ rows = Window \/ Cardinality(rows) = BatchLimit}

(* Fault: a truncated batch resumes from the window's end.                 *)
ResumeAtEnd(rows) == {upto}

(* Fault: a truncated batch resumes one past its last row.                 *)
ResumePast(rows) ==
  IF Cardinality(rows) = BatchLimit THEN {o + 1 : o \in LastOf(rows)} ELSE {upto}

(* Where the next batch resumes: the last row when the limit was hit.      *)
ResumeFrom(rows) == IF Cardinality(rows) = BatchLimit THEN LastOf(rows) ELSE {upto}

GetAllNewEventIDsStream ==
  /\ pc = "query"
  /\ \E rows \in Limited :
       /\ batch' = rows /\ next' \in ResumeFrom(rows)
       /\ pc' = IF rows = {} THEN "gap" ELSE "load"
  /\ UNCHANGED <<synapse, tables, lastPoked, wake, failed, from, upto, step, due, broken,
                 history, bounds>>

(* An empty window was a gap in the orderings: move past it.               *)
PassGap ==
  /\ pc = "gap"
  /\ cursor' = Set(next)
  /\ pc' = (IF next < upto THEN "cursor" ELSE "idle") /\ Return
  /\ UNCHANGED <<synapse, known, outPos, routes, destRooms, lastPoked, wake, failed,
                 history, bounds>>

(* GetEvents, then handleEvents launches a goroutine per room.             *)
GetEvents ==
  /\ pc = "load" /\ pc' = "rooms"
  /\ batch' = {o \in batch : events[o] = "stored"}
  /\ UNCHANGED <<synapse, tables, lastPoked, wake, failed, from, upto, next, step, due, broken,
                 history, bounds>>

(* Fault: Synapse's position is written and ours forgotten.                *)
SaveTheirs ==
  /\ pc = "save" /\ pc' = "position"
  /\ outPos' = HigherOf(next, outPos)
  /\ UNCHANGED <<synapse, known, cursor, routes, destRooms, lastPoked, wake, failed, pass,
                 history, bounds>>

SaveCursor ==
  /\ pc = "save" /\ pc' = "position"
  /\ cursor' = Set(next)
  /\ UNCHANGED <<synapse, known, outPos, routes, destRooms, lastPoked, wake, failed, pass,
                 history, bounds>>

RecordPosition ==
  /\ pc = "position"
  /\ outPos' = HigherOf(next, outPos)
  /\ pc' = (IF next < upto THEN "cursor" ELSE "idle") /\ Return
  /\ UNCHANGED <<synapse, known, cursor, routes, destRooms, lastPoked, wake, failed,
                 history, bounds>>

-----------------------------------------------------------------------------
(* handleEvents and handleEvent.  A room's error cancels the context of    *)
(* the others: their next database call fails too.                         *)

InRoom(o, x) == x \in batch /\ RoomOf[x] = RoomOf[o]

(* Fault: the events of a room are taken in any order.                     *)
AnyOfRoom(o) ==
  /\ pc = "rooms" /\ o \in batch /\ step[o] # "done"
  /\ \A x \in Orderings : InRoom(o, x) /\ x # o => step[x] \in {"waiting", "done"}
  /\ RoomOf[o] \notin broken

(* The event the room's goroutine is at.                                   *)
AtEvent(o) ==
  /\ pc = "rooms" /\ o \in batch /\ step[o] # "done"
  /\ \A x \in Orderings : InRoom(o, x) /\ x < o => step[x] = "done"
  /\ RoomOf[o] \notin broken

Cancelled == broken # {}

Stage(o, s) == step' = [step EXCEPT ![o] = s]
Recorded(table, o) ==
  [s \in Servers |-> IF s \in RoutesOf[o]
                     THEN [table[s] EXCEPT ![RoomOf[o]] = HigherOf(o, @)] ELSE table[s]]

(* An event that goes nowhere.                                             *)
SkipEvent(o) ==
  /\ AtEvent(o) /\ step[o] = "waiting" /\ RoutesOf[o] = {}
  /\ Stage(o, "done")
  /\ UNCHANGED <<synapse, tables, pc, lastPoked, wake, failed, from, upto, next, batch, due,
                 broken, history, bounds>>

(* Resolve and the retry filter, which reads Synapse's rows.               *)
FilterEvent(o) ==
  /\ AtEvent(o) /\ step[o] = "waiting" /\ RoutesOf[o] # {} /\ ~Cancelled
  /\ due' = [due EXCEPT ![o] = RoutesOf[o] \ backingOff]
  /\ Stage(o, "filtered")
  /\ UNCHANGED <<synapse, tables, pc, lastPoked, wake, failed, from, upto, next, batch,
                 broken, history, bounds>>

NoteRoutes(o) ==
  /\ AtEvent(o) /\ step[o] = "filtered" /\ ~Cancelled
  /\ routes' = Recorded(routes, o) /\ Stage(o, "noted")
  /\ UNCHANGED <<synapse, known, cursor, outPos, destRooms, pc, lastPoked, wake, failed,
                 from, upto, next, batch, due, broken, history, bounds>>

RecordRoutes(o) ==
  /\ AtEvent(o) /\ step[o] = "noted" /\ ~Cancelled
  /\ destRooms' = Recorded(destRooms, o) /\ Stage(o, "owed")
  /\ UNCHANGED <<synapse, known, cursor, outPos, routes, pc, lastPoked, wake, failed,
                 from, upto, next, batch, due, broken, history, bounds>>

Arrived(s) == {queued[s][i] : i \in DOMAIN queued[s]}

(* The fan-out makes no database call: cancelled or not, it completes.  A  *)
(* second arrival of an event adds nothing to the order of the first ones. *)
FanOut(o) ==
  /\ AtEvent(o) /\ step[o] = "owed"
  /\ queued' = [s \in Servers |-> IF s \in due[o] /\ o \notin Arrived(s)
                                  THEN Append(queued[s], o) ELSE queued[s]]
  /\ held' = [s \in Servers |-> IF s \in RoutesOf[o] \ due[o]
                                THEN held[s] \cup {o} ELSE held[s]]
  /\ Stage(o, "done")
  /\ UNCHANGED <<synapse, tables, pc, lastPoked, wake, failed, from, upto, next, batch, due,
                 broken, start, origin, unseen, bounds>>

(* A database call of the room fails; a write may have been applied.       *)
RoomFails(o) ==
  /\ AtEvent(o) /\ step[o] \in {"waiting", "filtered", "noted"}
  /\ \/ Cancelled /\ UNCHANGED <<routes, destRooms, faults>>
     \/ /\ ~Cancelled /\ faults < MaxFaults /\ faults' = faults + 1
        /\ routes' \in {routes} \cup (IF step[o] = "filtered" THEN {Recorded(routes, o)} ELSE {})
        /\ destRooms' \in {destRooms} \cup
             (IF step[o] = "noted" THEN {Recorded(destRooms, o)} ELSE {})
  /\ broken' = broken \cup {RoomOf[o]}
  /\ UNCHANGED <<synapse, known, cursor, outPos, pc, lastPoked, wake, failed, from, upto,
                 next, batch, step, due, history, flips, crashes>>

HandleEvent(o) == \/ SkipEvent(o) \/ FilterEvent(o) \/ NoteRoutes(o) \/ RecordRoutes(o)
                  \/ FanOut(o) \/ RoomFails(o)

(* Fault: the rooms that failed do not fail the batch.                     *)
WaitRegardless ==
  /\ pc = "rooms" /\ \A o \in batch : step[o] = "done" \/ RoomOf[o] \in broken
  /\ pc' = "save" /\ UNCHANGED failed
  /\ UNCHANGED <<synapse, tables, lastPoked, wake, pass, history, bounds>>

(* g.Wait: every room has finished or failed.                              *)
WaitForRooms ==
  /\ pc = "rooms" /\ \A o \in batch : step[o] = "done" \/ RoomOf[o] \in broken
  /\ failed' = Cancelled
  /\ IF Cancelled THEN pc' = "idle" /\ Return ELSE pc' = "save" /\ UNCHANGED pass
  /\ UNCHANGED <<synapse, tables, lastPoked, wake, history, bounds>>

-----------------------------------------------------------------------------
(* Failures.                                                               *)

(* A database call outside the rooms fails and ends the pass; the next     *)
(* poke begins another.  A write may have been applied all the same.       *)
CallFails ==
  /\ pc \in {"cursor", "query", "gap", "load", "save", "position"}
  /\ faults < MaxFaults /\ faults' = faults + 1
  /\ pc' = "idle" /\ failed' = TRUE /\ Return
  /\ \/ UNCHANGED <<known, cursor, outPos, start, origin>>
     \/ /\ pc = "cursor" /\ ~known
        /\ known' = TRUE /\ cursor' = Set(lastPoked)
        /\ start' = lastPoked /\ origin' = lastPoked /\ UNCHANGED outPos
     \/ pc \in {"gap", "save"} /\ cursor' = Set(next) /\ UNCHANGED <<known, outPos, start, origin>>
     \/ pc = "position" /\ outPos' = HigherOf(next, outPos) /\ UNCHANGED <<known, cursor, start, origin>>
  /\ UNCHANGED <<synapse, routes, destRooms, lastPoked, wake, unseen, queued, held, flips, crashes>>

(* The worker dies or is stopped; a failed seed ends it too.               *)
Crash ==
  /\ pc # "down" /\ crashes < MaxCrashes /\ crashes' = crashes + 1
  /\ pc' = "down" /\ lastPoked' = 0 /\ wake' = FALSE /\ failed' = FALSE /\ Return
  /\ origin' = cursor
  /\ queued' = [s \in Servers |-> <<>>] /\ held' = [s \in Servers |-> {}]
  /\ UNCHANGED <<synapse, tables, start, unseen, faults, flips>>

WorkerStep ==
  \/ Start \/ SeedTip \/ SeedCursor \/ Begin
  \/ StartFromTip \/ ReadCursor \/ GetAllNewEventIDsStream \/ PassGap \/ GetEvents
  \/ SaveCursor \/ RecordPosition \/ WaitForRooms
  \/ \E o \in Orderings : HandleEvent(o)

PickupNext ==
  \/ \E o \in Orderings : Commit(o) \/ Purge(o)
  \/ \E s \in Servers : FlipBackoff(s)
  \/ \E p \in Orderings : NotifyNewEvents(p)
  \/ WorkerStep
  \/ CallFails \/ Crash

PickupSpec == PickupInit /\ [][PickupNext]_pickupVars

-----------------------------------------------------------------------------
(* Properties.                                                             *)

Passed(o) == events[o] = "stored" /\ known /\ o <= cursor

(* Whatever fails or crashes, an event the cursor has passed is recorded   *)
(* as owed to each of its destinations, unless it was still uncommitted    *)
(* when seed read the newest ordering above it.  Nothing else would ever   *)
(* look at it again.                                                       *)
PassedEventIsOwed ==
  \A o \in Orderings \ unseen :
    Passed(o) /\ o > start => \A s \in RoutesOf[o] : destRooms[s][RoomOf[o]] >= o

(* An event this process has passed is on the queue of each destination    *)
(* that was not backing off.                                               *)
PassedEventIsQueued ==
  \A o \in Orderings \ unseen :
    Passed(o) /\ o > origin => \A s \in RoutesOf[o] : o \in Arrived(s) \cup held[s]

(* Retried passes included, an event is not queued for the first time      *)
(* behind a later event of its room, unless an earlier pass had kept it    *)
(* back for the destination's backoff.                                     *)
FirstArrivalsInOrder ==
  \A s \in Servers : \A i, j \in DOMAIN queued[s] :
    i < j /\ RoomOf[queued[s][i]] = RoomOf[queued[s][j]] /\ queued[s][i] > queued[s][j]
      => queued[s][j] \in held[s]

(* Synapse takes the lowest position of its senders for granted after a    *)
(* restart, so its copy of our cursor is never ahead of the cursor.        *)
PositionNeverAhead == outPos <= cursor

(* A poke that arrives at any point of a pass is served by that pass or by *)
(* another one: the loop rests below a position only after a failure.      *)
NoPokeLost == pc = "idle" /\ ~wake /\ ~failed => known /\ cursor >= lastPoked

(* "A seeded position is a lower bound": at worst events are re-examined,  *)
(* so no event is passed without being looked at.                          *)
SeedIsALowerBound ==
  \A o \in Orderings :
    Passed(o) /\ o > start => \A s \in RoutesOf[o] : destRooms[s][RoomOf[o]] >= o
=============================================================================
