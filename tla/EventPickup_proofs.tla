------------------------- MODULE EventPickup_proofs -------------------------
(***************************************************************************)
(* Proofs about EventPickup.tla: whatever the number of events, rooms and  *)
(* destinations, the batch limit, and the failures and crashes in between, *)
(* Synapse's copy of the position is never ahead of the cursor, an event   *)
(* the cursor has passed is recorded as owed and was queued where nothing  *)
(* held it back, first arrivals of a room keep its order, and no poke is   *)
(* lost.                                                                   *)
(***************************************************************************)
EXTENDS EventPickup, TLAPS

(* Positions are natural numbers.                                          *)
LEMMA PositionsAreNumbers == Positions \subseteq Nat /\ 0 \in Positions /\ Orderings \subseteq Positions
BY PickupAssumption DEF Positions

(* The higher of two positions is one of them.                             *)
LEMMA HigherOfPositions ==
  ASSUME NEW a \in Positions, NEW b \in Positions
  PROVE  /\ HigherOf(a, b) \in Positions /\ HigherOf(a, b) \in Nat
         /\ HigherOf(a, b) >= a /\ HigherOf(a, b) >= b
         /\ HigherOf(a, b) = a \/ HigherOf(a, b) = b
BY PositionsAreNumbers DEF HigherOf

(* Cursors.Set never moves an existing cursor backwards.                   *)
LEMMA SetPositions ==
  ASSUME cursor \in Positions, known \in BOOLEAN, NEW p \in Positions
  PROVE  /\ Set(p) \in Positions
         /\ known => Set(p) >= cursor /\ Set(p) >= p
         /\ Set(p) = p \/ Set(p) = cursor
<1>1. CASE known
  BY <1>1, HigherOfPositions DEF Set
<1>2. CASE ~known
  BY <1>2 DEF Set
<1> QED BY <1>1, <1>2

(* An upsert of the routing record keeps its shape, only raises rows, and  *)
(* raises those of the event's destinations to the event.                  *)
LEMMA RecordedRoutes ==
  ASSUME NEW table \in Record, NEW o \in Orderings
  PROVE  /\ Recorded(table, o) \in Record
         /\ \A s \in Servers, r \in Rooms : Recorded(table, o)[s][r] >= table[s][r]
         /\ \A s \in RoutesOf[o] : Recorded(table, o)[s][RoomOf[o]] >= o
<1> DEFINE row(s) == IF s \in RoutesOf[o]
                     THEN [table[s] EXCEPT ![RoomOf[o]] = HigherOf(o, @)] ELSE table[s]
<1>1. o \in Positions /\ RoomOf[o] \in Rooms /\ RoutesOf[o] \subseteq Servers
  BY PickupAssumption DEF Positions
<1>2. ASSUME NEW s \in Servers
      PROVE  /\ row(s) \in [Rooms -> Positions]
             /\ \A r \in Rooms : row(s)[r] >= table[s][r]
             /\ s \in RoutesOf[o] => row(s)[RoomOf[o]] >= o
  <2>1. table[s] \in [Rooms -> Positions]
    BY DEF Record
  <2>2. table[s][RoomOf[o]] \in Positions
    BY <1>1, <2>1
  <2>3. /\ HigherOf(o, table[s][RoomOf[o]]) \in Positions
        /\ HigherOf(o, table[s][RoomOf[o]]) >= o
        /\ HigherOf(o, table[s][RoomOf[o]]) >= table[s][RoomOf[o]]
    BY <1>1, <2>2, HigherOfPositions
  <2>4. \A r \in Rooms : table[s][r] \in Nat /\ table[s][r] >= table[s][r]
    <3> TAKE r \in Rooms
    <3>1. table[s][r] \in Positions
      BY <2>1
    <3>2. table[s][r] \in Nat
      BY <3>1, PositionsAreNumbers
    <3>3. \A n \in Nat : n >= n
      OBVIOUS
    <3> QED BY <3>2, <3>3
  <2> QED BY <1>1, <2>1, <2>3, <2>4
<1>3. Recorded(table, o) = [s \in Servers |-> row(s)]
  BY DEF Recorded
<1> QED BY <1>1, <1>2, <1>3 DEF Record

-----------------------------------------------------------------------------
(* Type correctness.                                                       *)

(* The initial state has its type.                                         *)
LEMMA PickupTypeInit == PickupInit => PickupTypeOK
<1> SUFFICES ASSUME PickupInit PROVE PickupTypeOK
  OBVIOUS
<1>1. /\ Unhandled \in [Orderings -> Stages] /\ NoRoute \in [Orderings -> SUBSET Servers]
      /\ Nothing \in Record
  BY DEF Unhandled, NoRoute, Nothing, Record, Stages, Positions
<1>2. [s \in Servers |-> <<>>] \in [Servers -> Seq(Orderings)]
  OBVIOUS
<1>3. /\ 0 \in 0..MaxFaults /\ 0 \in 0..MaxFlips /\ 0 \in 0..MaxCrashes
  BY PickupAssumption
<1> QED BY <1>1, <1>2, <1>3, PickupAssumption DEF PickupInit, PickupTypeOK, Positions, Calls

(* The cleared locals have their types.                                    *)
LEMMA ClearedTypes ==
  /\ Unhandled \in [Orderings -> Stages] /\ NoRoute \in [Orderings -> SUBSET Servers]
  /\ [s \in Servers |-> <<>>] \in [Servers -> Seq(Orderings)]
  /\ [s \in Servers |-> {}] \in [Servers -> SUBSET Orderings]
BY DEF Unhandled, NoRoute, Stages

(* A step of Synapse keeps the types.                                      *)
LEMMA TypeSynapse ==
  ASSUME PickupTypeOK,
         \/ \E o \in Orderings : Commit(o) \/ Purge(o)
         \/ \E s \in Servers : FlipBackoff(s)
         \/ \E p \in Orderings : NotifyNewEvents(p)
  PROVE  PickupTypeOK'
<1>1. ASSUME NEW o \in Orderings, Commit(o) \/ Purge(o) PROVE PickupTypeOK'
  BY <1>1 DEF PickupTypeOK, Commit, Purge, tables, pass, history, bounds
<1>2. ASSUME NEW s \in Servers, FlipBackoff(s) PROVE PickupTypeOK'
  <2>1. flips + 1 \in 0..MaxFlips
    BY <1>2, PickupAssumption DEF PickupTypeOK, FlipBackoff
  <2> QED BY <1>2, <2>1 DEF PickupTypeOK, FlipBackoff, tables, pass, history
<1>3. ASSUME NEW p \in Orderings, NotifyNewEvents(p) PROVE PickupTypeOK'
  <2>1. lastPoked' \in Positions
    BY <1>3, PositionsAreNumbers, HigherOfPositions DEF PickupTypeOK, NotifyNewEvents
  <2> QED BY <1>3, <2>1 DEF PickupTypeOK, NotifyNewEvents, synapse, tables, pass, history, bounds
<1> QED BY <1>1, <1>2, <1>3

(* A step of seed or of processBatch keeps the types.                      *)
LEMMA TypeLoop ==
  ASSUME PickupTypeOK,
         \/ Start \/ SeedTip \/ SeedCursor \/ Begin
         \/ StartFromTip \/ ReadCursor \/ GetAllNewEventIDsStream \/ PassGap \/ GetEvents
         \/ SaveCursor \/ RecordPosition \/ WaitForRooms
  PROVE  PickupTypeOK'
<1> USE PositionsAreNumbers, ClearedTypes
<1> USE DEF PickupTypeOK, Calls, synapse, tables, pass, history, bounds
<1>1. CASE Start
  BY <1>1 DEF Start
<1>2. CASE SeedTip
  <2>1. PICK max \in MaxStreamOrdering :
          /\ lastPoked' = HigherOf(max, lastPoked) /\ next' = max
          /\ unseen' = unseen \cup OpenBelow(max)
    BY <1>2 DEF SeedTip
  <2>2. max \in Positions /\ OpenBelow(max) \subseteq Orderings
    BY DEF MaxStreamOrdering, LastOf, OpenBelow
  <2>3. lastPoked' \in Positions
    BY <2>1, <2>2, HigherOfPositions
  <2> QED BY <1>2, <2>1, <2>2, <2>3 DEF SeedTip
<1>3. CASE SeedCursor
  <2>1. lastPoked' \in Positions
    BY <1>3, HigherOfPositions DEF SeedCursor
  <2> QED BY <1>3, <2>1 DEF SeedCursor, Return
<1>4. CASE Begin
  BY <1>4 DEF Begin
<1>5. CASE StartFromTip
  <2>1. cursor' \in Positions
    BY <1>5, SetPositions DEF StartFromTip
  <2> QED BY <1>5, <2>1 DEF StartFromTip
<1>6. CASE ReadCursor
  BY <1>6 DEF ReadCursor
<1>7. CASE GetAllNewEventIDsStream
  <2>1. PICK rows \in Limited :
          /\ batch' = rows /\ next' \in ResumeFrom(rows)
          /\ pc' = IF rows = {} THEN "gap" ELSE "load"
    BY <1>7 DEF GetAllNewEventIDsStream
  <2>2. rows \subseteq Orderings
    BY DEF Limited, Window
  <2>3. next' \in Positions
    BY <2>1, <2>2 DEF ResumeFrom, LastOf
  <2> QED BY <1>7, <2>1, <2>2, <2>3 DEF GetAllNewEventIDsStream
<1>8. CASE PassGap
  <2>1. cursor' \in Positions
    BY <1>8, SetPositions DEF PassGap
  <2> QED BY <1>8, <2>1 DEF PassGap, Return
<1>9. CASE GetEvents
  BY <1>9 DEF GetEvents
<1>10. CASE SaveCursor
  <2>1. cursor' \in Positions
    BY <1>10, SetPositions DEF SaveCursor
  <2> QED BY <1>10, <2>1 DEF SaveCursor
<1>11. CASE RecordPosition
  <2>1. outPos' \in Positions
    BY <1>11, HigherOfPositions DEF RecordPosition
  <2> QED BY <1>11, <2>1 DEF RecordPosition, Return
<1>12. CASE WaitForRooms
  <2>1. failed' \in BOOLEAN
    BY <1>12 DEF WaitForRooms, Cancelled
  <2> QED BY <1>12, <2>1 DEF WaitForRooms, Return
<1> QED BY <1>1, <1>2, <1>3, <1>4, <1>5, <1>6, <1>7, <1>8, <1>9, <1>10, <1>11, <1>12

(* A step of handleEvent keeps the types.                                  *)
LEMMA TypeRooms ==
  ASSUME PickupTypeOK, NEW o \in Orderings, HandleEvent(o)
  PROVE  PickupTypeOK'
<1> USE DEF PickupTypeOK, Stages, synapse, tables, pass, history, bounds, Stage
<1>0. RoomOf[o] \in Rooms /\ RoutesOf[o] \subseteq Servers
  BY PickupAssumption
<1>1. CASE SkipEvent(o)
  BY <1>1 DEF SkipEvent
<1>2. CASE FilterEvent(o)
  BY <1>0, <1>2 DEF FilterEvent
<1>3. CASE NoteRoutes(o)
  <2>1. routes' \in Record
    BY <1>3, RecordedRoutes DEF NoteRoutes
  <2> QED BY <1>3, <2>1 DEF NoteRoutes
<1>4. CASE RecordRoutes(o)
  <2>1. destRooms' \in Record
    BY <1>4, RecordedRoutes DEF RecordRoutes
  <2> QED BY <1>4, <2>1 DEF RecordRoutes
<1>5. CASE FanOut(o)
  <2>1. queued' \in [Servers -> Seq(Orderings)]
    BY <1>5 DEF FanOut
  <2>2. held' \in [Servers -> SUBSET Orderings]
    BY <1>5 DEF FanOut
  <2> QED BY <1>5, <2>1, <2>2 DEF FanOut
<1>6. CASE RoomFails(o)
  <2>1. routes' \in Record /\ destRooms' \in Record
    BY <1>6, RecordedRoutes DEF RoomFails
  <2>2. faults' \in 0..MaxFaults
    BY <1>6, PickupAssumption DEF RoomFails
  <2> QED BY <1>0, <1>6, <2>1, <2>2 DEF RoomFails
<1> QED BY <1>1, <1>2, <1>3, <1>4, <1>5, <1>6 DEF HandleEvent

(* A failed call or a crash keeps the types.                               *)
LEMMA TypeFailures ==
  ASSUME PickupTypeOK, CallFails \/ Crash
  PROVE  PickupTypeOK'
<1> USE PositionsAreNumbers, ClearedTypes
<1> USE DEF PickupTypeOK, Calls, synapse, tables, pass, history, bounds, Return
<1>1. CASE CallFails
  <2>1. faults' \in 0..MaxFaults
    BY <1>1, PickupAssumption DEF CallFails
  <2>2. /\ cursor' \in Positions /\ outPos' \in Positions /\ known' \in BOOLEAN
        /\ start' \in Positions /\ origin' \in Positions
    <3>1. /\ Set(lastPoked) \in Positions /\ Set(next) \in Positions
          /\ HigherOf(next, outPos) \in Positions
      BY SetPositions, HigherOfPositions
    <3> QED BY <1>1, <3>1 DEF CallFails
  <2> QED BY <1>1, <2>1, <2>2 DEF CallFails
<1>2. CASE Crash
  <2>1. crashes' \in 0..MaxCrashes
    BY <1>2, PickupAssumption DEF Crash
  <2> QED BY <1>2, <2>1 DEF Crash
<1> QED BY <1>1, <1>2

(* Every step keeps the types.                                             *)
LEMMA TypeStep == PickupTypeOK /\ [PickupNext]_pickupVars => PickupTypeOK'
<1> SUFFICES ASSUME PickupTypeOK, [PickupNext]_pickupVars PROVE PickupTypeOK'
  OBVIOUS
<1>1. CASE UNCHANGED pickupVars
  BY <1>1 DEF PickupTypeOK, pickupVars, synapse, tables, pass, history, bounds
<1> QED BY <1>1, TypeSynapse, TypeLoop, TypeRooms, TypeFailures DEF PickupNext, WorkerStep

-----------------------------------------------------------------------------
(* The inductive invariant.                                                *)

(* What is still uncommitted below the cursor, or below the position the   *)
(* loop works towards, was uncommitted when seed read such a position:     *)
(* pokes come with everything below them settled.                          *)
OpenIsUnseen ==
  \A o \in Orderings : events[o] = "open" /\ (o <= lastPoked \/ o <= cursor) => o \in unseen

Busy == {"query", "gap", "load", "rooms", "save"}

(* A pass starts from the cursor and works within what it was told.        *)
PassStartsAtCursor ==
  /\ pc \in Busy => known /\ from = cursor /\ upto <= lastPoked
  /\ pc \in Busy \ {"query"} => next <= upto
  /\ pc = "seed" => next <= lastPoked
  /\ pc = "position" => known /\ next <= cursor
  /\ ~known => cursor = 0 /\ outPos = 0

(* The batch holds every event between the cursor and where it would move. *)
BatchCovers ==
  /\ pc \in Busy \ {"query"} =>
       \A o \in Orderings \ unseen : events[o] = "stored" /\ from < o /\ o <= next => o \in batch
  /\ pc = "gap" => batch = {}

(* The record is written before an event counts as handled, and a batch is *)
(* saved when all of its events are.                                       *)
HandledIsOwed ==
  /\ pc \notin {"rooms", "save", "position"} => step = Unhandled
  /\ \A o \in Orderings : step[o] \in {"owed", "done"} =>
       \A s \in RoutesOf[o] : destRooms[s][RoomOf[o]] >= o
  /\ pc = "save" => \A o \in batch : step[o] = "done"

PickupInv == /\ PickupTypeOK /\ OpenIsUnseen /\ PassStartsAtCursor /\ BatchCovers
             /\ HandledIsOwed /\ PassedEventIsOwed /\ PositionNeverAhead

(* The initial state satisfies the invariant.                              *)
LEMMA PickupInvInit == PickupInit => PickupInv
<1> SUFFICES ASSUME PickupInit PROVE PickupInv
  OBVIOUS
<1>1. PickupTypeOK
  BY PickupTypeInit
<1>2. \A o \in Orderings : o \in Nat /\ ~(o <= 0)
  BY PickupAssumption
<1>3. OpenIsUnseen /\ PassedEventIsOwed
  BY <1>2 DEF PickupInit, OpenIsUnseen, PassedEventIsOwed, Passed
<1>4. PassStartsAtCursor /\ BatchCovers /\ HandledIsOwed /\ PositionNeverAhead
  BY DEF PickupInit, PassStartsAtCursor, BatchCovers, HandledIsOwed, PositionNeverAhead,
         Busy, Unhandled
<1> QED BY <1>1, <1>3, <1>4 DEF PickupInv

(* A step of Synapse or a poke keeps the invariant: only an ordering that  *)
(* seed overlooked can commit below the position the loop works towards.   *)
LEMMA InvSynapse ==
  ASSUME PickupInv,
         \/ \E o \in Orderings : Commit(o) \/ Purge(o)
         \/ \E s \in Servers : FlipBackoff(s)
         \/ \E p \in Orderings : NotifyNewEvents(p)
  PROVE  PickupInv'
<1> USE DEF synapse, tables, pass, history, bounds
<1>0. PickupTypeOK'
  BY TypeSynapse DEF PickupInv
<1>1. ASSUME NEW o \in Orderings, Commit(o) \/ Purge(o) PROVE PickupInv'
  <2>1. /\ \A x \in Orderings : x # o => events'[x] = events[x]
        /\ events'[o] \in {"stored", "gone"}
        /\ events[o] = "open" \/ events'[o] = "gone"
    BY <1>1 DEF Commit, Purge, PickupInv, PickupTypeOK
  <2>2. UNCHANGED <<tables, pc, lastPoked, wake, failed, pass, history, bounds>>
    BY <1>1 DEF Commit, Purge
  <2>3. OpenIsUnseen'
    BY <2>1, <2>2 DEF PickupInv, OpenIsUnseen
  <2>4. /\ cursor \in Nat /\ lastPoked \in Nat /\ next \in Nat /\ upto \in Nat /\ o \in Nat
    BY PositionsAreNumbers DEF PickupInv, PickupTypeOK
  <2>5. PassStartsAtCursor' /\ HandledIsOwed' /\ PositionNeverAhead'
    BY <2>2 DEF PickupInv, PassStartsAtCursor, HandledIsOwed, PositionNeverAhead
  <2>6. BatchCovers'
    <3>1. pc \in Busy \ {"query"} /\ o <= next /\ events[o] = "open" => o \in unseen
      BY <2>4 DEF PickupInv, OpenIsUnseen, PassStartsAtCursor
    <3> QED BY <2>1, <2>2, <3>1 DEF PickupInv, BatchCovers
  <2>7. PassedEventIsOwed'
    <3>1. o <= cursor /\ events[o] = "open" => o \in unseen
      BY DEF PickupInv, OpenIsUnseen
    <3> QED BY <2>1, <2>2, <3>1 DEF PickupInv, PassedEventIsOwed, Passed
  <2> QED BY <1>0, <2>3, <2>5, <2>6, <2>7 DEF PickupInv
<1>2. ASSUME NEW s \in Servers, FlipBackoff(s) PROVE PickupInv'
  BY <1>0, <1>2 DEF FlipBackoff, PickupInv, OpenIsUnseen, PassStartsAtCursor, BatchCovers,
     HandledIsOwed, PassedEventIsOwed, Passed, PositionNeverAhead
<1>3. ASSUME NEW p \in Orderings, NotifyNewEvents(p) PROVE PickupInv'
  <2>1. lastPoked' = HigherOf(p, lastPoked) /\ Settled(p)
    BY <1>3 DEF NotifyNewEvents
  <2>2. UNCHANGED <<synapse, tables, pc, failed, pass, history, bounds>>
    BY <1>3 DEF NotifyNewEvents
  <2>3. /\ lastPoked \in Nat /\ lastPoked' \in Nat /\ lastPoked' >= lastPoked
        /\ lastPoked' = p \/ lastPoked' = lastPoked
        /\ next \in Nat /\ upto \in Nat
    BY <2>1, HigherOfPositions, PositionsAreNumbers DEF PickupInv, PickupTypeOK
  <2>4. OpenIsUnseen'
    BY <2>1, <2>2, <2>3 DEF PickupInv, OpenIsUnseen, Settled
  <2>5. PassStartsAtCursor'
    BY <2>2, <2>3 DEF PickupInv, PassStartsAtCursor
  <2>6. BatchCovers' /\ HandledIsOwed' /\ PassedEventIsOwed' /\ PositionNeverAhead'
    BY <2>2 DEF PickupInv, BatchCovers, HandledIsOwed, PassedEventIsOwed, Passed, PositionNeverAhead
  <2> QED BY <1>0, <2>4, <2>5, <2>6 DEF PickupInv
<1> QED BY <1>1, <1>2, <1>3

(* Moving the cursor to the end of a batch that is all owed, with or       *)
(* without an answer from the database, keeps the cursor's promises.       *)
LEMMA CursorMoves ==
  ASSUME PickupInv, pc \in {"gap", "save"},
         cursor' = Set(next), UNCHANGED <<synapse, known, outPos, routes, destRooms, lastPoked, start, unseen>>
  PROVE  /\ OpenIsUnseen' /\ PassedEventIsOwed' /\ PositionNeverAhead'
         /\ known /\ next <= cursor'
<1> USE DEF synapse
<1>1. /\ known /\ from = cursor /\ next <= upto /\ upto <= lastPoked
  BY DEF PickupInv, PassStartsAtCursor, Busy
<1>2. /\ cursor \in Positions /\ next \in Positions /\ upto \in Nat /\ lastPoked \in Nat
      /\ cursor \in Nat /\ next \in Nat /\ outPos \in Nat
      /\ \A o \in Orderings : o \in Nat
  BY PositionsAreNumbers DEF PickupInv, PickupTypeOK
<1>3. /\ cursor' \in Nat /\ cursor' >= cursor /\ cursor' >= next
      /\ cursor' = next \/ cursor' = cursor
  <2>1. cursor' \in Positions
    BY <1>2, SetPositions DEF PickupInv, PickupTypeOK
  <2> QED BY <1>1, <1>2, <2>1, SetPositions, PositionsAreNumbers DEF PickupInv, PickupTypeOK
<1>4. OpenIsUnseen'
  BY <1>1, <1>2, <1>3 DEF PickupInv, OpenIsUnseen
<1>5. PositionNeverAhead'
  BY <1>2, <1>3 DEF PickupInv, PositionNeverAhead
<1>6. PassedEventIsOwed'
  <2> SUFFICES ASSUME NEW o \in Orderings \ unseen, events[o] = "stored", o <= cursor', o > start,
                      NEW s \in RoutesOf[o]
               PROVE  destRooms[s][RoomOf[o]] >= o
    BY DEF PassedEventIsOwed, Passed
  <2>1. CASE o <= cursor
    BY <1>1, <2>1 DEF PickupInv, PassedEventIsOwed, Passed
  <2>2. CASE ~(o <= cursor)
    <3>1. from < o /\ o <= next
      BY <1>1, <1>2, <1>3, <2>2
    <3>2. o \in batch
      BY <3>1 DEF PickupInv, BatchCovers, Busy
    <3>3. pc = "save" /\ step[o] = "done"
      BY <3>2 DEF PickupInv, BatchCovers, HandledIsOwed
    <3> QED BY <3>3 DEF PickupInv, HandledIsOwed
  <2> QED BY <2>1, <2>2
<1> QED BY <1>1, <1>3, <1>4, <1>5, <1>6

(* The first cursor, at the tip, passes nothing that came after it.        *)
LEMMA FirstCursor ==
  ASSUME PickupInv, ~known, known' = TRUE, cursor' = Set(lastPoked), start' = lastPoked,
         UNCHANGED <<synapse, outPos, destRooms, lastPoked, unseen>>
  PROVE  OpenIsUnseen' /\ PassedEventIsOwed' /\ PositionNeverAhead'
<1>1. cursor' = lastPoked
  BY DEF Set
<1>2. lastPoked \in Nat /\ outPos = 0 /\ \A o \in Orderings : o \in Nat
  BY PositionsAreNumbers DEF PickupInv, PickupTypeOK, PassStartsAtCursor
<1>3. OpenIsUnseen'
  BY <1>1 DEF PickupInv, OpenIsUnseen, synapse
<1>4. PassedEventIsOwed'
  BY <1>1, <1>2 DEF PassedEventIsOwed, Passed
<1>5. PositionNeverAhead'
  BY <1>1, <1>2 DEF PositionNeverAhead
<1> QED BY <1>3, <1>4, <1>5

(* The pickup query: the batch is a prefix of the window, and the position *)
(* to resume from is the window's end or the batch's last row.             *)
LEMMA QueryCovers ==
  ASSUME PickupInv, pc = "query", NEW rows \in Limited, NEW last \in ResumeFrom(rows)
  PROVE  /\ last <= upto /\ rows \subseteq Orderings
         /\ \A o \in Orderings : events[o] = "stored" /\ from < o /\ o <= last => o \in rows
<1>1. /\ upto \in Nat /\ from \in Nat /\ \A o \in Orderings : o \in Nat
      /\ rows \subseteq Window /\ Window \subseteq Orderings
  BY PositionsAreNumbers DEF PickupInv, PickupTypeOK, Limited, Window
<1>2. CASE Cardinality(rows) = BatchLimit
  <2>1. last \in rows
    BY <1>2 DEF ResumeFrom, LastOf
  <2>2. last \in Nat /\ last <= upto
    BY <1>1, <2>1 DEF Window
  <2>3. ASSUME NEW o \in Orderings, events[o] = "stored", from < o, o <= last PROVE o \in rows
    <3>1. o \in Window
      BY <1>1, <2>2, <2>3 DEF Window
    <3>2. o = last \/ o < last
      BY <1>1, <2>2, <2>3
    <3> QED BY <2>1, <3>1, <3>2 DEF Limited
  <2> QED BY <1>1, <2>2, <2>3
<1>3. CASE Cardinality(rows) # BatchLimit
  <2>1. last = upto /\ rows = Window
    BY <1>3 DEF ResumeFrom, Limited
  <2> QED BY <1>1, <2>1 DEF Window
<1> QED BY <1>2, <1>3

(* A step of seed or of processBatch keeps the invariant.                  *)
LEMMA InvLoop ==
  ASSUME PickupInv,
         \/ Start \/ SeedTip \/ SeedCursor \/ Begin
         \/ StartFromTip \/ ReadCursor \/ GetAllNewEventIDsStream \/ PassGap \/ GetEvents
         \/ SaveCursor \/ RecordPosition \/ WaitForRooms
  PROVE  PickupInv'
<1> USE DEF synapse, tables, pass, history, bounds, Busy
<1>0. PickupTypeOK'
  BY TypeLoop DEF PickupInv
<1>n. /\ cursor \in Nat /\ lastPoked \in Nat /\ next \in Nat /\ upto \in Nat /\ outPos \in Nat
      /\ \A o \in Orderings : o \in Nat
  BY PositionsAreNumbers DEF PickupInv, PickupTypeOK
<1>1. CASE Start \/ Begin
  BY <1>0, <1>1 DEF Start, Begin, PickupInv, OpenIsUnseen, PassStartsAtCursor, BatchCovers,
     HandledIsOwed, PassedEventIsOwed, Passed, PositionNeverAhead
<1>2. CASE SeedTip
  <2>1. PICK max \in MaxStreamOrdering :
          /\ lastPoked' = HigherOf(max, lastPoked) /\ next' = max
          /\ unseen' = unseen \cup OpenBelow(max)
    BY <1>2 DEF SeedTip
  <2>2. /\ max \in Positions
        /\ \A o \in Orderings : events[o] = "open" => o # max
    BY PositionsAreNumbers, PickupAssumption DEF MaxStreamOrdering, LastOf
  <2>3. /\ max \in Nat /\ lastPoked' \in Nat /\ lastPoked' >= max
        /\ lastPoked' = max \/ lastPoked' = lastPoked
    BY <2>1, <2>2, HigherOfPositions, PositionsAreNumbers DEF PickupInv, PickupTypeOK
  <2>4. UNCHANGED <<events, known, cursor, outPos, destRooms, start, batch, step>>
    BY <1>2 DEF SeedTip
  <2>5. OpenIsUnseen'
    <3> SUFFICES ASSUME NEW o \in Orderings, events[o] = "open", o <= lastPoked' \/ o <= cursor
                 PROVE  o \in unseen'
      BY <2>4 DEF OpenIsUnseen
    <3>1. CASE o <= max
      BY <1>n, <2>1, <2>2, <2>3, <3>1 DEF OpenBelow
    <3>2. CASE ~(o <= max)
      BY <1>n, <2>1, <2>3, <3>2 DEF PickupInv, OpenIsUnseen
    <3> QED BY <3>1, <3>2
  <2>6. PassStartsAtCursor' /\ BatchCovers' /\ HandledIsOwed' /\ PositionNeverAhead'
    BY <1>2, <2>1, <2>3, <2>4 DEF SeedTip, PickupInv, PassStartsAtCursor, BatchCovers,
       HandledIsOwed, PositionNeverAhead
  <2>7. PassedEventIsOwed'
    BY <2>1, <2>4 DEF PickupInv, PassedEventIsOwed, Passed
  <2> QED BY <1>0, <2>5, <2>6, <2>7 DEF PickupInv
<1>3. CASE SeedCursor
  <2>1. lastPoked' = lastPoked
    BY <1>3, <1>n DEF SeedCursor, PickupInv, PassStartsAtCursor, HigherOf
  <2> QED BY <1>0, <1>3, <2>1 DEF SeedCursor, Return, PickupInv, OpenIsUnseen, PassStartsAtCursor,
          BatchCovers, HandledIsOwed, PassedEventIsOwed, Passed, PositionNeverAhead
<1>4. CASE StartFromTip
  <2>1. OpenIsUnseen' /\ PassedEventIsOwed' /\ PositionNeverAhead'
    BY <1>4, FirstCursor DEF StartFromTip
  <2>2. PassStartsAtCursor' /\ BatchCovers' /\ HandledIsOwed'
    BY <1>4 DEF StartFromTip, PickupInv, PassStartsAtCursor, BatchCovers, HandledIsOwed
  <2> QED BY <1>0, <2>1, <2>2 DEF PickupInv
<1>5. CASE ReadCursor
  <2>1. OpenIsUnseen' /\ PassedEventIsOwed' /\ PositionNeverAhead' /\ BatchCovers' /\ HandledIsOwed'
    BY <1>5 DEF ReadCursor, PickupInv, OpenIsUnseen, PassedEventIsOwed, Passed, PositionNeverAhead,
       BatchCovers, HandledIsOwed
  <2>2. PassStartsAtCursor'
    BY <1>5, <1>n DEF ReadCursor, PickupInv, PassStartsAtCursor
  <2> QED BY <1>0, <2>1, <2>2 DEF PickupInv
<1>6. CASE GetAllNewEventIDsStream
  <2>1. PICK rows \in Limited :
          /\ batch' = rows /\ next' \in ResumeFrom(rows)
          /\ pc' = IF rows = {} THEN "gap" ELSE "load"
    BY <1>6 DEF GetAllNewEventIDsStream
  <2>2. /\ next' <= upto
        /\ \A o \in Orderings : events[o] = "stored" /\ from < o /\ o <= next' => o \in rows
    BY <1>6, <2>1, QueryCovers DEF GetAllNewEventIDsStream
  <2>3. /\ UNCHANGED <<synapse, tables, lastPoked, from, upto, step, history>> /\ pc = "query"
    BY <1>6 DEF GetAllNewEventIDsStream
  <2>4. OpenIsUnseen' /\ PassedEventIsOwed' /\ PositionNeverAhead'
    BY <2>3 DEF PickupInv, OpenIsUnseen, PassedEventIsOwed, Passed, PositionNeverAhead
  <2>5. PassStartsAtCursor'
    BY <2>1, <2>2, <2>3 DEF PickupInv, PassStartsAtCursor
  <2>6. BatchCovers' /\ HandledIsOwed'
    BY <2>1, <2>2, <2>3 DEF PickupInv, BatchCovers, HandledIsOwed
  <2> QED BY <1>0, <2>4, <2>5, <2>6 DEF PickupInv
<1>7. CASE PassGap
  <2>1. OpenIsUnseen' /\ PassedEventIsOwed' /\ PositionNeverAhead' /\ known
    BY <1>7, CursorMoves DEF PassGap
  <2>2. PassStartsAtCursor' /\ BatchCovers' /\ HandledIsOwed'
    BY <1>7, <2>1 DEF PassGap, Return, PickupInv, PassStartsAtCursor, BatchCovers, HandledIsOwed
  <2> QED BY <1>0, <2>1, <2>2 DEF PickupInv
<1>8. CASE GetEvents
  BY <1>0, <1>8 DEF GetEvents, PickupInv, OpenIsUnseen, PassStartsAtCursor, BatchCovers,
     HandledIsOwed, PassedEventIsOwed, Passed, PositionNeverAhead
<1>9. CASE SaveCursor
  <2>1. OpenIsUnseen' /\ PassedEventIsOwed' /\ PositionNeverAhead' /\ known /\ next <= cursor'
    BY <1>9, CursorMoves DEF SaveCursor
  <2>2. PassStartsAtCursor' /\ BatchCovers' /\ HandledIsOwed'
    BY <1>9, <2>1 DEF SaveCursor, PickupInv, PassStartsAtCursor, BatchCovers, HandledIsOwed
  <2> QED BY <1>0, <2>1, <2>2 DEF PickupInv
<1>10. CASE RecordPosition
  <2>1. PositionNeverAhead' /\ known
    BY <1>10, <1>n DEF RecordPosition, PickupInv, PositionNeverAhead, PassStartsAtCursor, HigherOf
  <2>2. /\ OpenIsUnseen' /\ PassedEventIsOwed'
        /\ PassStartsAtCursor' /\ BatchCovers' /\ HandledIsOwed'
    BY <1>10, <2>1 DEF RecordPosition, Return, PickupInv, OpenIsUnseen, PassedEventIsOwed, Passed,
       PassStartsAtCursor, BatchCovers, HandledIsOwed, Unhandled
  <2> QED BY <1>0, <2>1, <2>2 DEF PickupInv
<1>11. CASE WaitForRooms
  <2>1. /\ OpenIsUnseen' /\ PassedEventIsOwed' /\ PositionNeverAhead' /\ PassStartsAtCursor'
    BY <1>11 DEF WaitForRooms, Return, PickupInv, OpenIsUnseen, PassedEventIsOwed, Passed,
       PositionNeverAhead, PassStartsAtCursor
  <2>2. CASE Cancelled
    BY <1>0, <1>11, <2>1, <2>2 DEF WaitForRooms, Return, PickupInv, BatchCovers, HandledIsOwed, Unhandled
  <2>3. CASE ~Cancelled
    BY <1>0, <1>11, <2>1, <2>3 DEF WaitForRooms, Cancelled, PickupInv, BatchCovers, HandledIsOwed
  <2> QED BY <2>2, <2>3
<1> QED BY <1>1, <1>2, <1>3, <1>4, <1>5, <1>6, <1>7, <1>8, <1>9, <1>10, <1>11

(* A step of handleEvent keeps the invariant: rows of the record only      *)
(* rise, and an event is past "noted" only once its rows are written.      *)
LEMMA InvRooms ==
  ASSUME PickupInv, NEW o \in Orderings, HandleEvent(o)
  PROVE  PickupInv'
<1> USE DEF synapse, tables, pass, history, bounds, Busy
<1>0. PickupTypeOK'
  BY TypeRooms DEF PickupInv
<1>1. /\ pc = "rooms"
      /\ UNCHANGED <<events, known, cursor, outPos, pc, lastPoked, from, upto, next, batch, start, unseen>>
  BY DEF HandleEvent, SkipEvent, FilterEvent, NoteRoutes, RecordRoutes, FanOut, RoomFails, AtEvent
<1>2. \/ destRooms' = destRooms
      \/ destRooms' = Recorded(destRooms, o)
  BY DEF HandleEvent, SkipEvent, FilterEvent, NoteRoutes, RecordRoutes, FanOut, RoomFails
<1>3. \A s \in Servers, r \in Rooms :
        destRooms[s][r] \in Nat /\ destRooms'[s][r] \in Nat /\ destRooms'[s][r] >= destRooms[s][r]
  <2> TAKE s \in Servers, r \in Rooms
  <2>1. destRooms \in Record /\ destRooms' \in Record
    BY <1>0 DEF PickupInv, PickupTypeOK
  <2>2. destRooms[s][r] \in Positions /\ destRooms'[s][r] \in Positions
    BY <2>1 DEF Record
  <2>3. destRooms[s][r] \in Nat /\ destRooms'[s][r] \in Nat
    BY <2>2, PositionsAreNumbers
  <2>4. CASE destRooms' = destRooms
    BY <2>3, <2>4
  <2>5. CASE destRooms' = Recorded(destRooms, o)
    BY <2>1, <2>3, <2>5, RecordedRoutes
  <2> QED BY <1>2, <2>4, <2>5
<1>4. ASSUME NEW x \in Orderings, NEW s \in RoutesOf[x], destRooms[s][RoomOf[x]] >= x
      PROVE  destRooms'[s][RoomOf[x]] >= x
  <2>1. s \in Servers /\ RoomOf[x] \in Rooms /\ x \in Nat
    BY PickupAssumption
  <2> QED BY <1>3, <1>4, <2>1
<1>5. PassedEventIsOwed'
  BY <1>1, <1>4 DEF PickupInv, PassedEventIsOwed, Passed
<1>6. OpenIsUnseen' /\ PassStartsAtCursor' /\ BatchCovers' /\ PositionNeverAhead'
  BY <1>1 DEF PickupInv, OpenIsUnseen, PassStartsAtCursor, BatchCovers, PositionNeverAhead
<1>7. HandledIsOwed'
  <2>1. ASSUME NEW x \in Orderings, step'[x] \in {"owed", "done"}, NEW s \in RoutesOf[x]
        PROVE  destRooms'[s][RoomOf[x]] >= x
    <3>1. CASE step[x] \in {"owed", "done"}
      BY <1>4, <3>1 DEF PickupInv, HandledIsOwed
    <3>2. CASE step[x] \notin {"owed", "done"}
      <4>1. x = o /\ (SkipEvent(o) \/ RecordRoutes(o))
        BY <2>1, <3>2 DEF HandleEvent, SkipEvent, FilterEvent, NoteRoutes, RecordRoutes, FanOut,
           RoomFails, Stage, PickupInv, PickupTypeOK
      <4>2. CASE SkipEvent(o)
        BY <2>1, <4>1, <4>2 DEF SkipEvent
      <4>3. CASE RecordRoutes(o)
        <5>1. destRooms' = Recorded(destRooms, o) /\ destRooms \in Record
          BY <4>3 DEF RecordRoutes, PickupInv, PickupTypeOK
        <5> QED BY <2>1, <4>1, <5>1, RecordedRoutes
      <4> QED BY <4>1, <4>2, <4>3
    <3> QED BY <3>1, <3>2
  <2> QED BY <1>1, <2>1 DEF HandledIsOwed
<1> QED BY <1>0, <1>5, <1>6, <1>7 DEF PickupInv

(* A failed call or a crash keeps the invariant, whether or not the call's *)
(* write was applied.                                                      *)
LEMMA InvFailures ==
  ASSUME PickupInv, CallFails \/ Crash
  PROVE  PickupInv'
<1> USE DEF synapse, tables, pass, history, bounds, Busy
<1>0. PickupTypeOK'
  BY TypeFailures DEF PickupInv
<1>n. /\ cursor \in Nat /\ lastPoked \in Nat /\ next \in Nat /\ outPos \in Nat
      /\ \A o \in Orderings : o \in Nat /\ o # 0
  BY PositionsAreNumbers, PickupAssumption DEF PickupInv, PickupTypeOK
<1>1. CASE CallFails
  <2>0. /\ pc' = "idle" /\ Return
        /\ UNCHANGED <<synapse, routes, destRooms, lastPoked, unseen>>
    BY <1>1 DEF CallFails
  <2>1. BatchCovers' /\ HandledIsOwed'
    BY <2>0 DEF Return, BatchCovers, HandledIsOwed, Unhandled
  <2>2. CASE UNCHANGED <<known, cursor, outPos, start, origin>>
    <3>1. OpenIsUnseen' /\ PassedEventIsOwed' /\ PositionNeverAhead' /\ PassStartsAtCursor'
      BY <2>0, <2>2 DEF PickupInv, OpenIsUnseen, PassedEventIsOwed, Passed, PositionNeverAhead,
         PassStartsAtCursor
    <3> QED BY <1>0, <2>1, <3>1 DEF PickupInv
  <2>3. CASE /\ pc = "cursor" /\ ~known
             /\ known' = TRUE /\ cursor' = Set(lastPoked)
             /\ start' = lastPoked /\ origin' = lastPoked /\ UNCHANGED outPos
    <3>1. OpenIsUnseen' /\ PassedEventIsOwed' /\ PositionNeverAhead'
      BY <2>0, <2>3, FirstCursor
    <3>2. PassStartsAtCursor'
      BY <2>0, <2>3 DEF PassStartsAtCursor
    <3> QED BY <1>0, <2>1, <3>1, <3>2 DEF PickupInv
  <2>4. CASE pc \in {"gap", "save"} /\ cursor' = Set(next) /\ UNCHANGED <<known, outPos, start, origin>>
    <3>1. OpenIsUnseen' /\ PassedEventIsOwed' /\ PositionNeverAhead' /\ known
      BY <2>0, <2>4, CursorMoves
    <3>2. PassStartsAtCursor'
      BY <2>0, <2>4, <3>1 DEF PassStartsAtCursor
    <3> QED BY <1>0, <2>1, <3>1, <3>2 DEF PickupInv
  <2>5. CASE /\ pc = "position" /\ outPos' = HigherOf(next, outPos)
             /\ UNCHANGED <<known, cursor, start, origin>>
    <3>1. PositionNeverAhead' /\ known
      BY <1>n, <2>5 DEF PickupInv, PositionNeverAhead, PassStartsAtCursor, HigherOf
    <3>2. OpenIsUnseen' /\ PassedEventIsOwed' /\ PassStartsAtCursor'
      BY <2>0, <2>5, <3>1 DEF PickupInv, OpenIsUnseen, PassedEventIsOwed, Passed, PassStartsAtCursor
    <3> QED BY <1>0, <2>1, <3>1, <3>2 DEF PickupInv
  <2> QED BY <1>1, <2>2, <2>3, <2>4, <2>5 DEF CallFails
<1>2. CASE Crash
  <2>0. /\ pc' = "down" /\ lastPoked' = 0 /\ Return
        /\ UNCHANGED <<synapse, tables, start, unseen>>
    BY <1>2 DEF Crash
  <2>1. BatchCovers' /\ HandledIsOwed' /\ PassStartsAtCursor'
    BY <2>0 DEF Return, BatchCovers, HandledIsOwed, PassStartsAtCursor, Unhandled, PickupInv
  <2>2. OpenIsUnseen'
    BY <1>n, <2>0 DEF PickupInv, OpenIsUnseen
  <2>3. PassedEventIsOwed' /\ PositionNeverAhead'
    BY <2>0 DEF PickupInv, PassedEventIsOwed, Passed, PositionNeverAhead
  <2> QED BY <1>0, <2>1, <2>2, <2>3 DEF PickupInv
<1> QED BY <1>1, <1>2

(* The invariant is inductive.                                             *)
LEMMA InvStep == PickupInv /\ [PickupNext]_pickupVars => PickupInv'
<1> SUFFICES ASSUME PickupInv, [PickupNext]_pickupVars PROVE PickupInv'
  OBVIOUS
<1>1. CASE UNCHANGED pickupVars
  BY <1>1 DEF pickupVars, synapse, tables, pass, history, bounds, PickupInv, PickupTypeOK,
     OpenIsUnseen, PassStartsAtCursor, BatchCovers, HandledIsOwed, PassedEventIsOwed, Passed,
     PositionNeverAhead
<1> QED BY <1>1, InvSynapse, InvLoop, InvRooms, InvFailures DEF PickupNext, WorkerStep

(* Every reachable state satisfies the invariant.                          *)
THEOREM PickupInvAlways == PickupSpec => []PickupInv
<1>1. PickupInit => PickupInv
  BY PickupInvInit
<1>2. PickupInv /\ [PickupNext]_pickupVars => PickupInv'
  BY InvStep
<1> QED BY <1>1, <1>2, PTL DEF PickupSpec

(* Sender, its cursors and Synapse's tables keep their types.              *)
THEOREM PickupTypeAlways == PickupSpec => []PickupTypeOK
<1>1. PickupInv => PickupTypeOK
  BY DEF PickupInv
<1> QED BY <1>1, PickupInvAlways, PTL

(* processBatch: an event the cursor has passed is recorded in             *)
(* destination_rooms for each of its destinations, whatever failed or died *)
(* on the way, unless seed overlooked it while it was uncommitted.         *)
THEOREM PassedEventIsOwedAlways == PickupSpec => []PassedEventIsOwed
<1>1. PickupInv => PassedEventIsOwed
  BY DEF PickupInv
<1> QED BY <1>1, PickupInvAlways, PTL

(* processBatch and recordPosition: Synapse's federation_stream_position   *)
(* is never ahead of the worker's cursor.                                  *)
THEOREM PositionNeverAheadAlways == PickupSpec => []PositionNeverAhead
<1>1. PickupInv => PositionNeverAhead
  BY DEF PickupInv
<1> QED BY <1>1, PickupInvAlways, PTL

-----------------------------------------------------------------------------
(* Pokes.                                                                  *)

(* A pass works towards the newest position it was told of, unless a poke  *)
(* has come since: then the channel holds a wake-up.                       *)
PokeServed == pc \in Busy \cup {"position"} /\ ~wake => lastPoked <= upto

PokeInv == PokeServed /\ NoPokeLost

(* A step that pokes, or leaves the loop where it is, keeps it.            *)
LEMMA PokeUntouched ==
  ASSUME PokeInv, UNCHANGED <<pc, upto, known, cursor, failed>>,
         wake' = TRUE \/ UNCHANGED <<wake, lastPoked>>
  PROVE  PokeInv'
<1>1. CASE wake' = TRUE
  BY <1>1, Zenon DEF PokeInv, PokeServed, NoPokeLost
<1>2. CASE UNCHANGED <<wake, lastPoked>>
  BY <1>2 DEF PokeInv, PokeServed, NoPokeLost
<1> QED BY <1>1, <1>2

(* The loop: a pass that rests has reached what it worked towards.         *)
LEMMA PokeLoop ==
  ASSUME PickupInv, PokeInv,
         \/ Start \/ SeedTip \/ SeedCursor \/ Begin
         \/ StartFromTip \/ ReadCursor \/ GetAllNewEventIDsStream \/ PassGap \/ GetEvents
         \/ SaveCursor \/ RecordPosition \/ WaitForRooms
  PROVE  PokeInv'
<1> USE DEF PokeInv, PokeServed, NoPokeLost, Busy
<1>n. /\ cursor \in Nat /\ lastPoked \in Nat /\ next \in Nat /\ upto \in Nat
      /\ cursor \in Positions /\ next \in Positions /\ known \in BOOLEAN
      /\ wake \in BOOLEAN /\ failed \in BOOLEAN
  BY PositionsAreNumbers DEF PickupInv, PickupTypeOK
<1>1. CASE Start \/ SeedTip \/ Begin \/ StartFromTip
  BY <1>1 DEF Start, SeedTip, Begin, StartFromTip
<1>2. CASE SeedCursor
  <2>1. wake' = TRUE /\ pc' = "idle"
    BY <1>2 DEF SeedCursor
  <2> QED BY <2>1, Zenon
<1>3. CASE ReadCursor
  BY <1>3, <1>n DEF ReadCursor, tables
<1>4. CASE GetAllNewEventIDsStream \/ GetEvents
  BY <1>4 DEF GetAllNewEventIDsStream, GetEvents, tables
<1>5. CASE SaveCursor
  BY <1>5 DEF SaveCursor, pass
<1>6. CASE PassGap
  <2>1. known /\ cursor' >= next /\ cursor' \in Positions
    BY <1>6, <1>n, SetPositions DEF PassGap, PickupInv, PassStartsAtCursor
  <2>2. cursor' \in Nat
    BY <2>1, PositionsAreNumbers
  <2>3. ~wake /\ ~(next < upto) => cursor' >= lastPoked
    BY <1>6, <1>n, <2>1, <2>2 DEF PassGap
  <2> QED BY <1>6, <2>1, <2>3 DEF PassGap
<1>7. CASE RecordPosition
  <2>1. known /\ next <= cursor
    BY <1>7 DEF RecordPosition, PickupInv, PassStartsAtCursor
  <2>2. ~wake /\ ~(next < upto) => cursor >= lastPoked
    BY <1>7, <1>n, <2>1 DEF RecordPosition
  <2> QED BY <1>7, <2>1, <2>2 DEF RecordPosition
<1>8. CASE WaitForRooms
  <2>1. CASE Cancelled
    <3>1. failed' /\ pc' = "idle"
      BY <1>8, <2>1 DEF WaitForRooms
    <3> QED BY <3>1
  <2>2. CASE ~Cancelled
    BY <1>8, <2>2 DEF WaitForRooms, pass
  <2> QED BY <2>1, <2>2
<1> QED BY <1>1, <1>2, <1>3, <1>4, <1>5, <1>6, <1>7, <1>8

(* Every step keeps it.                                                    *)
LEMMA PokeStep ==
  ASSUME PickupInv, PokeInv, [PickupNext]_pickupVars
  PROVE  PokeInv'
<1> USE DEF synapse, tables, pass, history, bounds
<1>1. CASE \/ \E o \in Orderings : Commit(o) \/ Purge(o)
           \/ \E s \in Servers : FlipBackoff(s)
           \/ \E p \in Orderings : NotifyNewEvents(p)
           \/ UNCHANGED pickupVars
  BY <1>1, PokeUntouched DEF Commit, Purge, FlipBackoff, NotifyNewEvents, pickupVars
<1>2. CASE \E o \in Orderings : HandleEvent(o)
  BY <1>2, PokeUntouched DEF HandleEvent, SkipEvent, FilterEvent, NoteRoutes, RecordRoutes,
     FanOut, RoomFails
<1>3. CASE CallFails
  <2>1. pc' = "idle" /\ failed' = TRUE
    BY <1>3 DEF CallFails
  <2> QED BY <2>1, Zenon DEF PokeInv, PokeServed, NoPokeLost, Busy
<1>4. CASE Crash
  BY <1>4 DEF Crash, PokeInv, PokeServed, NoPokeLost, Busy
<1> QED BY <1>1, <1>2, <1>3, <1>4, PokeLoop DEF PickupNext, WorkerStep

(* NotifyNewEvents and Run: a poke that comes while the loop is between    *)
(* any two of its calls is served, by this pass or by the next, unless a   *)
(* call fails.                                                             *)
THEOREM NoPokeLostAlways == PickupSpec => []NoPokeLost
<1>1. PickupInit => PokeInv
  BY DEF PickupInit, PokeInv, PokeServed, NoPokeLost, Busy
<1>2. PickupInv /\ PokeInv /\ [PickupNext]_pickupVars => PokeInv'
  BY PokeStep
<1>3. PokeInv => NoPokeLost
  BY DEF PokeInv
<1> QED BY <1>1, <1>2, <1>3, PickupInvAlways, PTL DEF PickupSpec

-----------------------------------------------------------------------------
(* The queues, and the order of a room's events on them.                   *)

SameRoom(o, x) == RoomOf[o] = RoomOf[x]

(* What has been done about an event for one destination.                  *)
DealtWith(s, o) == o \in Arrived(s) \cup held[s]

(* Synapse persists a room's events one after the other.                   *)
RoomsInOrder ==
  \A o, x \in Orderings :
    o < x /\ SameRoom(o, x) /\ events[x] # "open" => events[o] # "open"

(* A batch lies above the cursor, and holds with an event all earlier ones *)
(* of its room: nothing can commit in between.                             *)
BatchInHand ==
  /\ pc \in {"load", "rooms"} =>
       \A x \in batch :
         /\ from < x /\ events[x] # "open"
         /\ \A o \in Orderings :
              from < o /\ o < x /\ SameRoom(o, x) /\ events[o] = "stored" => o \in batch
  /\ pc = "rooms" => \A x \in batch : events[x] = "stored"

DueIsRouted == \A o \in Orderings : due[o] \subseteq RoutesOf[o]

DoneIsQueued ==
  \A o \in Orderings : step[o] = "done" => \A s \in RoutesOf[o] : DealtWith(s, o)

ArrivedIsCommitted == \A s \in Servers : \A x \in Arrived(s) : events[x] # "open"

(* Of the events a later pass will read again, none was left out below one *)
(* of its room that has arrived.                                           *)
NoneOvertaken ==
  \A s \in Servers : \A x \in Arrived(s), o \in Orderings :
    o < x /\ SameRoom(o, x) /\ events[o] = "stored" /\ s \in RoutesOf[o] /\ cursor < o
      => DealtWith(s, o)

OrderInv == /\ RoomsInOrder /\ BatchInHand /\ DueIsRouted /\ DoneIsQueued
            /\ ArrivedIsCommitted /\ NoneOvertaken
            /\ PassedEventIsQueued /\ FirstArrivalsInOrder

(* Orderings and the cursor are numbers.                                   *)
LEMMA PickupNumbers ==
  ASSUME PickupTypeOK
  PROVE  /\ cursor \in Nat /\ from \in Nat /\ next \in Nat /\ upto \in Nat /\ origin \in Nat
         /\ cursor \in Positions /\ next \in Positions /\ known \in BOOLEAN
         /\ \A o \in Orderings : o \in Nat
BY PositionsAreNumbers DEF PickupTypeOK

(* A step that touches no queue, and forgets its batch or keeps it.        *)
LEMMA OrderUntouched ==
  ASSUME PickupTypeOK, OrderInv, UNCHANGED <<events, queued, held>>,
         \/ pc' = pc /\ UNCHANGED <<batch, from>>
         \/ pc' \notin {"load", "rooms"},
         step' = step \/ step' = Unhandled, due' = due \/ due' = NoRoute,
         cursor' \in Nat, cursor <= cursor', PassedEventIsQueued'
  PROVE  OrderInv'
<1>n. cursor \in Nat /\ \A o \in Orderings : o \in Nat
  BY PickupNumbers
<1>1. RoomsInOrder' /\ ArrivedIsCommitted' /\ FirstArrivalsInOrder'
  BY DEF OrderInv, RoomsInOrder, ArrivedIsCommitted, FirstArrivalsInOrder, Arrived
<1>2. BatchInHand'
  BY DEF OrderInv, BatchInHand
<1>3. DueIsRouted'
  BY DEF OrderInv, DueIsRouted, NoRoute
<1>4. DoneIsQueued'
  BY DEF OrderInv, DoneIsQueued, Unhandled, DealtWith, Arrived
<1>5. NoneOvertaken'
  <2>1. \A o \in Orderings : cursor' < o => cursor < o
    BY <1>n
  <2> QED BY <2>1 DEF OrderInv, NoneOvertaken, DealtWith, Arrived
<1> QED BY <1>1, <1>2, <1>3, <1>4, <1>5 DEF OrderInv

(* What was passed and queued stays so while neither changes.              *)
LEMMA PassedUntouched ==
  ASSUME PassedEventIsQueued, UNCHANGED <<events, known, cursor, origin, queued, held>>,
         unseen \subseteq unseen'
  PROVE  PassedEventIsQueued'
BY DEF PassedEventIsQueued, Passed, Arrived

(* Moving the cursor to the end of a batch that is all handled.            *)
LEMMA CursorMovesQueued ==
  ASSUME PickupInv, OrderInv, pc \in {"gap", "save"}, cursor' = Set(next),
         UNCHANGED <<events, known, unseen, origin, queued, held>>
  PROVE  PassedEventIsQueued' /\ cursor' \in Nat /\ cursor <= cursor'
<1>n. /\ cursor \in Nat /\ next \in Nat /\ cursor \in Positions /\ next \in Positions
      /\ known \in BOOLEAN /\ \A o \in Orderings : o \in Nat
  BY PickupNumbers DEF PickupInv
<1>1. known /\ from = cursor
  BY DEF PickupInv, PassStartsAtCursor, Busy
<1>2. cursor' \in Nat /\ cursor <= cursor' /\ (cursor' = next \/ cursor' = cursor)
  BY <1>n, <1>1, SetPositions, PositionsAreNumbers
<1>3. PassedEventIsQueued'
  <2> SUFFICES ASSUME NEW o \in Orderings \ unseen, events[o] = "stored", o <= cursor', o > origin,
                      NEW s \in RoutesOf[o]
               PROVE  DealtWith(s, o)
    BY DEF PassedEventIsQueued, Passed, DealtWith, Arrived
  <2>1. CASE o <= cursor
    BY <1>1, <2>1 DEF OrderInv, PassedEventIsQueued, Passed, DealtWith
  <2>2. CASE ~(o <= cursor)
    <3>1. from < o /\ o <= next
      BY <1>n, <1>1, <1>2, <2>2
    <3>2. o \in batch
      BY <3>1 DEF PickupInv, BatchCovers, Busy
    <3>3. step[o] = "done"
      BY <3>2 DEF PickupInv, BatchCovers, HandledIsOwed
    <3> QED BY <3>3 DEF OrderInv, DoneIsQueued
  <2> QED BY <2>1, <2>2
<1> QED BY <1>2, <1>3

(* A transaction commits, or an event is purged.                           *)
LEMMA OrderSynapse ==
  ASSUME PickupInv, OrderInv, NEW c \in Orderings, Commit(c) \/ Purge(c)
  PROVE  OrderInv'
<1>n. cursor \in Nat /\ \A o \in Orderings : o \in Nat
  BY PickupNumbers DEF PickupInv
<1>1. /\ \A x \in Orderings : x # c => events'[x] = events[x]
      /\ events'[c] \in {"stored", "gone"} /\ pc' = pc
      /\ events[c] = "open" \/ (events'[c] = "gone" /\ pc = "load")
      /\ UNCHANGED <<known, cursor, from, batch, step, due, unseen, origin, queued, held>>
  BY DEF Commit, Purge, PickupInv, PickupTypeOK, tables, pass, history
<1>2. ASSUME NEW x \in Orderings, c < x, SameRoom(c, x), events[x] # "open"
      PROVE  events[c] # "open" /\ events'[c] = "gone"
  BY <1>1, <1>2 DEF OrderInv, RoomsInOrder
<1>3. RoomsInOrder'
  <2> SUFFICES ASSUME NEW o \in Orderings, NEW x \in Orderings, o < x, SameRoom(o, x),
                      events'[x] # "open", o # c, events[o] = "open"
               PROVE  FALSE
    BY <1>1 DEF RoomsInOrder
  <2>1. CASE x # c
    BY <1>1, <2>1 DEF OrderInv, RoomsInOrder
  <2>2. CASE x = c /\ Commit(c)
    BY <2>2 DEF Commit, OpenBelow, SameRoom
  <2>3. CASE x = c /\ Purge(c)
    BY <2>3 DEF Purge, OrderInv, RoomsInOrder
  <2> QED BY <2>1, <2>2, <2>3
<1>4. BatchInHand'
  <2>1. ASSUME pc \in {"load", "rooms"}, NEW x \in batch
        PROVE  /\ from < x /\ events'[x] # "open" /\ events[x] # "open" /\ x \in Orderings
               /\ \A o \in Orderings :
                    from < o /\ o < x /\ SameRoom(o, x) /\ events'[o] = "stored" => o \in batch
    <3>1. x \in Orderings /\ events[x] # "open" /\ from < x
      BY <2>1 DEF PickupInv, PickupTypeOK, OrderInv, BatchInHand
    <3>2. events'[x] # "open"
      BY <1>1, <3>1
    <3>3. ASSUME NEW o \in Orderings, from < o, o < x, SameRoom(o, x), events'[o] = "stored"
          PROVE  o \in batch
      <4>1. o # c
        BY <1>2, <3>1, <3>3
      <4> QED BY <1>1, <2>1, <3>3, <4>1 DEF OrderInv, BatchInHand
    <3> QED BY <3>1, <3>2, <3>3
  <2>2. ASSUME pc = "rooms", NEW x \in batch
        PROVE  events'[x] = "stored"
    <3>1. events[x] = "stored" /\ x \in Orderings
      BY <2>2 DEF OrderInv, BatchInHand, PickupInv, PickupTypeOK
    <3>2. x # c
      BY <1>1, <2>2, <3>1
    <3> QED BY <1>1, <3>1, <3>2
  <2> QED BY <1>1, <2>1, <2>2 DEF BatchInHand
<1>5. DueIsRouted' /\ DoneIsQueued' /\ FirstArrivalsInOrder'
  BY <1>1 DEF OrderInv, DueIsRouted, DoneIsQueued, FirstArrivalsInOrder, DealtWith, Arrived
<1>6. \A s \in Servers : Arrived(s)' = Arrived(s) /\ Arrived(s) \subseteq Orderings
  BY <1>1 DEF Arrived, PickupInv, PickupTypeOK
<1>7. ArrivedIsCommitted'
  BY <1>1, <1>6 DEF OrderInv, ArrivedIsCommitted
<1>8. NoneOvertaken'
  <2> SUFFICES ASSUME NEW s \in Servers, NEW x \in Arrived(s), NEW o \in Orderings, o < x,
                      SameRoom(o, x), events'[o] = "stored", s \in RoutesOf[o], cursor < o
               PROVE  DealtWith(s, o)
    BY <1>1, <1>6 DEF NoneOvertaken, DealtWith, Arrived
  <2>1. x \in Orderings /\ events[x] # "open"
    BY <1>6 DEF OrderInv, ArrivedIsCommitted
  <2>2. o # c
    BY <1>2, <2>1
  <2> QED BY <1>1, <2>2 DEF OrderInv, NoneOvertaken
<1>9. PassedEventIsQueued'
  <2>1. c <= cursor /\ events[c] = "open" => c \in unseen
    BY DEF PickupInv, OpenIsUnseen
  <2>2. \A o \in Orderings : events'[o] = "stored" /\ o <= cursor /\ o \notin unseen
          => events[o] = "stored"
    BY <1>1, <2>1
  <2> QED BY <1>1, <2>2 DEF OrderInv, PassedEventIsQueued, Passed, Arrived
<1> QED BY <1>3, <1>4, <1>5, <1>7, <1>8, <1>9 DEF OrderInv

(* The query and the load: a prefix of the window, above the cursor.       *)
LEMMA OrderQuery ==
  ASSUME PickupInv, OrderInv, GetAllNewEventIDsStream \/ GetEvents
  PROVE  OrderInv'
<1>1. /\ UNCHANGED <<events, known, cursor, from, step, due, unseen, origin, queued, held>>
  BY DEF GetAllNewEventIDsStream, GetEvents, synapse, tables, history
<1>2. RoomsInOrder' /\ DueIsRouted' /\ DoneIsQueued' /\ ArrivedIsCommitted' /\ FirstArrivalsInOrder'
  BY <1>1 DEF OrderInv, RoomsInOrder, DueIsRouted, DoneIsQueued, ArrivedIsCommitted,
     FirstArrivalsInOrder, DealtWith, Arrived
<1>3. NoneOvertaken' /\ PassedEventIsQueued'
  BY <1>1 DEF OrderInv, NoneOvertaken, PassedEventIsQueued, Passed, DealtWith, Arrived
<1>4. CASE GetAllNewEventIDsStream
  <2>1. PICK rows \in Limited : batch' = rows /\ pc' = IF rows = {} THEN "gap" ELSE "load"
    BY <1>4 DEF GetAllNewEventIDsStream
  <2>2. /\ rows \subseteq Window
        /\ \A o \in rows, x \in Window : x < o => x \in rows
    BY DEF Limited
  <2>3. ASSUME NEW x \in rows
        PROVE  /\ from < x /\ events[x] # "open"
               /\ \A o \in Orderings : from < o /\ o < x /\ events[o] = "stored" => o \in rows
    <3>1. x \in Orderings /\ from < x /\ x <= upto /\ events[x] = "stored"
      BY <2>2, <2>3 DEF Window
    <3>2. ASSUME NEW o \in Orderings, from < o, o < x, events[o] = "stored"
          PROVE  o \in Window
      BY <3>1, <3>2, PickupNumbers DEF Window, PickupInv
    <3> QED BY <2>2, <3>1, <3>2
  <2>4. BatchInHand'
    BY <1>1, <2>1, <2>3 DEF BatchInHand
  <2> QED BY <1>2, <1>3, <2>4 DEF OrderInv
<1>5. CASE GetEvents
  <2>1. batch' = {o \in batch : events[o] = "stored"} /\ pc = "load" /\ pc' = "rooms"
    BY <1>5 DEF GetEvents
  <2>2. BatchInHand'
    BY <1>1, <2>1 DEF OrderInv, BatchInHand
  <2> QED BY <1>2, <1>3, <2>2 DEF OrderInv
<1> QED BY <1>4, <1>5

(* A room at work, short of the fan-out.                                   *)
LEMMA OrderRoom ==
  ASSUME PickupInv, OrderInv, NEW c \in Orderings,
         SkipEvent(c) \/ FilterEvent(c) \/ NoteRoutes(c) \/ RecordRoutes(c) \/ RoomFails(c)
  PROVE  OrderInv'
<1>1. /\ UNCHANGED <<events, known, cursor, pc, from, batch, unseen, origin, queued, held>>
  BY DEF SkipEvent, FilterEvent, NoteRoutes, RecordRoutes, RoomFails, synapse, history, tables
<1>2. RoomsInOrder' /\ BatchInHand' /\ ArrivedIsCommitted' /\ FirstArrivalsInOrder'
  BY <1>1 DEF OrderInv, RoomsInOrder, BatchInHand, ArrivedIsCommitted, FirstArrivalsInOrder, Arrived
<1>3. NoneOvertaken' /\ PassedEventIsQueued'
  BY <1>1 DEF OrderInv, NoneOvertaken, PassedEventIsQueued, Passed, DealtWith, Arrived
<1>4. step \in [Orderings -> Stages] /\ due \in [Orderings -> SUBSET Servers]
  BY DEF PickupInv, PickupTypeOK
<1>5. DueIsRouted'
  BY <1>4 DEF OrderInv, DueIsRouted, SkipEvent, FilterEvent, NoteRoutes, RecordRoutes, RoomFails
<1>6. \A o \in Orderings : step'[o] = "done" => step[o] = "done" \/ RoutesOf[o] = {}
  BY <1>4 DEF SkipEvent, FilterEvent, NoteRoutes, RecordRoutes, RoomFails, Stage
<1>7. DoneIsQueued'
  BY <1>1, <1>6 DEF OrderInv, DoneIsQueued, DealtWith, Arrived
<1> QED BY <1>2, <1>3, <1>5, <1>7 DEF OrderInv

(* What a fan-out adds to one queue: the event, at the end, if it is due   *)
(* there and not there already.                                            *)
LEMMA FanOutAdds ==
  ASSUME PickupTypeOK, NEW c \in Orderings, FanOut(c), NEW s \in Servers
  PROVE  /\ held[s] \subseteq held'[s]
         /\ s \in RoutesOf[c] => DealtWith(s, c)'
         /\ \/ queued'[s] = queued[s] /\ Arrived(s)' = Arrived(s)
            \/ /\ s \in due[c] /\ c \notin Arrived(s)
               /\ queued'[s] = Append(queued[s], c) /\ Arrived(s)' = Arrived(s) \cup {c}
<1>1. /\ queued[s] \in Seq(Orderings) /\ queued \in [Servers -> Seq(Orderings)]
      /\ held \in [Servers -> SUBSET Orderings]
  BY DEF PickupTypeOK
<1>2. queued'[s] = IF s \in due[c] /\ c \notin Arrived(s) THEN Append(queued[s], c) ELSE queued[s]
  BY DEF FanOut
<1>3. held'[s] = IF s \in RoutesOf[c] \ due[c] THEN held[s] \cup {c} ELSE held[s]
  BY DEF FanOut
<1>4. CASE s \in due[c] /\ c \notin Arrived(s)
  <2>1. queued'[s] = Append(queued[s], c)
    BY <1>2, <1>4
  <2>2. /\ Len(queued'[s]) = Len(queued[s]) + 1 /\ Len(queued[s]) \in Nat
        /\ queued'[s][Len(queued[s]) + 1] = c
        /\ \A i \in 1..Len(queued[s]) : queued'[s][i] = queued[s][i]
        /\ DOMAIN queued'[s] = 1..(Len(queued[s]) + 1) /\ DOMAIN queued[s] = 1..Len(queued[s])
    BY <1>1, <2>1
  <2>3. Arrived(s)' = Arrived(s) \cup {c}
    BY <2>2 DEF Arrived
  <2> QED BY <1>3, <1>4, <2>1, <2>3 DEF DealtWith
<1>5. CASE ~(s \in due[c] /\ c \notin Arrived(s))
  <2>1. queued'[s] = queued[s]
    BY <1>2, <1>5
  <2>2. Arrived(s)' = Arrived(s)
    BY <2>1 DEF Arrived
  <2> QED BY <1>3, <1>5, <2>1, <2>2 DEF DealtWith
<1> QED BY <1>4, <1>5

(* The fan-out: an event that arrives behind a later one of its room was   *)
(* dealt with before that one arrived, so it had been held back.           *)
LEMMA OrderFanOut ==
  ASSUME PickupInv, OrderInv, NEW c \in Orderings, FanOut(c)
  PROVE  OrderInv'
<1>1. /\ UNCHANGED <<events, known, cursor, pc, from, batch, due, unseen, origin>>
      /\ pc = "rooms" /\ c \in batch
      /\ \A x \in Orderings : InRoom(c, x) /\ x < c => step[x] = "done"
      /\ step' = [step EXCEPT ![c] = "done"]
  BY DEF FanOut, AtEvent, synapse, tables, Stage
<1>2. /\ PickupTypeOK /\ step \in [Orderings -> Stages] /\ RoutesOf \in [Orderings -> SUBSET Servers]
      /\ cursor \in Nat /\ \A o \in Orderings : o \in Nat
  BY PickupAssumption, PickupNumbers DEF PickupInv, PickupTypeOK
<1>3. from = cursor /\ cursor < c /\ events[c] = "stored" /\ due[c] \subseteq RoutesOf[c]
  BY <1>1 DEF PickupInv, PassStartsAtCursor, Busy, OrderInv, BatchInHand, DueIsRouted
<1>4. ASSUME NEW s \in Servers, NEW o, DealtWith(s, o)
      PROVE  DealtWith(s, o)'
  BY <1>2, <1>4, FanOutAdds DEF DealtWith
<1>5. RoomsInOrder' /\ BatchInHand' /\ DueIsRouted'
  BY <1>1 DEF OrderInv, RoomsInOrder, BatchInHand, DueIsRouted
<1>6. DoneIsQueued'
  <2> SUFFICES ASSUME NEW o \in Orderings, step'[o] = "done", NEW s \in RoutesOf[o]
               PROVE  DealtWith(s, o)'
    BY DEF DoneIsQueued
  <2>1. s \in Servers
    BY <1>2
  <2>2. CASE o = c
    BY <1>2, <2>1, <2>2, FanOutAdds
  <2>3. CASE o # c
    BY <1>1, <1>2, <1>4, <2>1, <2>3 DEF OrderInv, DoneIsQueued
  <2> QED BY <2>2, <2>3
<1>7. ASSUME NEW s \in Servers, NEW x \in Arrived(s)'
      PROVE  x \in Arrived(s) \/ (x = c /\ s \in due[c])
  BY <1>2, <1>7, FanOutAdds
<1>8. ArrivedIsCommitted'
  BY <1>1, <1>3, <1>7 DEF OrderInv, ArrivedIsCommitted
<1>9. NoneOvertaken'
  <2> SUFFICES ASSUME NEW s \in Servers, NEW x \in Arrived(s)', NEW o \in Orderings, o < x,
                      SameRoom(o, x), events[o] = "stored", s \in RoutesOf[o], cursor < o
               PROVE  DealtWith(s, o)'
    BY <1>1 DEF NoneOvertaken
  <2>1. CASE x \in Arrived(s)
    BY <1>4, <2>1 DEF OrderInv, NoneOvertaken
  <2>2. CASE x = c
    <3>1. o \in batch
      BY <1>1, <1>3, <2>2 DEF OrderInv, BatchInHand
    <3>2. step[o] = "done"
      BY <1>1, <2>2, <3>1 DEF InRoom, SameRoom
    <3> QED BY <1>4, <3>2 DEF OrderInv, DoneIsQueued
  <2> QED BY <1>7, <2>1, <2>2
<1>10. PassedEventIsQueued'
  <2> SUFFICES ASSUME NEW o \in Orderings \ unseen, Passed(o), o > origin, NEW s \in RoutesOf[o]
               PROVE  DealtWith(s, o)'
    BY <1>1 DEF PassedEventIsQueued, Passed, DealtWith
  <2>1. s \in Servers
    BY <1>2
  <2>2. DealtWith(s, o)
    BY DEF OrderInv, PassedEventIsQueued, DealtWith
  <2> QED BY <1>4, <2>1, <2>2
<1>11. FirstArrivalsInOrder'
  <2> SUFFICES ASSUME NEW s \in Servers, NEW i \in DOMAIN queued'[s], NEW j \in DOMAIN queued'[s],
                      i < j, RoomOf[queued'[s][i]] = RoomOf[queued'[s][j]],
                      queued'[s][i] > queued'[s][j]
               PROVE  queued'[s][j] \in held'[s]
    BY DEF FirstArrivalsInOrder
  <2>1. queued[s] \in Seq(Orderings) /\ held[s] \subseteq held'[s]
    BY <1>2, FanOutAdds DEF PickupTypeOK
  <2>2. CASE queued'[s] = queued[s]
    BY <2>1, <2>2 DEF OrderInv, FirstArrivalsInOrder
  <2>3. CASE s \in due[c] /\ c \notin Arrived(s) /\ queued'[s] = Append(queued[s], c)
    <3>1. /\ DOMAIN queued'[s] = 1..(Len(queued[s]) + 1) /\ DOMAIN queued[s] = 1..Len(queued[s])
          /\ Len(queued[s]) \in Nat /\ queued'[s][Len(queued[s]) + 1] = c
          /\ \A k \in 1..Len(queued[s]) : queued'[s][k] = queued[s][k]
      BY <2>1, <2>3
    <3>2. i \in DOMAIN queued[s]
      BY <3>1
    <3>3. CASE j \in DOMAIN queued[s]
      BY <2>1, <3>1, <3>2, <3>3 DEF OrderInv, FirstArrivalsInOrder
    <3>4. CASE j = Len(queued[s]) + 1
      <4>1. queued[s][i] \in Arrived(s) /\ queued'[s][i] = queued[s][i] /\ queued[s][i] \in Orderings
        BY <2>1, <3>1, <3>2 DEF Arrived
      <4>2. c < queued[s][i] /\ SameRoom(c, queued[s][i]) /\ s \in RoutesOf[c]
        BY <1>2, <1>3, <2>3, <3>1, <3>4, <4>1 DEF SameRoom
      <4>3. DealtWith(s, c)
        BY <1>3, <4>1, <4>2 DEF OrderInv, NoneOvertaken
      <4>4. c \in held[s]
        BY <2>3, <4>3 DEF DealtWith
      <4> QED BY <2>1, <3>1, <3>4, <4>4
    <3> QED BY <3>1, <3>3, <3>4
  <2> QED BY <1>2, <2>2, <2>3, FanOutAdds
<1> QED BY <1>5, <1>6, <1>8, <1>9, <1>10, <1>11 DEF OrderInv

(* The first cursor: this process starts there.                            *)
LEMMA FirstCursorQueued ==
  ASSUME PickupInv, ~known, known' = TRUE, cursor' = Set(lastPoked), origin' = lastPoked
  PROVE  PassedEventIsQueued' /\ cursor' \in Nat /\ cursor <= cursor'
<1>1. cursor' = lastPoked /\ cursor = 0 /\ lastPoked \in Nat /\ \A o \in Orderings : o \in Nat
  BY PositionsAreNumbers DEF Set, PickupInv, PassStartsAtCursor, PickupTypeOK
<1> QED BY <1>1 DEF PassedEventIsQueued, Passed

(* Every other step of the loop.                                           *)
LEMMA OrderLoop ==
  ASSUME PickupInv, OrderInv,
         \/ Start \/ SeedTip \/ SeedCursor \/ Begin \/ StartFromTip \/ ReadCursor \/ PassGap
         \/ SaveCursor \/ RecordPosition \/ WaitForRooms \/ CallFails
  PROVE  OrderInv'
<1> USE DEF synapse, tables, pass, history, bounds, Return
<1>0. PickupTypeOK /\ cursor \in Nat /\ cursor <= cursor
  BY PickupNumbers DEF PickupInv
<1>1. CASE Start \/ SeedTip \/ SeedCursor \/ Begin \/ ReadCursor \/ RecordPosition \/ WaitForRooms
  <2>1. /\ UNCHANGED <<events, known, cursor, origin, queued, held>> /\ unseen \subseteq unseen'
        /\ step' = step \/ step' = Unhandled
        /\ due' = due \/ due' = NoRoute
        /\ pc' \notin {"load", "rooms"}
    BY <1>1 DEF Start, SeedTip, SeedCursor, Begin, ReadCursor, RecordPosition, WaitForRooms
  <2> QED BY <1>0, <2>1, OrderUntouched, PassedUntouched DEF OrderInv
<1>2. CASE StartFromTip
  BY <1>0, <1>2, FirstCursorQueued, OrderUntouched DEF StartFromTip
<1>3. CASE PassGap \/ SaveCursor
  <2>1. /\ UNCHANGED <<events, known, unseen, origin, queued, held>>
        /\ pc \in {"gap", "save"} /\ cursor' = Set(next)
        /\ step' = step \/ step' = Unhandled
        /\ due' = due \/ due' = NoRoute
        /\ pc' \notin {"load", "rooms"}
    BY <1>3 DEF PassGap, SaveCursor
  <2> QED BY <1>0, <2>1, CursorMovesQueued, OrderUntouched
<1>4. CASE CallFails
  <2>1. /\ UNCHANGED <<events, unseen, queued, held>>
        /\ step' = Unhandled /\ due' = NoRoute /\ pc' \notin {"load", "rooms"}
    BY <1>4 DEF CallFails
  <2>2. CASE UNCHANGED <<known, cursor, origin>>
    BY <1>0, <2>1, <2>2, OrderUntouched, PassedUntouched DEF OrderInv
  <2>3. CASE ~known /\ known' = TRUE /\ cursor' = Set(lastPoked) /\ origin' = lastPoked
    BY <1>0, <2>1, <2>3, FirstCursorQueued, OrderUntouched
  <2>4. CASE pc \in {"gap", "save"} /\ cursor' = Set(next) /\ UNCHANGED <<known, origin>>
    BY <1>0, <2>1, <2>4, CursorMovesQueued, OrderUntouched
  <2> QED BY <1>4, <2>2, <2>3, <2>4 DEF CallFails
<1> QED BY <1>1, <1>2, <1>3, <1>4

(* A restart: empty queues, and nothing passed that was not passed before. *)
LEMMA OrderCrash ==
  ASSUME PickupInv, OrderInv, Crash
  PROVE  OrderInv'
<1>1. /\ pc' = "down" /\ step' = Unhandled /\ due' = NoRoute /\ origin' = cursor
      /\ UNCHANGED <<events, known, cursor>>
      /\ queued' = [s \in Servers |-> <<>>] /\ held' = [s \in Servers |-> {}]
  BY DEF Crash, Return, synapse, tables
<1>2. cursor \in Nat /\ \A o \in Orderings : o \in Nat
  BY PickupNumbers DEF PickupInv
<1>3. \A s \in Servers : Arrived(s)' = {} /\ DOMAIN queued'[s] = {}
  BY <1>1 DEF Arrived
<1>4. RoomsInOrder' /\ BatchInHand' /\ DueIsRouted' /\ DoneIsQueued'
  BY <1>1 DEF OrderInv, RoomsInOrder, BatchInHand, DueIsRouted, DoneIsQueued, Unhandled, NoRoute
<1>5. ArrivedIsCommitted' /\ NoneOvertaken' /\ FirstArrivalsInOrder'
  BY <1>3 DEF ArrivedIsCommitted, NoneOvertaken, FirstArrivalsInOrder
<1>6. PassedEventIsQueued'
  BY <1>1, <1>2 DEF PassedEventIsQueued, Passed
<1> QED BY <1>4, <1>5, <1>6 DEF OrderInv

(* Every step keeps it.                                                    *)
LEMMA OrderStep ==
  ASSUME PickupInv, OrderInv, [PickupNext]_pickupVars
  PROVE  OrderInv'
<1>1. CASE \/ \E s \in Servers : FlipBackoff(s)
           \/ \E p \in Orderings : NotifyNewEvents(p)
           \/ UNCHANGED pickupVars
  <2>1. /\ UNCHANGED <<events, known, cursor, pc, batch, from, step, due, unseen, origin, queued, held>>
    BY <1>1 DEF FlipBackoff, NotifyNewEvents, pickupVars, synapse, tables, pass, history
  <2>2. PickupTypeOK /\ cursor \in Nat /\ cursor <= cursor /\ unseen \subseteq unseen
    BY PickupNumbers DEF PickupInv
  <2> QED BY <2>1, <2>2, OrderUntouched, PassedUntouched DEF OrderInv
<1>2. CASE \E o \in Orderings : Commit(o) \/ Purge(o)
  BY <1>2, OrderSynapse
<1>3. CASE \E o \in Orderings : HandleEvent(o)
  BY <1>3, OrderRoom, OrderFanOut DEF HandleEvent
<1> QED BY <1>1, <1>2, <1>3, OrderQuery, OrderLoop, OrderCrash DEF PickupNext, WorkerStep

(* Every reachable state satisfies it.                                     *)
LEMMA OrderInvariant == PickupSpec => []OrderInv
<1>1. PickupInit => OrderInv
  <2> SUFFICES ASSUME PickupInit PROVE OrderInv
    OBVIOUS
  <2>1. \A s \in Servers : Arrived(s) = {} /\ DOMAIN queued[s] = {}
    BY DEF PickupInit, Arrived
  <2>2. ArrivedIsCommitted /\ NoneOvertaken /\ FirstArrivalsInOrder
    BY <2>1 DEF ArrivedIsCommitted, NoneOvertaken, FirstArrivalsInOrder
  <2>3. RoomsInOrder /\ BatchInHand /\ DueIsRouted /\ DoneIsQueued /\ PassedEventIsQueued
    BY DEF PickupInit, RoomsInOrder, BatchInHand, DueIsRouted, DoneIsQueued,
       PassedEventIsQueued, Passed, Unhandled, NoRoute
  <2> QED BY <2>2, <2>3 DEF OrderInv
<1>2. PickupInv /\ OrderInv /\ [PickupNext]_pickupVars => OrderInv'
  BY OrderStep
<1> QED BY <1>1, <1>2, PickupInvAlways, PTL DEF PickupSpec

(* handleEvents and processBatch: an event the cursor has passed in this   *)
(* process is on the queue of each destination that was not backing off,   *)
(* whichever passes failed half way.                                       *)
THEOREM PassedEventIsQueuedAlways == PickupSpec => []PassedEventIsQueued
<1>1. OrderInv => PassedEventIsQueued
  BY DEF OrderInv
<1> QED BY <1>1, OrderInvariant, PTL

(* handleEvents: a retried pass does not queue an event behind a later one *)
(* of its room, unless the retry filter had kept it back.                  *)
THEOREM FirstArrivalsInOrderAlways == PickupSpec => []FirstArrivalsInOrder
<1>1. OrderInv => FirstArrivalsInOrder
  BY DEF OrderInv
<1> QED BY <1>1, OrderInvariant, PTL
=============================================================================
