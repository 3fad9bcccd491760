------------------------------ MODULE CatchUp ------------------------------
(***************************************************************************)
(* How an event reaches one destination although the destination, or this  *)
(* worker, may be down when it happens: Sender.handleEvent records the     *)
(* event's room in destination_rooms and hands the event to the live       *)
(* queue; CatchUp.Destination replays what destination_rooms says is still *)
(* owed.  Composes Destination.tla with the event router, the catch-up     *)
(* sweep, the two tables and crashes of the worker.                        *)
(***************************************************************************)
EXTENDS Destination

CONSTANTS
  Rooms,
  RoomOf,       \* the room of each event
  PageSize,     \* catchUpPageSize
  OutboxOwed,   \* device_federation_outbox has rows for the destination
  MaxCrashes    \* bound: restarts of the worker

ASSUME CatchUpAssumption ==
  /\ RoomOf \in [Orderings -> Rooms]
  /\ PageSize \in Nat \ {0} /\ OutboxOwed \in BOOLEAN
  /\ MaxCrashes \in Nat

VARIABLES
  destRooms,    \* destination_rooms: the newest ordering owed, per room
  routed,       \* how far handleEvent is with each event
  sweep,        \* where CatchUp.Destination is
  from,         \* its local lastSuccessful
  page,         \* the owed orderings it has read and not yet sent
  crashes

catchUpState == <<destRooms, routed, sweep, from, page, crashes>>
allVars == <<vars, catchUpState>>

RouteSteps == {"new", "kept", "held", "owed", "done"}
SweepSteps == {"idle", "read", "seed", "page", "skipped", "finish", "send", "sending", "sent"}

CatchUpTypeOK ==
  /\ TypeOK
  /\ destRooms \in [Rooms -> Orderings \cup {0}]
  /\ routed \in [Orderings -> RouteSteps]
  /\ sweep \in SweepSteps
  /\ from \in Nat
  /\ page \in SUBSET Orderings
  /\ crashes \in 0..MaxCrashes

CatchUpInit ==
  /\ Init
  /\ destRooms = [r \in Rooms |-> 0]
  /\ routed = [so \in Orderings |-> "new"]
  /\ sweep = "idle" /\ from = 0 /\ page = {}
  /\ crashes = 0

-----------------------------------------------------------------------------
(* Sender.handleEvent: rooms concurrently, each room's events in order.    *)

InRoomOrder(so) ==
  \A earlier \in Orderings :
    earlier < so /\ RoomOf[earlier] = RoomOf[so] => routed[earlier] = "done"

(* FilterDestinationsByRetryLimiter, on the row Synapse keeps: it may lag  *)
(* the limiter by a failed or a pending write, so either verdict may come. *)
RetryFilter(so) ==
  /\ routed[so] = "new" /\ InRoomOrder(so)
  /\ \E verdict \in {"kept", "held"} : routed' = [routed EXCEPT ![so] = verdict]
  /\ UNCHANGED <<vars, destRooms, sweep, from, page, crashes>>

(* Fault: the row takes whatever is written last.                          *)
LastOwed(so, row) == so

(* The upsert of destination_rooms never moves a row backwards.            *)
NewestOwed(so, row) == HigherOf(so, row)

(* StoreDestinationRoomsEntries, for every destination, held or not; a     *)
(* destination that was filtered out is done with.                         *)
RecordRoutes(so) ==
  /\ routed[so] \in {"kept", "held"}
  /\ destRooms' = [destRooms EXCEPT ![RoomOf[so]] = NewestOwed(so, @)]
  /\ routed' = [routed EXCEPT ![so] = IF @ = "kept" THEN "owed" ELSE "done"]
  /\ UNCHANGED <<vars, sweep, from, page, crashes>>

(* The fan-out: EnqueuePDU, and the Wake that follows it.                  *)
FanOut(so) ==
  /\ routed[so] = "owed"
  /\ routed' = [routed EXCEPT ![so] = "done"]
  /\ EnqueuePDU(so)
  /\ UNCHANGED <<inputs, destRooms, sweep, from, page, crashes>>

HandleEvent(so) == RetryFilter(so) \/ RecordRoutes(so) \/ FanOut(so)

-----------------------------------------------------------------------------
(* CatchUp.Destination.                                                    *)

SweepTo(step) == sweep' = step /\ UNCHANGED <<destRooms, routed, crashes>>

(* Fault: the boundary is counted as owed.                                 *)
OwedFrom(so) == {destRooms[r] : r \in {x \in Rooms : destRooms[x] >= so}}

OwedAfter(so) == {destRooms[r] : r \in {x \in Rooms : destRooms[x] > so}}

(* GetCatchUpOutstandingDestinations: a row above the stored cursor, or    *)
(* to-device messages waiting, which the sweep itself does not read.       *)
Outstanding == OwedAfter(stored.cursor) # {} \/ OutboxOwed

(* The sweep finds the destination, and no backoff rules it out.           *)
StartSweep ==
  /\ sweep = "idle" /\ ~stopping
  /\ Outstanding
  /\ Due
  /\ SweepTo("read") /\ UNCHANGED <<vars, from, page>>

(* The stored cursor: without one there is nothing to replay.              *)
ReadCursor ==
  /\ sweep = "read"
  /\ IF stored.known
     THEN SweepTo("seed") /\ from' = stored.cursor /\ UNCHANGED vars
     ELSE /\ SweepTo("idle") /\ UNCHANGED from
          /\ IF catchingUp THEN FinishCatchUp ELSE UNCHANGED vars
  /\ UNCHANGED page

SeedCursor ==
  /\ sweep = "seed"
  /\ SetLastSuccessful(from)
  /\ SweepTo("page") /\ UNCHANGED <<from, page>>

(* One page of what is owed, in stream order, the gate checked first.      *)
ReadPage ==
  /\ sweep = "page"
  /\ LET owed == OwedAfter(from)
     IN  /\ page' = {so \in owed : Cardinality({o \in owed : o < so}) < PageSize}
         /\ SweepTo(IF ~Due \/ stopping THEN "idle"
                    ELSE IF owed = {} THEN "skipped" ELSE "send")
  /\ UNCHANGED <<vars, from>>

(* Nothing owed.  Was an event dropped since the page was read?            *)
CheckSkipped ==
  /\ sweep = "skipped"
  /\ SweepTo(IF catchupLastSkipped > from THEN "page" ELSE "finish")
  /\ IF catchupLastSkipped # 0 THEN TakeCatchUpSkipped ELSE UNCHANGED vars
  /\ UNCHANGED <<from, page>>

Finish ==
  /\ sweep = "finish"
  /\ SweepTo("idle")
  /\ IF catchingUp THEN FinishCatchUp ELSE UNCHANGED vars
  /\ UNCHANGED <<from, page>>

(* The page's next event, or the next page; ErrBusy ends the sweep.        *)
SendNext ==
  /\ sweep = "send"
  /\ IF page = {} THEN SweepTo("page") /\ UNCHANGED vars
     ELSE IF running THEN SweepTo("idle") /\ UNCHANGED vars
     ELSE /\ \E so \in page : (\A o \in page : so <= o) /\ Claim(so)
          /\ SweepTo("sending") /\ UNCHANGED inputs
  /\ UNCHANGED <<from, page>>

(* SendCatchUp at work: a delivery moves the local cursor.                 *)
SendStep ==
  /\ sweep \in {"sending", "sent"}
  /\ SendCatchUp
  /\ IF claim = "persist"
     THEN SweepTo("sent") /\ from' = claimPDU /\ page' = page \ {claimPDU}
     ELSE SweepTo(sweep) /\ UNCHANGED <<from, page>>

(* It returns: on to the next event, or the end of the sweep on an error.  *)
SendReturns ==
  /\ sweep \in {"sending", "sent"} /\ claim = "none"
  /\ SweepTo(IF sweep = "sent" THEN "send" ELSE "idle")
  /\ UNCHANGED <<vars, from, page>>

CatchUpStep == \/ ReadCursor \/ SeedCursor \/ ReadPage \/ CheckSkipped
               \/ Finish \/ SendNext \/ SendStep \/ SendReturns

-----------------------------------------------------------------------------
(* The worker dies and starts again.  The tables survive; the queue, the   *)
(* limiter's cooldown and the batch of events being routed do not: an      *)
(* event whose batch was not finished is picked up again.                  *)
Crash ==
  /\ crashes < MaxCrashes
  /\ crashes' = crashes + 1
  /\ pendingPDUs' = <<>> /\ pendingEDUs' = <<>>
  /\ running' = FALSE /\ newData' = FALSE
  /\ catchingUp' = TRUE /\ catchupLastSkipped' = 0
  /\ lastSuccessful' = 0 /\ lastSuccessfulKnown' = FALSE
  /\ heldSince' = "zero" /\ holdTimer' = "none"
  /\ loop' = "idle" /\ batch' = NoBatch
  /\ claim' = "none" /\ claimPDU' = 0
  /\ wakers' = 0 /\ stopping' = FALSE
  /\ dropped' = [dropped EXCEPT !.pdus =
                   @ \cup {pendingPDUs[i] : i \in DOMAIN pendingPDUs}]
  /\ Reload
  /\ routed' \in {[so \in Orderings |->
                     IF routed[so] = "done" /\ so \notin again THEN "done" ELSE "new"] :
                    again \in SUBSET Orderings}
  /\ sweep' = "idle" /\ from' = 0 /\ page' = {}
  /\ UNCHANGED <<stored, remote, posted, inputs, destRooms>>

CatchUpNext ==
  \/ \E so \in Orderings : HandleEvent(so)
  \/ (Wake \/ AcquireSlot \/ Run \/ TimerFires \/ TimePasses) /\ UNCHANGED catchUpState
  \/ StartSweep \/ CatchUpStep
  \/ Crash

CatchUpSpec == CatchUpInit /\ [][CatchUpNext]_allVars

(* Goroutines that can run, run; the sweep comes round every minute;       *)
(* backoffs end; and the remote server, though it may fail any number of   *)
(* times, is not down for ever.                                            *)
CatchUpFairness ==
  /\ WF_allVars(Wake /\ UNCHANGED catchUpState)
  /\ WF_allVars((AcquireSlot \/ Run \/ TimerFires) /\ UNCHANGED catchUpState)
  /\ WF_allVars(TimePasses /\ UNCHANGED catchUpState)
  /\ \A so \in Orderings : WF_allVars(HandleEvent(so))
  /\ SF_allVars(StartSweep)
  /\ WF_allVars(CatchUpStep)
  /\ SF_allVars(SendOutcome("delivered") /\ UNCHANGED catchUpState)
  /\ SF_allVars(SendStep /\ CatchUpOutcome("delivered"))

(* A destination that has had a successful transaction before.             *)
KnownInit == CatchUpInit /\ stored.known

CatchUpLive == KnownInit /\ [][CatchUpNext]_allVars /\ CatchUpFairness

-----------------------------------------------------------------------------
(* Properties.                                                             *)

InQueue == {pendingPDUs[i] : i \in DOMAIN pendingPDUs}

(* A row of destination_rooms at or below the stored cursor is invisible   *)
(* to catch-up for good, so its event must have reached the remote.        *)
NoOwedRoomPassed ==
  \A r \in Rooms : destRooms[r] # 0 /\ destRooms[r] <= stored.cursor
                      /\ routed[destRooms[r]] = "done"
                     => destRooms[r] \in remote.pdus \cup InQueue

(* Whatever crashes, backoffs, busy claims and lost wake-ups come between, *)
(* a recorded event of a known destination reaches it, or a newer event of *)
(* its room does.                                                          *)
OwedIsDelivered ==
  \A r \in Rooms, so \in Orderings :
    (destRooms[r] = so) ~> (\E o \in remote.pdus : o >= so /\ RoomOf[o] = r)
=============================================================================
