--------------------------- MODULE CatchUp_proofs ---------------------------
(* Proofs about CatchUp.tla for every value of its constants: the types,   *)
(* what a destination promises under crashes and the sweep, and what the   *)
(* cursor may pass.                                                        *)
EXTENDS CatchUp, Destination_proofs

(* Abbreviations of single expressions, expanded everywhere.               *)
USE DEF WithPDU, Batch, AfterSend, MayClaim, AfterCatchUp, AfterRelease

-----------------------------------------------------------------------------
(* What a step of the composition is to the destination.                   *)

(* The destination's own goroutines and SendCatchUp, as in Destination.tla *)
OwnStep == Wake \/ AcquireSlot \/ Run \/ TimerFires \/ TimePasses \/ SendCatchUp

(* the calls that only move catch-up's own fields,                         *)
SweepCall == \/ \E v \in Nat : SetLastSuccessful(v)
             \/ FinishCatchUp \/ TakeCatchUpSkipped

(* and the two that bring an event: the router's and the sweep's.          *)
Brings(so) == (EnqueuePDU(so) \/ Claim(so)) /\ UNCHANGED inputs

(* The state of the destination behind its types: the batch is the head of *)
(* the queue, and the cursor names an event the remote has.  After a crash *)
(* the local copy of the cursor starts again at 0, so CursorIsTrue itself  *)
(* does not survive one; its half about the stored cursor does.            *)
CursorDelivered ==
  /\ stored.cursor # 0 => stored.cursor \in remote.pdus
  /\ claim \in {"cursor", "persist"} => claimPDU \in remote.pdus

DestinationInv == /\ TypeOK /\ NamesAPDU
                  /\ TakenIsHead /\ BatchDelivered
                  /\ CursorDelivered

(* The composition starts with the destination in its initial state.       *)
LEMMA DestinationInvInit == CatchUpInit => DestinationInv
  <1> SUFFICES ASSUME Init PROVE DestinationInv
    BY DEF CatchUpInit
  <1>1. NamesAPDU /\ TakenIsHead /\ BatchDelivered /\ CursorDelivered
    BY DEF Init, NamesAPDU, TakenIsHead, BatchDelivered, CursorDelivered
  <1> QED
    BY <1>1, TypeInit DEF DestinationInv

(* The destination's own steps are steps of Destination.tla.               *)
LEMMA OwnStepIsNext == OwnStep => [Next]_vars
  BY DEF OwnStep, Next

(* A step that leaves the cursor and the claim alone.                      *)
LEMMA CursorDeliveredKept ==
  ASSUME CursorDelivered, UNCHANGED <<claim, claimPDU>>,
         stored'.cursor = stored.cursor, remote.pdus \subseteq remote'.pdus
  PROVE  CursorDelivered'
  BY DEF CursorDelivered

(* The stored cursor moves only to the last event of a delivered batch, or *)
(* to the event SendCatchUp has just delivered.                            *)
LEMMA CursorDeliveredOwn ==
  ASSUME DestinationInv, OwnStep
  PROVE  CursorDelivered' /\ remote.pdus \subseteq remote'.pdus
  <1> USE DEF queueVars, loopVars, claimVars, history, DestinationInv
  <1>a. /\ remote \in [pdus : SUBSET Orderings, facts : SUBSET Fact]
        /\ stored \in [known : BOOLEAN, cursor : Nat, toDevice : Nat, deviceList : Nat]
        /\ batch.pdus \in Seq(Orderings)
    BY DEF TypeOK, HistoryType, StoredType, BatchType
  <1>1. CASE Wake \/ AcquireSlot \/ TimerFires \/ TimePasses
    BY <1>1, CursorDeliveredKept DEF Wake, TryStart, AcquireSlot, LoopTo, TimerFires,
         TimePasses, BackoffOnly
  <1>2. CASE Gate \/ Recheck \/ Outage \/ RestartCatchUp \/ Take \/ Exit
    BY <1>2, CursorDeliveredKept DEF Gate, Recheck, LoopTo, Outage, RestartCatchUp,
         Take, Exit
  <1>3. CASE ScheduleRetry \/ Dequeue \/ AdvanceCursor
    BY <1>3, CursorDeliveredKept DEF ScheduleRetry, Dequeue, AdvanceCursor
  <1>4. ASSUME NEW outcome \in Outcomes, SendOutcome(outcome)
        PROVE  CursorDelivered' /\ remote.pdus \subseteq remote'.pdus
    BY <1>4, <1>a, CursorDeliveredKept DEF SendOutcome
  <1>5. CASE ReportMarks
    <2>1. stored'.cursor = stored.cursor
      BY <1>5, <1>a DEF ReportMarks
    <2> QED
      BY <1>5, <2>1, CursorDeliveredKept DEF ReportMarks
  <1>6. CASE PersistCursor
    <2>1. LastOf(batch.pdus) \in remote.pdus /\ LastOf(batch.pdus) \in Nat
      BY <1>6, <1>a, LastInSeq DEF PersistCursor, NamesAPDU, BatchDelivered
    <2>2. stored'.cursor \in {stored.cursor, LastOf(batch.pdus)}
      BY <1>6, <1>a, <2>1 DEF PersistCursor, OnSuccess, HigherOf
    <2> QED
      BY <1>6, <2>1, <2>2 DEF PersistCursor, CursorDelivered
  <1>7. ASSUME NEW outcome \in Outcomes, CatchUpOutcome(outcome)
        PROVE  CursorDelivered' /\ remote.pdus \subseteq remote'.pdus
    <2>1. remote.pdus \subseteq remote'.pdus
      BY <1>7, <1>a DEF CatchUpOutcome
    <2>2. claim' = "cursor" => claimPDU \in remote'.pdus
      BY <1>7, <1>a DEF CatchUpOutcome, Processed
    <2>3. claim' \in {"cursor", "release"} /\ UNCHANGED <<claimPDU, stored>>
      BY <1>7 DEF CatchUpOutcome
    <2> QED
      BY <2>1, <2>2, <2>3 DEF CursorDelivered
  <1>8. CASE CatchUpAdvance
    BY <1>8 DEF CatchUpAdvance, CursorDelivered
  <1>9. CASE CatchUpPersist
    <2>1. claimPDU \in Nat /\ claimPDU \in remote.pdus
      BY <1>9, DestinationAssumption DEF NamesAPDU, CatchUpPersist, CursorDelivered
    <2>2. stored'.cursor \in {stored.cursor, claimPDU}
      BY <1>9, <1>a, <2>1 DEF CatchUpPersist, OnSuccess, HigherOf
    <2> QED
      BY <1>9, <2>1, <2>2 DEF CatchUpPersist, CursorDelivered
  <1>10. CASE ReleaseClaim \/ Rewake
    BY <1>10 DEF ReleaseClaim, Rewake, TryStart, CursorDelivered
  <1> QED
    BY <1>1, <1>2, <1>3, <1>4, <1>5, <1>6, <1>7, <1>8, <1>9, <1>10
       DEF OwnStep, Run, SendCatchUp

(* The destination's own steps keep the invariant.                         *)
LEMMA OwnStepKeeps ==
  ASSUME DestinationInv, OwnStep
  PROVE  DestinationInv'
  <1>1. [Next]_vars
    BY OwnStepIsNext
  <1>2. TypeOK' /\ NamesAPDU'
    BY <1>1, TypeStep, NamesAPDUStep DEF DestinationInv
  <1>3. TakenIsHead' /\ BatchDelivered'
    BY <1>1, QueueStep DEF DestinationInv
  <1> QED
    BY <1>2, <1>3, CursorDeliveredOwn DEF DestinationInv

(* So do the calls of the sweep.                                           *)
LEMMA SweepCallKeeps ==
  ASSUME DestinationInv, SweepCall
  PROVE  DestinationInv' /\ remote' = remote
  <1> USE DEF queueVars, loopVars, claimVars, history
  <1>1. TypeOK'
    BY CatchUpCallType DEF DestinationInv, SweepCall
  <1>2. UNCHANGED <<loop, batch, claim, claimPDU, pendingPDUs, pendingEDUs, stored, remote>>
    BY DEF SweepCall, SetLastSuccessful, FinishCatchUp, TakeCatchUpSkipped, CatchUpOnly
  <1>3. NamesAPDU' /\ CursorDelivered'
    BY <1>2 DEF DestinationInv, NamesAPDU, CursorDelivered
  <1>4. TakenIsHead' /\ BatchDelivered'
    BY <1>2, QueueUntouched DEF DestinationInv
  <1> QED
    BY <1>1, <1>2, <1>3, <1>4 DEF DestinationInv

(* And an event handed over, or claimed for.                               *)
LEMMA BringsKeeps ==
  ASSUME DestinationInv, NEW so \in Orderings, Brings(so)
  PROVE  DestinationInv' /\ remote' = remote
  <1> USE DEF queueVars, loopVars, claimVars, history
  <1>1. InputsType'
    BY TypeUnchanged DEF DestinationInv, Brings
  <1>2. TypeOK'
    BY <1>1, CatchUpCallType, EnqueuePDUType DEF DestinationInv, Brings
  <1>3. CASE EnqueuePDU(so)
    <2>1. /\ UNCHANGED <<loop, batch, claim, claimPDU, pendingEDUs, stored, remote>>
          /\ UNCHANGED pendingPDUs \/ pendingPDUs' = Append(pendingPDUs, so)
      BY <1>3 DEF EnqueuePDU
    <2>2. NamesAPDU' /\ CursorDelivered'
      BY <2>1 DEF DestinationInv, NamesAPDU, CursorDelivered
    <2>3. Extends(pendingEDUs', pendingEDUs)
      BY <2>1 DEF DestinationInv, TypeOK, QueueType, Extends, SameUnit
    <2>4. TakenIsHead' /\ BatchDelivered'
      BY <2>1, <2>3, QueueExtends DEF DestinationInv
    <2> QED
      BY <1>2, <2>1, <2>2, <2>4 DEF DestinationInv
  <1>4. CASE Claim(so)
    <2>1. /\ UNCHANGED <<loop, batch, pendingPDUs, pendingEDUs, stored, remote>>
          /\ claim' = "send" /\ claimPDU' = so
      BY <1>4 DEF Claim
    <2>2. NamesAPDU' /\ CursorDelivered'
      BY <2>1 DEF DestinationInv, NamesAPDU, CursorDelivered
    <2>3. TakenIsHead' /\ BatchDelivered'
      BY <2>1, QueueUntouched DEF DestinationInv
    <2> QED
      BY <1>2, <2>1, <2>2, <2>3 DEF DestinationInv
  <1> QED
    BY <1>3, <1>4 DEF Brings

(* A crash empties the queue and forgets the batch and the claim; the      *)
(* stored cursor and what the remote has stay.                             *)
LEMMA CrashKeeps ==
  ASSUME DestinationInv, Crash
  PROVE  DestinationInv'
  <1>1. NamesAPDU' /\ TakenIsHead' /\ BatchDelivered' /\ CursorDelivered'
    BY DEF Crash, DestinationInv, NamesAPDU, TakenIsHead, BatchDelivered, CursorDelivered
  <1>2. backoff' \in BackoffType
    BY DEF Crash, Reload, Recorded, BackoffType, Intervals
  <1>3. StoredType' /\ InputsType'
    BY TypeUnchanged DEF Crash, DestinationInv
  <1>4. BatchType'
    BY DEF Crash, NoBatch, BatchType
  <1>5. HistoryType'
    <2>1. /\ remote \in [pdus : SUBSET Orderings, facts : SUBSET Fact]
          /\ posted \in [pdus : SUBSET Orderings, facts : SUBSET Fact]
          /\ dropped \in [pdus : SUBSET Orderings, facts : SUBSET Fact]
          /\ pendingPDUs \in Seq(Orderings)
      BY DEF DestinationInv, TypeOK, HistoryType, QueueType
    <2>2. {pendingPDUs[i] : i \in DOMAIN pendingPDUs} \in SUBSET Orderings
          /\ {} \in SUBSET Fact
      BY <2>1
    <2>3. [dropped EXCEPT !.pdus = @ \cup {pendingPDUs[i] : i \in DOMAIN pendingPDUs}]
            \in [pdus : SUBSET Orderings, facts : SUBSET Fact]
      BY <2>1, <2>2, Grows
    <2> QED
      BY <2>1, <2>3 DEF Crash, HistoryType
  <1>6. QueueType'
    BY EmptySeq DEF Crash, QueueType
  <1>7. FlagType' /\ CatchUpType' /\ HoldType'
    BY DEF Crash, FlagType, CatchUpType, HoldType
  <1>8. StepType'
    BY DEF Crash, StepType, LoopSteps, ClaimSteps
  <1> QED
    BY <1>1, <1>2, <1>3, <1>4, <1>5, <1>6, <1>7, <1>8 DEF DestinationInv, TypeOK

-----------------------------------------------------------------------------
(* The types of the composition.                                           *)

(* The types of what the composition adds.                                 *)
SweepType == /\ destRooms \in [Rooms -> Orderings \cup {0}]
             /\ routed \in [Orderings -> RouteSteps]
             /\ sweep \in SweepSteps
             /\ from \in Nat
             /\ page \in SUBSET Orderings
             /\ crashes \in 0..MaxCrashes

(* Every step of the composition is a step of the destination, a call of   *)
(* the sweep, an event brought, a crash, or leaves the destination alone.  *)
(* An event is brought from the router, or from the page the sweep read.   *)
LEMMA CatchUpSteps ==
  ASSUME SweepType, [CatchUpNext]_allVars
  PROVE  \/ \E so \in Orderings : RetryFilter(so) \/ RecordRoutes(so)
         \/ ReadPage
         \/ UNCHANGED vars /\ UNCHANGED <<destRooms, routed, page>>
         \/ OwnStep /\ UNCHANGED <<destRooms, routed>> /\ page' \subseteq page
         \/ SweepCall /\ UNCHANGED <<destRooms, routed, page>>
         \/ /\ \E so \in Orderings : /\ Brings(so)
                                     /\ routed[so] = "owed" \/ so \in page
            /\ \A so \in Orderings : routed'[so] = "owed" => routed[so] = "owed"
            /\ UNCHANGED <<destRooms, page>>
         \/ Crash
  <1> USE DEF SweepTo
  <1>2. ASSUME NEW so \in Orderings, FanOut(so)
        PROVE  /\ Brings(so) /\ routed[so] = "owed" /\ UNCHANGED <<destRooms, page>>
               /\ \A o \in Orderings : routed'[o] = "owed" => routed[o] = "owed"
    BY <1>2 DEF FanOut, Brings, SweepType
  <1>3. CASE (Wake \/ AcquireSlot \/ Run \/ TimerFires \/ TimePasses) /\ UNCHANGED catchUpState
    BY <1>3 DEF OwnStep, catchUpState
  <1>4. CASE StartSweep \/ SendReturns
    BY <1>4 DEF StartSweep, SendReturns
  <1>5. CASE ReadCursor \/ Finish
    BY <1>5 DEF ReadCursor, Finish, SweepCall
  <1>6. CASE SeedCursor
    BY <1>6 DEF SeedCursor, SweepCall, SweepType
  <1>7. CASE CheckSkipped
    BY <1>7 DEF CheckSkipped, SweepCall
  <1>8. CASE SendNext
    BY <1>8 DEF SendNext, Brings, SweepType
  <1>9. CASE SendStep
    BY <1>9 DEF SendStep, OwnStep
  <1>10. CASE UNCHANGED allVars
    BY <1>10 DEF allVars, catchUpState
  <1> QED
    BY <1>2, <1>3, <1>4, <1>5, <1>6, <1>7, <1>8, <1>9, <1>10
       DEF CatchUpNext, HandleEvent, CatchUpStep

(* A step that changes nothing of the destination keeps its invariant.     *)
LEMMA DestinationInvUntouched ==
  ASSUME DestinationInv, UNCHANGED vars
  PROVE  DestinationInv'
  <1> USE DEF vars, queueVars, loopVars, claimVars, history
  <1>1. TypeOK'
    BY TypeStep DEF DestinationInv
  <1>2. NamesAPDU' /\ CursorDelivered'
    BY DEF DestinationInv, NamesAPDU, CursorDelivered
  <1> QED
    BY <1>1, <1>2, QueueUntouched DEF DestinationInv

(* The destination's invariant survives the router, the sweep and crashes. *)
LEMMA DestinationInvStep ==
  ASSUME DestinationInv, SweepType, [CatchUpNext]_allVars
  PROVE  DestinationInv'
  <1>1. \/ UNCHANGED vars \/ OwnStep \/ SweepCall \/ Crash
        \/ \E so \in Orderings : Brings(so)
    BY CatchUpSteps DEF RetryFilter, RecordRoutes, ReadPage
  <1> QED
    BY <1>1, OwnStepKeeps, SweepCallKeeps, BringsKeeps, CrashKeeps,
       DestinationInvUntouched

(* The router's, the sweep's and the restart's own variables keep their    *)
(* types.                                                                  *)
LEMMA SweepTypeStep ==
  ASSUME DestinationInv, SweepType, [CatchUpNext]_allVars
  PROVE  SweepType'
  <1> USE CatchUpAssumption, DestinationAssumption
  <1> USE DEF SweepTo, SweepType, SweepSteps
  <1>a. stored.cursor \in Nat /\ claimPDU \in Nat
    BY DEF DestinationInv, TypeOK, StoredType, StepType
  <1>1. ASSUME NEW so \in Orderings, RetryFilter(so) PROVE SweepType'
    BY <1>1 DEF RetryFilter, RouteSteps
  <1>2. ASSUME NEW so \in Orderings, RecordRoutes(so) PROVE SweepType'
    <2>1. RoomOf[so] \in Rooms /\ destRooms[RoomOf[so]] \in Orderings \cup {0}
      OBVIOUS
    <2>2. NewestOwed(so, destRooms[RoomOf[so]]) \in Orderings \cup {0}
      BY <2>1 DEF NewestOwed, HigherOf
    <2>3. destRooms' \in [Rooms -> Orderings \cup {0}]
      BY <1>2, <2>2 DEF RecordRoutes
    <2> QED
      BY <1>2, <2>3 DEF RecordRoutes, RouteSteps
  <1>3. ASSUME NEW so \in Orderings, FanOut(so) PROVE SweepType'
    BY <1>3 DEF FanOut, RouteSteps
  <1>4. CASE UNCHANGED catchUpState
    BY <1>4 DEF catchUpState
  <1>5. CASE StartSweep \/ ReadCursor \/ SeedCursor \/ CheckSkipped \/ Finish
    BY <1>5, <1>a DEF StartSweep, ReadCursor, SeedCursor, CheckSkipped, Finish
  <1>6. CASE ReadPage
    <2>1. OwedAfter(from) \in SUBSET Orderings
      BY DEF OwedAfter
    <2> QED
      BY <1>6, <2>1 DEF ReadPage
  <1>7. CASE SendNext \/ SendStep \/ SendReturns
    BY <1>7, <1>a DEF SendNext, SendStep, SendReturns
  <1>8. CASE Crash
    BY <1>8 DEF Crash, RouteSteps
  <1> QED
    BY <1>1, <1>2, <1>3, <1>4, <1>5, <1>6, <1>7, <1>8
       DEF CatchUpNext, HandleEvent, CatchUpStep, allVars

(* The inductive invariant of the composition.                             *)
LEMMA CatchUpInvariant == CatchUpSpec => [](DestinationInv /\ SweepType)
  <1>1. CatchUpInit => SweepType
    BY CatchUpAssumption DEF CatchUpInit, SweepType, RouteSteps, SweepSteps
  <1> QED
    BY <1>1, DestinationInvInit, DestinationInvStep, SweepTypeStep, PTL DEF CatchUpSpec

(* Every variable of the destination, the router and the sweep keeps its   *)
(* type through crashes, restarts and half-finished sweeps; in particular  *)
(* SendCatchUp is only ever handed an event of the page (catchup.go:       *)
(* CatchUp.Destination).                                                   *)
THEOREM CatchUpTypeAlways == CatchUpSpec => []CatchUpTypeOK
  <1>1. DestinationInv /\ SweepType => CatchUpTypeOK
    BY DEF DestinationInv, SweepType, CatchUpTypeOK
  <1> QED
    BY <1>1, CatchUpInvariant, PTL

(* One transaction at a time, although catch-up now decides when it claims *)
(* and the worker may die with a transaction out (queue.go: claim,         *)
(* releaseClaim; catchup.go: CatchUp.Destination).                         *)
THEOREM OneTransactionThroughCrashes == CatchUpSpec => []OneTransaction
  <1>1. CatchUpInit => OneTransaction
    BY OneTransactionInit DEF CatchUpInit
  <1>2. ASSUME OneTransaction, SweepType, [CatchUpNext]_allVars PROVE OneTransaction'
    <2> USE <1>2
    <2> USE DEF queueVars, loopVars, claimVars
    <2>1. CASE OwnStep \/ UNCHANGED vars
      BY <2>1, OwnStepIsNext, OneTransactionStep
    <2>2. CASE SweepCall
      BY <2>2 DEF SweepCall, SetLastSuccessful, FinishCatchUp, TakeCatchUpSkipped,
           CatchUpOnly, OneTransaction
    <2>3. ASSUME NEW so \in Orderings, Brings(so) PROVE OneTransaction'
      BY <2>3 DEF Brings, EnqueuePDU, Claim, OneTransaction
    <2>4. CASE Crash
      BY <2>4 DEF Crash, OneTransaction
    <2> QED
      BY <2>1, <2>2, <2>3, <2>4, CatchUpSteps DEF RetryFilter, RecordRoutes, ReadPage
  <1> QED
    BY <1>1, <1>2, CatchUpInvariant, PTL DEF CatchUpSpec

(* Dequeueing by number removes exactly what was sent, also when the       *)
(* router, the sweep and restarts come between (queue.go: dequeue).        *)
THEOREM TakenIsHeadThroughCrashes == CatchUpSpec => []TakenIsHead
  <1>1. DestinationInv => TakenIsHead
    BY DEF DestinationInv
  <1> QED
    BY <1>1, CatchUpInvariant, PTL

-----------------------------------------------------------------------------
(* What the cursor may pass.                                               *)

Elems(q) == {q[i] : i \in DOMAIN q}

(* The events the destination has, sends, or has sent.                     *)
Sendable == Queued \cup Elems(batch.pdus) \cup remote.pdus \cup ({claimPDU} \ {0})

(* Those, and the ones the router or the sweep is about to bring.          *)
Owing == Sendable \cup page \cup {so \in Orderings : routed[so] = "owed"}

(* No event is sent before destination_rooms says that it is owed: its     *)
(* room's row has reached it.                                              *)
OnRecord == \A so \in Owing : so <= destRooms[RoomOf[so]]

(* A room's row names an event of that room.                               *)
RowsOwn == \A r \in Rooms : destRooms[r] # 0 => RoomOf[destRooms[r]] = r

(* The destination's own steps make nothing sendable that was not.         *)
LEMMA OwnStepBringsNothing ==
  ASSUME DestinationInv, OwnStep
  PROVE  Sendable' \subseteq Sendable
  <1> USE DEF queueVars, loopVars, claimVars, history, Sendable, Queued, Elems
  <1>a. /\ remote \in [pdus : SUBSET Orderings, facts : SUBSET Fact]
        /\ batch.pdus \in Seq(Orderings) /\ pendingPDUs \in Seq(Orderings)
    BY DEF DestinationInv, TypeOK, HistoryType, BatchType, QueueType
  <1>1. CASE Wake \/ AcquireSlot \/ TimerFires \/ TimePasses
    BY <1>1 DEF Wake, TryStart, AcquireSlot, LoopTo, TimerFires, TimePasses, BackoffOnly
  <1>2. CASE Gate \/ Recheck \/ Outage \/ ScheduleRetry \/ ReportMarks
             \/ AdvanceCursor \/ PersistCursor
    BY <1>2 DEF Gate, Recheck, LoopTo, Outage, ScheduleRetry, ReportMarks,
         AdvanceCursor, PersistCursor
  <1>3. CASE RestartCatchUp
    BY <1>3 DEF RestartCatchUp
  <1>4. CASE Exit
    BY <1>4 DEF Exit, NoBatch
  <1>5. CASE Take
    <2>1. CASE Holding
      BY <1>5, <2>1 DEF Take
    <2>2. CASE ~Holding
      <3> DEFINE P == Prefix(pendingPDUs, MaxPDUs)
      <3>1. /\ P \in Seq(Orderings) /\ Len(P) <= Len(pendingPDUs)
            /\ \A i \in 1..Len(P) : P[i] = pendingPDUs[i]
        BY <1>a, PrefixIsHead, DestinationAssumption
      <3>2. batch'.pdus = P /\ UNCHANGED <<pendingPDUs, claimPDU, remote>>
        BY <1>5, <2>2 DEF Take
      <3> HIDE DEF P
      <3>3. Elems(P) \subseteq Queued
        BY <1>a, <3>1
      <3> QED
        BY <3>2, <3>3
    <2> QED
      BY <2>1, <2>2
  <1>6. ASSUME NEW outcome \in Outcomes, SendOutcome(outcome)
        PROVE  Sendable' \subseteq Sendable
    <2>1. remote'.pdus \subseteq remote.pdus \cup Elems(batch.pdus)
      BY <1>6, <1>a DEF SendOutcome
    <2> QED
      BY <1>6, <2>1 DEF SendOutcome
  <1>7. CASE Dequeue
    <2>1. Queued' \subseteq Queued
      <3> DEFINE n == Len(batch.pdus)
      <3>1. n \in 0..Len(pendingPDUs)
        BY <1>7, <1>a DEF Dequeue, DestinationInv, TakenIsHead
      <3>2. /\ pendingPDUs' \in Seq(Orderings) /\ Len(pendingPDUs') = Len(pendingPDUs) - n
            /\ \A i \in 1..(Len(pendingPDUs) - n) : pendingPDUs'[i] = pendingPDUs[i + n]
        BY <1>7, <1>a, <3>1, RestIsTail DEF Dequeue
      <3> HIDE DEF n
      <3>3. ASSUME NEW i \in 1..Len(pendingPDUs') PROVE pendingPDUs'[i] \in Queued
        <4>1. i + n \in 1..Len(pendingPDUs) /\ pendingPDUs'[i] = pendingPDUs[i + n]
          BY <1>a, <3>1, <3>2
        <4> QED
          BY <1>a, <4>1
      <3> QED
        BY <3>2, <3>3
    <2> QED
      BY <1>7, <2>1 DEF Dequeue
  <1>8. ASSUME NEW outcome \in Outcomes, CatchUpOutcome(outcome)
        PROVE  Sendable' \subseteq Sendable
    <2>1. claimPDU # 0
      BY <1>8, DestinationAssumption DEF CatchUpOutcome, DestinationInv, NamesAPDU
    <2>2. remote'.pdus \subseteq remote.pdus \cup {claimPDU}
      BY <1>8, <1>a DEF CatchUpOutcome
    <2> QED
      BY <1>8, <2>1, <2>2 DEF CatchUpOutcome
  <1>9. CASE CatchUpAdvance \/ CatchUpPersist \/ ReleaseClaim \/ Rewake
    BY <1>9 DEF CatchUpAdvance, CatchUpPersist, ReleaseClaim, Rewake, TryStart
  <1> QED
    BY <1>1, <1>2, <1>3, <1>4, <1>5, <1>6, <1>7, <1>8, <1>9
       DEF OwnStep, Run, SendCatchUp

(* The rows hold stream orderings, or 0.                                   *)
LEMMA RowsAreNat ==
  ASSUME SweepType
  PROVE  \A r \in Rooms : destRooms[r] \in Nat
  <1>1. \A so \in Orderings \cup {0} : so \in Nat
    BY DestinationAssumption
  <1>2. \A r \in Rooms : destRooms[r] \in Orderings \cup {0}
    BY DEF SweepType
  <1> QED
    BY <1>1, <1>2

(* A step outside the destination leaves what it may send.                 *)
LEMMA SendableUntouched == UNCHANGED vars => UNCHANGED Sendable
  BY DEF Sendable, Queued, Elems, vars, queueVars, loopVars, claimVars, history

(* While the rows stand still nothing that was not owed is brought.        *)
LEMMA OnRecordKept ==
  ASSUME OnRecord, RowsOwn, Owing' \subseteq Owing, UNCHANGED destRooms
  PROVE  OnRecord' /\ RowsOwn'
  BY DEF OnRecord, RowsOwn

(* Every step of the composition sends only what is on record.             *)
LEMMA OnRecordStep ==
  ASSUME DestinationInv, SweepType, OnRecord, RowsOwn, [CatchUpNext]_allVars
  PROVE  OnRecord' /\ RowsOwn'
  <1> USE CatchUpAssumption, DestinationAssumption
  <1>a. (\A r \in Rooms : destRooms[r] \in Nat) /\ Owing \in SUBSET Orderings
    <2>1. \A r \in Rooms : destRooms[r] \in Nat
      BY RowsAreNat
    <2>2. /\ batch.pdus \in Seq(Orderings) /\ pendingPDUs \in Seq(Orderings)
          /\ remote.pdus \in SUBSET Orderings /\ claimPDU \in Orderings \cup {0}
      BY DEF DestinationInv, TypeOK, BatchType, QueueType, HistoryType, StepType
    <2> QED
      <3>1. Queued \subseteq Orderings /\ Elems(batch.pdus) \subseteq Orderings
        BY <2>2 DEF Queued, Elems
      <3> QED
        BY <2>1, <2>2, <3>1 DEF Owing, Sendable, SweepType
  <1>1. ASSUME NEW so \in Orderings, RetryFilter(so) PROVE OnRecord' /\ RowsOwn'
    <2>1. Owing' \subseteq Owing
      BY <1>1, SendableUntouched DEF RetryFilter, Owing, SweepType
    <2> QED
      BY <1>1, <2>1, OnRecordKept DEF RetryFilter
  <1>2. ASSUME NEW so \in Orderings, RecordRoutes(so) PROVE OnRecord' /\ RowsOwn'
    <2>1. Owing' \subseteq Owing \cup {so}
      BY <1>2, SendableUntouched DEF RecordRoutes, Owing, SweepType
    <2>2. /\ \A r \in Rooms : destRooms[r] <= destRooms'[r] /\ destRooms'[r] \in Nat
          /\ so <= destRooms'[RoomOf[so]]
          /\ \A r \in Rooms : destRooms'[r] = destRooms[r] \/ (destRooms'[r] = so /\ r = RoomOf[so])
      <3>1. destRooms' = [destRooms EXCEPT ![RoomOf[so]] = HigherOf(so, @)]
        BY <1>2 DEF RecordRoutes, NewestOwed
      <3>2. DOMAIN destRooms = Rooms /\ RoomOf[so] \in Rooms /\ so \in Nat
        BY DEF SweepType
      <3> QED
        BY <1>a, <3>1, <3>2 DEF HigherOf
    <2>3. OnRecord'
      BY <1>a, <2>1, <2>2 DEF OnRecord
    <2> QED
      BY <2>2, <2>3 DEF RowsOwn
  <1>3. CASE ReadPage
    <2>1. \A so \in OwedAfter(from) : so <= destRooms[RoomOf[so]]
      <3>1. ASSUME NEW r \in Rooms, destRooms[r] > from PROVE RoomOf[destRooms[r]] = r
        BY <1>a, <3>1 DEF RowsOwn, SweepType
      <3> QED
        BY <1>a, <3>1 DEF OwedAfter
    <2>2. Owing' \subseteq Owing \cup OwedAfter(from) /\ UNCHANGED destRooms
      BY <1>3, SendableUntouched DEF ReadPage, SweepTo, Owing
    <2> QED
      BY <2>1, <2>2 DEF OnRecord, RowsOwn
  <1>4. CASE UNCHANGED vars /\ UNCHANGED <<destRooms, routed, page>>
    BY <1>4, OnRecordKept, SendableUntouched DEF Owing
  <1>5. CASE OwnStep /\ UNCHANGED <<destRooms, routed>> /\ page' \subseteq page
    BY <1>5, OwnStepBringsNothing, OnRecordKept DEF Owing
  <1>6. CASE SweepCall /\ UNCHANGED <<destRooms, routed, page>>
    <2>1. Sendable' = Sendable
      BY <1>6 DEF SweepCall, SetLastSuccessful, FinishCatchUp, TakeCatchUpSkipped,
           CatchUpOnly, Sendable, Queued, Elems, queueVars, loopVars, claimVars, history
    <2> QED
      BY <1>6, <2>1, OnRecordKept DEF Owing
  <1>7. ASSUME NEW so \in Orderings, Brings(so), routed[so] = "owed" \/ so \in page,
               \A o \in Orderings : routed'[o] = "owed" => routed[o] = "owed",
               UNCHANGED <<destRooms, page>>
        PROVE  OnRecord' /\ RowsOwn'
    <2>1. Sendable' \subseteq Sendable \cup {so}
      <3>1. CASE EnqueuePDU(so)
        <4>1. pendingPDUs \in Seq(Orderings)
              /\ (UNCHANGED pendingPDUs \/ pendingPDUs' = Append(pendingPDUs, so))
          BY <3>1 DEF EnqueuePDU, DestinationInv, TypeOK, QueueType
        <4>2. Queued' \subseteq Queued \cup {so}
          <5>1. CASE UNCHANGED pendingPDUs
            BY <5>1 DEF Queued
          <5>2. CASE pendingPDUs' = Append(pendingPDUs, so)
            <6>1. \A i \in 1..(Len(pendingPDUs) + 1) :
                    pendingPDUs'[i] = IF i = Len(pendingPDUs) + 1 THEN so ELSE pendingPDUs[i]
              BY <4>1, <5>2
            <6>2. DOMAIN pendingPDUs' = 1..(Len(pendingPDUs) + 1)
              BY <4>1, <5>2
            <6> QED
              BY <4>1, <6>1, <6>2 DEF Queued
          <5> QED
            BY <4>1, <5>1, <5>2
        <4> QED
          BY <3>1, <4>2 DEF EnqueuePDU, Sendable, Elems, loopVars, claimVars
      <3>2. CASE Claim(so)
        BY <3>2 DEF Claim, Sendable, Queued, Elems, loopVars, history
      <3> QED
        BY <1>7, <3>1, <3>2 DEF Brings
    <2>2. Owing' \subseteq Owing
      BY <1>7, <2>1 DEF Owing
    <2> QED
      BY <1>7, <2>2, OnRecordKept
  <1>8. CASE Crash
    <2>1. Owing' \subseteq Owing
      BY <1>8 DEF Crash, Owing, Sendable, Queued, Elems, NoBatch
    <2> QED
      BY <1>8, <2>1, OnRecordKept DEF Crash
  <1> QED
    BY <1>1, <1>2, <1>3, <1>4, <1>5, <1>6, <1>7, <1>8, CatchUpSteps

(* The stored cursor never passes the row of its own room, however many    *)
(* rooms there are: it stands at an event the remote has, and that event's *)
(* row was written first.                                                  *)
LEMMA CursorWithinItsRoom ==
  ASSUME DestinationInv, SweepType, OnRecord, stored.cursor # 0
  PROVE  stored.cursor <= destRooms[RoomOf[stored.cursor]]
  BY DEF DestinationInv, CursorDelivered, OnRecord, Owing, Sendable

(* With every event in one room, a row of destination_rooms that the       *)
(* stored cursor has reached is the row of a delivered event: catch-up,    *)
(* which reads the rows above the cursor only, overlooks nothing, through  *)
(* any number of crashes, failed writes and retries (sender.go:            *)
(* handleEvent records before it fans out; queue.go: the cursor moves      *)
(* after a delivery).  With two rooms it does not hold: see the run        *)
(* passed.                                                                 *)
THEOREM OneRoomNotPassed ==
  ASSUME \A r, q \in Rooms : r = q
  PROVE  CatchUpSpec => []NoOwedRoomPassed
  <1>1. CatchUpInit => OnRecord /\ RowsOwn
    BY DEF CatchUpInit, Init, OnRecord, RowsOwn, Owing, Sendable, Queued, Elems, NoBatch
  <1>2. ASSUME DestinationInv, SweepType, OnRecord PROVE NoOwedRoomPassed
    <2> SUFFICES ASSUME NEW r \in Rooms, destRooms[r] # 0, destRooms[r] <= stored.cursor
                 PROVE  destRooms[r] \in remote.pdus
      BY DEF NoOwedRoomPassed
    <2>a. destRooms[r] \in Nat
      BY <1>2, RowsAreNat
    <2>b. stored.cursor \in Nat
      BY <1>2 DEF DestinationInv, TypeOK, StoredType
    <2>1. destRooms[r] \in Nat /\ stored.cursor \in Nat /\ stored.cursor # 0
      BY <2>a, <2>b
    <2>2. stored.cursor \in remote.pdus /\ stored.cursor \in Orderings
      BY <1>2, <2>1 DEF DestinationInv, CursorDelivered, TypeOK, HistoryType
    <2>3. RoomOf[stored.cursor] = r
      BY <2>2, CatchUpAssumption
    <2>4. stored.cursor <= destRooms[r]
      BY <1>2, <2>1, <2>3, CursorWithinItsRoom
    <2> QED
      BY <2>1, <2>2, <2>4
  <1> QED
    BY <1>1, <1>2, CatchUpInvariant, OnRecordStep, PTL DEF CatchUpSpec
=============================================================================
