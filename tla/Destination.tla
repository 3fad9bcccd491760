---------------------------- MODULE Destination ----------------------------
(***************************************************************************)
(* queue.Destination: one remote server's queue, with everything that      *)
(* touches it -- the producers that enqueue and wake, the transmission     *)
(* loop (Manager.Wake's goroutine and Run), the catch-up goroutine's       *)
(* SendCatchUp, the flush timer, REMOTE_SERVER_UP and shutdown.            *)
(*                                                                         *)
(* One step is one critical section of d.mu, or one call made outside it.  *)
(* The remote server answers a send in any of the ways the sink reports.   *)
(***************************************************************************)
EXTENDS EDUQueue, Backoff

CONSTANTS
  Orderings,      \* stream orderings of the events routed to this server
  MaxPDUs,        \* Limits.MaxPDUs
  MaxEDUs,        \* Limits.MaxEDUs
  MaxStates,      \* BatchConfig.MaxStates; 0 switches the presence hold off
  Outcomes,       \* how the remote server may answer
  DeviceTypes,    \* the marked EDU types producers post
  MaxEvents,      \* bound: events handed over
  MaxUpdates,     \* bound: EDU updates posted
  MaxCatchUps,    \* bound: catch-up transactions attempted; 0: no catch-up
  MaxServerUps    \* bound: REMOTE_SERVER_UP commands

AllOutcomes == {"delivered", "refused", "unreachable", "lostAnswer", "limited"}

ASSUME DestinationAssumption ==
  /\ Orderings \subseteq Nat \ {0}
  /\ MaxPDUs \in Nat \ {0} /\ MaxEDUs \in Nat \ {0} /\ MaxStates \in Nat
  /\ Outcomes \subseteq AllOutcomes
  /\ DeviceTypes \subseteq {"m.direct_to_device", "m.device_list_update"}
  /\ MaxEvents \in Nat /\ MaxUpdates \in Nat
  /\ MaxCatchUps \in Nat /\ MaxServerUps \in Nat

VARIABLES
  pendingPDUs, pendingEDUs, running, newData,
  catchingUp, catchupLastSkipped, lastSuccessful, lastSuccessfulKnown,
  heldSince,    \* "zero", "held" (MaxWait not over) or "over"
  holdTimer,    \* "none"; "armed": fires at any later time;
                \* "cooldown": armed for the end of the running cooldown
  loop,         \* where the transmission loop is
  batch,        \* the taken transaction
  claim,        \* where SendCatchUp is
  claimPDU,     \* the event it sends
  wakers,       \* callers that have enqueued and not yet called Wake
  stopping,     \* the manager's base context has ended
  stored,       \* what the callbacks wrote: the rows of the destinations
                \* table, and the device marks already consumed
  remote,       \* history: what the remote server has processed
  posted,       \* history: what producers handed over
  dropped,      \* history: what was given up (EDUs) or left to catch-up (PDUs)
  inputs        \* how much of each bound is used up

queueVars == <<pendingPDUs, pendingEDUs, running, newData>>
catchUpVars == <<catchingUp, catchupLastSkipped, lastSuccessful, lastSuccessfulKnown>>
holdVars == <<heldSince, holdTimer>>
loopVars == <<loop, batch>>
claimVars == <<claim, claimPDU>>
history == <<remote, posted, dropped>>
vars == <<queueVars, catchUpVars, holdVars, loopVars, claimVars, wakers,
          stopping, stored, history, inputs, backoff>>

LoopSteps == {"idle", "slot", "gate", "outage", "restart", "take", "recheck",
              "send", "retry", "dequeue", "marks", "cursor", "persist", "exit"}
ClaimSteps == {"none", "send", "cursor", "persist", "release", "wake"}

NoBatch == [pdus |-> <<>>, edus |-> <<>>, toDeviceUpTo |-> 0, deviceListUpTo |-> 0]

HigherOf(a, b) == IF a > b THEN a ELSE b

Fact == [type : EDUTypes, slot : Slots,
         thread : Threads \cup {NoThread}, version : Nat]

(* The types of the variables, in groups that steps change together.       *)
QueueType == pendingPDUs \in Seq(Orderings) /\ pendingEDUs \in Seq(EDU)

FlagType == running \in BOOLEAN /\ newData \in BOOLEAN /\ stopping \in BOOLEAN

CatchUpType == /\ catchingUp \in BOOLEAN /\ lastSuccessfulKnown \in BOOLEAN
               /\ catchupLastSkipped \in Nat /\ lastSuccessful \in Nat

HoldType == /\ heldSince \in {"zero", "held", "over"}
            /\ holdTimer \in {"none", "armed", "cooldown"}

StepType == /\ loop \in LoopSteps /\ claim \in ClaimSteps
            /\ claimPDU \in Orderings \cup {0} /\ wakers \in Nat

BatchType == batch \in [pdus : Seq(Orderings), edus : Seq(EDU),
                        toDeviceUpTo : Nat, deviceListUpTo : Nat]

StoredType == stored \in [known : BOOLEAN, cursor : Nat, toDevice : Nat,
                          deviceList : Nat]

HistoryType == \A h \in {remote, posted, dropped} :
                 h \in [pdus : SUBSET Orderings, facts : SUBSET Fact]

InputsType == inputs \in [events : Nat, updates : Nat, catchUps : Nat,
                          serverUps : Nat]

TypeOK == /\ QueueType /\ FlagType /\ CatchUpType /\ HoldType /\ StepType
          /\ BatchType /\ StoredType /\ HistoryType /\ InputsType
          /\ backoff \in BackoffType

(* NewDestination: catching up until proven otherwise, the cursor not yet  *)
(* read.  The destinations row may or may not exist.                       *)
Init ==
  /\ pendingPDUs = <<>> /\ pendingEDUs = <<>>
  /\ running = FALSE /\ newData = FALSE
  /\ catchingUp = TRUE /\ catchupLastSkipped = 0
  /\ lastSuccessful = 0 /\ lastSuccessfulKnown = FALSE
  /\ heldSince = "zero" /\ holdTimer = "none"
  /\ loop = "idle" /\ batch = NoBatch
  /\ claim = "none" /\ claimPDU = 0
  /\ wakers = 0 /\ stopping = FALSE
  /\ stored \in [known : BOOLEAN, cursor : {0}, toDevice : {0}, deviceList : {0}]
  /\ remote = [pdus |-> {}, facts |-> {}]
  /\ posted = [pdus |-> {}, facts |-> {}]
  /\ dropped = [pdus |-> {}, facts |-> {}]
  /\ inputs = [events |-> 0, updates |-> 0, catchUps |-> 0, serverUps |-> 0]
  /\ InitBackoff

-----------------------------------------------------------------------------
(* Producers.  Each enqueues under the lock and then calls Wake: the Wake  *)
(* is a later step of the same caller, counted in wakers.                  *)

(* Faults: the ordering is not filled in; the newest event goes first.     *)
WithPDUUnset(so) == Append(pendingPDUs, 0)
WithPDUInFront(so) == <<so>> \o pendingPDUs

(* The queue with one more event.                                          *)
WithPDU(so) == Append(pendingPDUs, so)

(* EnqueuePDU.  While catching up from a known cursor the event is not     *)
(* queued: only its ordering is remembered.                                *)
EnqueuePDU(so) ==
  /\ posted' = [posted EXCEPT !.pdus = @ \cup {so}]
  /\ wakers' = wakers + 1
  /\ IF catchingUp /\ lastSuccessfulKnown
     THEN /\ catchupLastSkipped' = HigherOf(so, catchupLastSkipped)
          /\ dropped' = [dropped EXCEPT !.pdus = @ \cup {so}]
          /\ UNCHANGED <<pendingPDUs, newData>>
     ELSE /\ pendingPDUs' = WithPDU(so)
          /\ newData' = TRUE
          /\ UNCHANGED <<catchupLastSkipped, dropped>>
  /\ UNCHANGED <<pendingEDUs, running, catchingUp, lastSuccessful,
                 lastSuccessfulKnown, holdVars, loopVars, claimVars, stopping,
                 stored, remote, backoff>>

(* What every EDU producer shares: the next version, the posted fact, the  *)
(* flag and the waker.                                                     *)
Post(type, slot, thread) ==
  /\ inputs.updates < MaxUpdates
  /\ inputs' = [inputs EXCEPT !.updates = @ + 1]
  /\ posted' = [posted EXCEPT !.facts = @ \cup
                  {[type |-> type, slot |-> slot, thread |-> thread,
                    version |-> inputs.updates + 1]}]
  /\ newData' = TRUE
  /\ wakers' = wakers + 1
  /\ UNCHANGED <<pendingPDUs, running, catchUpVars, holdVars, loopVars,
                 claimVars, stopping, stored, remote, dropped, backoff>>

(* A to-device or device list unit.  Only the last unit of one read of the *)
(* outbox carries the mark, and the mark is the stream id it consumed.     *)
EnqueueMarkedEDU(type, last) ==
  LET id == inputs.updates + 1
      mark == IF last THEN id ELSE 0
  IN  /\ Post(type, Outbox, NoThread)
      /\ pendingEDUs' = IF type = "m.direct_to_device"
                        THEN AppendMarked(pendingEDUs, type, id, mark, 0)
                        ELSE AppendMarked(pendingEDUs, type, id, 0, mark)

EnqueueKeyedEDU(key) ==
  /\ Post("m.typing", key, NoThread)
  /\ pendingEDUs' = ReplaceKeyed(pendingEDUs, key, inputs.updates + 1)

EnqueueReceipt(reader, thread) ==
  /\ Post("m.receipt", reader, thread)
  /\ pendingEDUs' = MergeReceipt(pendingEDUs, reader, thread, inputs.updates + 1)

EnqueuePresence(user) ==
  /\ Post("m.presence", user, NoThread)
  /\ pendingEDUs' = MergePresence(pendingEDUs, user, inputs.updates + 1)

(* A batch of events that fails half way is routed again, so an event can  *)
(* be handed over more than once.                                          *)
Enqueue ==
  \/ /\ inputs.events < MaxEvents
     /\ inputs' = [inputs EXCEPT !.events = @ + 1]
     /\ \E so \in Orderings : EnqueuePDU(so)
  \/ \E type \in DeviceTypes, last \in BOOLEAN : EnqueueMarkedEDU(type, last)
  \/ \E key \in Keys : EnqueueKeyedEDU(key)
  \/ \E reader \in Readers, thread \in Threads : EnqueueReceipt(reader, thread)
  \/ \E user \in Users : EnqueuePresence(user)

-----------------------------------------------------------------------------
(* Starting the loop.                                                      *)

(* TryStart claims the loop, or leaves newData for the one that is         *)
(* running; Manager.Wake spawns the loop's goroutine for a winner.         *)
TryStart ==
  /\ IF running
     THEN newData' = TRUE /\ UNCHANGED <<running, loop>>
     ELSE running' = TRUE /\ loop' = "slot" /\ UNCHANGED newData
  /\ UNCHANGED <<pendingPDUs, pendingEDUs, catchUpVars, holdVars, batch,
                 claimPDU, stopping, stored, history, inputs, backoff>>

(* A caller that has enqueued wakes the destination.                       *)
Wake ==
  /\ wakers > 0
  /\ wakers' = wakers - 1
  /\ TryStart
  /\ UNCHANGED claim

(* Where the loop goes next, all else being as it was.                     *)
LoopTo(step) ==
  /\ loop' = step
  /\ UNCHANGED <<queueVars, catchUpVars, holdVars, batch, claimVars, wakers,
                 stopping, stored, history, inputs, backoff>>

(* The spawned goroutine gets a concurrency slot and enters Run ...        *)
AcquireSlot == loop = "slot" /\ LoopTo("gate")

(* Fault: the context ends and the claim is kept.                          *)
ReleaseKeepsClaim == loop = "slot" /\ stopping /\ LoopTo("idle")

(* ... or sees the context end first and gives the claim back.             *)
Release ==
  /\ loop = "slot" /\ stopping
  /\ loop' = "idle" /\ running' = FALSE
  /\ UNCHANGED <<pendingPDUs, pendingEDUs, newData, catchUpVars, holdVars,
                 batch, claimVars, wakers, stopping, stored, history, inputs,
                 backoff>>

-----------------------------------------------------------------------------
(* Run, one iteration.                                                     *)

(* The top of the loop: the context, then the backoff gate.                *)
Gate ==
  /\ loop = "gate"
  /\ LoopTo(IF stopping THEN "exit" ELSE IF Due THEN "take" ELSE "outage")

(* Past a closed gate.  In a long outage the unmarked EDUs go, under one   *)
(* lock ...                                                                *)
Outage ==
  /\ loop = "outage"
  /\ IF LongBackoff
     THEN /\ loop' = "restart"
          /\ pendingEDUs' = DropEphemeral(pendingEDUs)
          /\ dropped' = [dropped EXCEPT !.facts =
                             @ \cup (Facts(pendingEDUs) \ Facts(pendingEDUs'))]
     ELSE loop' = "exit" /\ UNCHANGED <<pendingEDUs, dropped>>
  /\ UNCHANGED <<pendingPDUs, running, newData, catchUpVars, holdVars, batch,
                 claimVars, wakers, stopping, stored, remote, posted, inputs,
                 backoff>>

(* ... and RestartCatchUp drops the PDUs under another.                    *)
RestartCatchUp ==
  /\ loop = "restart"
  /\ loop' = "exit"
  /\ catchingUp' = TRUE
  /\ pendingPDUs' = <<>>
  /\ dropped' = [dropped EXCEPT !.pdus =
                     @ \cup {pendingPDUs[i] : i \in DOMAIN pendingPDUs}]
  /\ UNCHANGED <<pendingEDUs, running, newData, catchupLastSkipped,
                 lastSuccessful, lastSuccessfulKnown, holdVars, batch,
                 claimVars, wakers, stopping, stored, remote, posted, inputs,
                 backoff>>

(* holdForLocked: presence alone, too few states, MaxWait not over.        *)
Holding ==
  /\ MaxStates > 0
  /\ pendingPDUs = <<>>
  /\ OnlyPresence(pendingEDUs)
  /\ Cardinality(PresenceStates(pendingEDUs)) < MaxStates
  /\ heldSince # "over"

(* Fault: the hold is entered and no timer armed.                          *)
ScheduleNothing(kind) == UNCHANGED holdTimer

(* scheduleFlushLocked: one timer at a time.                               *)
ScheduleFlush(kind) ==
  holdTimer' = IF holdTimer = "none" THEN kind ELSE holdTimer

(* Fault: the marks are read off the whole queue, not off what is taken.   *)
BatchMarksOfQueue(pdus, edus) ==
  [pdus |-> pdus, edus |-> edus, toDeviceUpTo |-> ToDeviceMark(pendingEDUs),
   deviceListUpTo |-> DeviceListMark(pendingEDUs)]

(* takeLocked: the transaction and the highest mark of each kind in it.    *)
Batch(pdus, edus) ==
  [pdus |-> pdus, edus |-> edus, toDeviceUpTo |-> ToDeviceMark(edus),
   deviceListUpTo |-> DeviceListMark(edus)]

(* The critical section after the gate: clear newData, hold or take.       *)
Take ==
  /\ loop = "take"
  /\ newData' = FALSE
  /\ IF Holding
     THEN /\ heldSince' = "held"
          /\ ScheduleFlush("armed")
          /\ loop' = "exit"
          /\ UNCHANGED batch
     ELSE LET pdus == Prefix(pendingPDUs, MaxPDUs)
              edus == Prefix(pendingEDUs, MaxEDUs)
          IN  /\ heldSince' = "zero"
              /\ batch' = Batch(pdus, edus)
              /\ loop' = IF pdus = <<>> /\ edus = <<>> THEN "recheck" ELSE "send"
              /\ UNCHANGED holdTimer
  /\ UNCHANGED <<pendingPDUs, pendingEDUs, running, catchUpVars, claimVars,
                 wakers, stopping, stored, history, inputs, backoff>>

(* Nothing to send: go round again only if something has arrived.          *)
Recheck == loop = "recheck" /\ LoopTo(IF newData THEN "gate" ELSE "exit")

(* What an attempt does to the limiter: reportOutcome, onSendOutcome.  A   *)
(* 429 that meets an armed timer leaves that timer where it was.           *)
ReportOutcome(outcome) ==
  /\ CASE outcome = "delivered" -> Success
       [] outcome = "refused" -> Fail(TRUE)
       [] outcome \in {"unreachable", "lostAnswer"} -> Fail(FALSE)
       [] outcome = "limited" -> RateLimited
  /\ holdTimer' = IF outcome = "limited" /\ holdTimer = "cooldown"
                  THEN "armed" ELSE holdTimer

(* The remote server processes a delivered transaction, and one whose      *)
(* answer was lost.                                                        *)
Processed(outcome) == outcome \in {"delivered", "lostAnswer"}

(* Fault: every HTTP answer counts as a delivery.                          *)
AfterAnyAnswer(outcome) == CASE outcome \in {"delivered", "refused"} -> "dequeue"
                             [] outcome = "limited" -> "retry"
                             [] OTHER -> "exit"

(* Where Run goes with the answer.                                         *)
AfterSend(outcome) == CASE outcome = "delivered" -> "dequeue"
                        [] outcome = "limited" -> "retry"
                        [] OTHER -> "exit"

(* send and reportOutcome.                                                 *)
SendOutcome(outcome) ==
  /\ loop = "send"
  /\ ReportOutcome(outcome)
  /\ remote' = IF Processed(outcome)
               THEN [pdus |-> remote.pdus \cup {batch.pdus[i] : i \in DOMAIN batch.pdus},
                     facts |-> remote.facts \cup Facts(batch.edus)]
               ELSE remote
  /\ loop' = AfterSend(outcome)
  /\ UNCHANGED <<queueVars, catchUpVars, heldSince, batch, claimVars, wakers,
                 stopping, stored, posted, dropped, inputs>>

(* After a 429 the queue schedules its own retry.                          *)
ScheduleRetry ==
  /\ loop = "retry"
  /\ loop' = "exit"
  /\ ScheduleFlush(IF backoff.cooling THEN "cooldown" ELSE "armed")
  /\ UNCHANGED <<queueVars, catchUpVars, heldSince, batch, claimVars, wakers,
                 stopping, stored, history, inputs, backoff>>

(* dequeue: the delivered units leave the queue, by their number.          *)
Dequeue ==
  /\ loop = "dequeue"
  /\ loop' = "marks"
  /\ pendingPDUs' = Rest(pendingPDUs, Len(batch.pdus))
  /\ pendingEDUs' = Rest(pendingEDUs, Len(batch.edus))
  /\ UNCHANGED <<running, newData, catchUpVars, holdVars, batch, claimVars,
                 wakers, stopping, stored, history, inputs, backoff>>

(* onEDUsSent: the outbox rows up to each mark are deleted.  Either write  *)
(* may fail; a failure is logged and not retried.                          *)
ReportMarks ==
  /\ loop = "marks"
  /\ \E td \in {stored.toDevice, HigherOf(batch.toDeviceUpTo, stored.toDevice)},
        dl \in {stored.deviceList, HigherOf(batch.deviceListUpTo, stored.deviceList)} :
       stored' = [stored EXCEPT !.toDevice = td, !.deviceList = dl]
  /\ loop' = IF batch.pdus = <<>> THEN "gate" ELSE "cursor"
  /\ UNCHANGED <<queueVars, catchUpVars, holdVars, batch, claimVars, wakers,
                 stopping, history, inputs, backoff>>

(* The ordering of the last PDU of the transaction.                        *)
LastOf(pdus) == pdus[Len(pdus)]

(* The local copy of the cursor moves first ...                            *)
AdvanceCursor ==
  /\ loop = "cursor"
  /\ loop' = "persist"
  /\ lastSuccessful' = HigherOf(LastOf(batch.pdus), lastSuccessful)
  /\ UNCHANGED <<queueVars, catchingUp, catchupLastSkipped, lastSuccessfulKnown,
                 holdVars, batch, claimVars, wakers, stopping, stored, history,
                 inputs, backoff>>

(* SetDestinationLastSuccessfulStreamOrdering: a monotone upsert, which    *)
(* may fail.                                                               *)
OnSuccess(so) ==
  \/ stored' = [stored EXCEPT !.known = TRUE, !.cursor = HigherOf(so, @)]
  \/ UNCHANGED stored

(* ... then onSuccess writes it.                                           *)
PersistCursor ==
  /\ loop = "persist"
  /\ loop' = "gate"
  /\ OnSuccess(LastOf(batch.pdus))
  /\ UNCHANGED <<queueVars, catchUpVars, holdVars, batch, claimVars, wakers,
                 stopping, history, inputs, backoff>>

(* Run's deferred function gives the claim back, after the loop decided.   *)
Exit ==
  /\ loop = "exit"
  /\ loop' = "idle"
  /\ running' = FALSE
  /\ batch' = NoBatch
  /\ UNCHANGED <<pendingPDUs, pendingEDUs, newData, catchUpVars, holdVars,
                 claimVars, wakers, stopping, stored, history, inputs, backoff>>

Run == \/ Gate \/ Outage \/ RestartCatchUp \/ Take \/ Recheck
       \/ \E outcome \in Outcomes : SendOutcome(outcome)
       \/ ScheduleRetry \/ Dequeue \/ ReportMarks \/ AdvanceCursor
       \/ PersistCursor \/ Exit

-----------------------------------------------------------------------------
(* The catch-up goroutine.  CatchUp.tla decides when it calls what; here   *)
(* it may call any of these at any time.                                   *)

CatchUpOnly(changed) ==
  /\ changed
  /\ UNCHANGED <<queueVars, holdVars, loopVars, claimVars, wakers, stopping,
                 stored, history, inputs, backoff>>

(* SetLastSuccessfulStreamOrdering, with a value read from the table at    *)
(* some earlier moment.                                                    *)
SetLastSuccessful(v) ==
  /\ stored.known /\ v <= stored.cursor
  /\ CatchUpOnly(/\ lastSuccessful' = HigherOf(v, lastSuccessful)
                 /\ lastSuccessfulKnown' = TRUE
                 /\ UNCHANGED <<catchingUp, catchupLastSkipped>>)

FinishCatchUp ==
  /\ catchingUp
  /\ CatchUpOnly(/\ catchingUp' = FALSE
                 /\ UNCHANGED <<catchupLastSkipped, lastSuccessful, lastSuccessfulKnown>>)

TakeCatchUpSkipped ==
  /\ catchupLastSkipped # 0
  /\ CatchUpOnly(/\ catchupLastSkipped' = 0
                 /\ UNCHANGED <<catchingUp, lastSuccessful, lastSuccessfulKnown>>)

(* Fault: catch-up does not look whether the loop is sending.              *)
MayClaimAlways == claim = "none"

(* claim: nobody is sending.                                               *)
MayClaim == claim = "none" /\ ~running

(* SendCatchUp claims the destination, or returns ErrBusy and changes      *)
(* nothing.                                                                *)
Claim(so) ==
  /\ MayClaim
  /\ running' = TRUE
  /\ claim' = "send" /\ claimPDU' = so
  /\ UNCHANGED <<pendingPDUs, pendingEDUs, newData, catchUpVars, holdVars,
                 loopVars, wakers, stopping, stored, history, backoff>>

(* Fault: the cursor moves however the send ended.                         *)
AfterAnyCatchUp(outcome) == "cursor"

(* Only a delivery moves the cursor.                                       *)
AfterCatchUp(outcome) == IF outcome = "delivered" THEN "cursor" ELSE "release"

CatchUpOutcome(outcome) ==
  /\ claim = "send"
  /\ ReportOutcome(outcome)
  /\ remote' = IF Processed(outcome)
               THEN [remote EXCEPT !.pdus = @ \cup {claimPDU}]
               ELSE remote
  /\ claim' = AfterCatchUp(outcome)
  /\ UNCHANGED <<queueVars, catchUpVars, heldSince, loopVars, claimPDU, wakers,
                 stopping, stored, posted, dropped, inputs>>

CatchUpAdvance ==
  /\ claim = "cursor"
  /\ claim' = "persist"
  /\ IF claimPDU > lastSuccessful
     THEN lastSuccessful' = claimPDU /\ lastSuccessfulKnown' = TRUE
     ELSE UNCHANGED <<lastSuccessful, lastSuccessfulKnown>>
  /\ UNCHANGED <<queueVars, catchingUp, catchupLastSkipped, holdVars, loopVars,
                 claimPDU, wakers, stopping, stored, history, inputs, backoff>>

CatchUpPersist ==
  /\ claim = "persist"
  /\ claim' = "release"
  /\ OnSuccess(claimPDU)
  /\ UNCHANGED <<queueVars, catchUpVars, holdVars, loopVars, claimPDU, wakers,
                 stopping, history, inputs, backoff>>

(* Fault: what arrived meanwhile is not looked at.                         *)
AfterReleaseIdle == "none"

(* Did anything arrive while the claim was held?                           *)
AfterRelease == IF newData THEN "wake" ELSE "none"

(* releaseClaim gives the claim back ...                                   *)
ReleaseClaim ==
  /\ claim = "release"
  /\ claim' = AfterRelease
  /\ claimPDU' = 0
  /\ running' = FALSE
  /\ UNCHANGED <<pendingPDUs, pendingEDUs, newData, catchUpVars, holdVars,
                 loopVars, wakers, stopping, stored, history, inputs, backoff>>

(* ... and re-wakes the loop if anything arrived while it was held.        *)
Rewake ==
  /\ claim = "wake"
  /\ claim' = "none"
  /\ TryStart
  /\ UNCHANGED wakers

SendCatchUp == \/ \E outcome \in Outcomes : CatchUpOutcome(outcome)
               \/ CatchUpAdvance \/ CatchUpPersist \/ ReleaseClaim \/ Rewake

-----------------------------------------------------------------------------
(* Timers, time, REMOTE_SERVER_UP and shutdown.                            *)

(* The flush timer's function: forget the timer, then wake.  A timer armed *)
(* for the end of a cooldown does not fire before it.                      *)
TimerFires ==
  /\ holdTimer # "none"
  /\ holdTimer = "cooldown" => ~backoff.cooling
  /\ holdTimer' = "none"
  /\ wakers' = wakers + 1
  /\ UNCHANGED <<queueVars, catchUpVars, heldSince, loopVars, claimVars,
                 stopping, stored, history, inputs, backoff>>

(* MaxWait passes since the first held state.                              *)
HoldRunsOut ==
  /\ heldSince = "held"
  /\ heldSince' = "over"
  /\ UNCHANGED <<queueVars, catchUpVars, holdTimer, loopVars, claimVars, wakers,
                 stopping, stored, history, inputs, backoff>>

BackoffOnly == UNCHANGED <<queueVars, catchUpVars, holdVars, loopVars, claimVars,
                           wakers, stopping, stored, history, inputs>>

TimePasses == (WaitRunsOut \/ CooldownRunsOut) /\ BackoffOnly

(* OnRemoteServerUp: reset the backoff, and wake the queue if the          *)
(* destination is now due and has anything pending.                        *)
RemoteServerUp ==
  /\ inputs.serverUps < MaxServerUps
  /\ inputs' = [inputs EXCEPT !.serverUps = @ + 1]
  /\ Recovered
  /\ wakers' = IF Due' /\ (pendingPDUs # <<>> \/ pendingEDUs # <<>>)
               THEN wakers + 1 ELSE wakers
  /\ UNCHANGED <<queueVars, catchUpVars, holdVars, loopVars, claimVars,
                 stopping, stored, history>>

Shutdown ==
  /\ ~stopping
  /\ stopping' = TRUE
  /\ UNCHANGED <<queueVars, catchUpVars, holdVars, loopVars, claimVars, wakers,
                 stored, history, inputs, backoff>>

Next ==
  \/ Enqueue
  \/ Wake \/ AcquireSlot \/ Release
  \/ Run
  \/ /\ MaxCatchUps > 0
     /\ \/ \E v \in Orderings \cup {0} : SetLastSuccessful(v)
        \/ FinishCatchUp \/ TakeCatchUpSkipped
  \/ /\ inputs.catchUps < MaxCatchUps
     /\ inputs' = [inputs EXCEPT !.catchUps = @ + 1]
     /\ \E so \in Orderings : Claim(so)
  \/ SendCatchUp
  \/ TimerFires \/ HoldRunsOut \/ TimePasses
  \/ RemoteServerUp \/ Shutdown

(* A goroutine that can run runs, a send is answered within the client's   *)
(* timeout, slots are given back, timers fire.  Nothing is assumed of the  *)
(* producers, the sweep or the remote server's answers.                    *)
Fairness ==
  /\ WF_vars(Wake) /\ WF_vars(AcquireSlot) /\ WF_vars(Run)
  /\ WF_vars(SendCatchUp) /\ WF_vars(TimerFires)
  /\ WF_vars(HoldRunsOut)

Spec == Init /\ [][Next]_vars

FairSpec == Spec /\ Fairness

-----------------------------------------------------------------------------
(* Safety.                                                                 *)

(* Whoever is at work on this destination holds the running flag, and only *)
(* one of the transmission loop and SendCatchUp ever is: two transactions  *)
(* on the wire at once make the remote answer 429 and reorder PDUs.        *)
OneTransaction ==
  /\ running = (loop # "idle" \/ claim \notin {"none", "wake"})
  /\ loop = "idle" \/ claim \in {"none", "wake"}

(* From the moment a transaction is taken until its units are dequeued     *)
(* they are the head of the queue, unit for unit: dequeue removes them by  *)
(* NUMBER, so anything that shrank or reordered the queue meanwhile would  *)
(* make it drop units that were never sent, or slice out of range.         *)
TakenIsHead ==
  loop \in {"send", "retry", "dequeue"} =>
    /\ Len(batch.pdus) <= Len(pendingPDUs)
    /\ \A i \in DOMAIN batch.pdus : pendingPDUs[i] = batch.pdus[i]
    /\ Len(batch.edus) <= Len(pendingEDUs)
    /\ \A i \in DOMAIN batch.edus : SameUnit(pendingEDUs[i], batch.edus[i])

(* Every event handed to the queue is still queued, has been processed by  *)
(* the remote, or was left to catch-up: failures, rate limits, lost        *)
(* answers, shutdown and outages lose none.                                *)
EveryPDUAccounted ==
  posted.pdus \subseteq {pendingPDUs[i] : i \in DOMAIN pendingPDUs}
                          \cup remote.pdus \cup dropped.pdus

DeviceFacts == {f \in posted.facts :
                  f.type \in {"m.direct_to_device", "m.device_list_update"}}

(* The same for device units, which nothing may clobber or merge.          *)
EveryDeviceUnitAccounted ==
  DeviceFacts \subseteq Facts(pendingEDUs) \cup remote.facts \cup dropped.facts

(* The outbox rows deleted up to a mark are rows whose units the remote    *)
(* has processed -- or that a long outage dropped.                         *)
DeletedRowsLeftTheQueue ==
  \A f \in DeviceFacts :
    f.version <= (IF f.type = "m.direct_to_device" THEN stored.toDevice
                                                   ELSE stored.deviceList)
      => f \in remote.facts \cup dropped.facts

(* No two queued units carry an update of the same fact, so an older       *)
(* presence, typing state or receipt never goes out after a newer one.     *)
NoStaleDuplicate ==
  \A i, j \in DOMAIN pendingEDUs : i < j =>
    \A f \in FactsOf(pendingEDUs[i]), g \in FactsOf(pendingEDUs[j]) :
      f.type = g.type /\ f.slot = g.slot /\ f.thread = g.thread => f.slot = Outbox

Later(f, g) == /\ f.type = g.type /\ f.slot = g.slot /\ f.thread = g.thread
               /\ f.version < g.version

(* Merging alone loses nothing: until the remote has accepted a first      *)
(* transaction the newest update of every typing key, receipt thread and   *)
(* presence user is queued, or was shed in a long outage.                  *)
MergeKeepsNewest ==
  remote.facts = {} =>
    \A f \in posted.facts : \/ \E g \in posted.facts : Later(f, g)
                             \/ f \in Facts(pendingEDUs) \cup dropped.facts

(* The persisted cursor only ever names an event the remote has processed, *)
(* and the local copy is never behind it: catch-up reads owed rooms from   *)
(* the larger of the two.                                                  *)
CursorIsTrue ==
  /\ stored.cursor # 0 => stored.cursor \in remote.pdus
  /\ stored.cursor <= lastSuccessful

(* While presence alone is being held back something will flush it: the    *)
(* timer or a caller about to wake -- or the wake-up was lost to a loop    *)
(* that was already leaving, which newData shows (NothingStranded).  Own   *)
(* failures, 429s and REMOTE_SERVER_UP do not matter: a transaction ends   *)
(* the hold before it can fail.  A catch-up transaction does: it can close *)
(* the gate during a hold, and the timer that then fires is not armed      *)
(* again.                                                                  *)
HeldPresenceHasTimer ==
  heldSince # "zero" /\ ~running /\ ~stopping /\ inputs.catchUps = 0
    => holdTimer # "none" \/ wakers > 0 \/ newData

(* Liveness. *)

(* The claim on a destination is always given back: no path through the    *)
(* loop, SendCatchUp or shutdown leaves it marked as sending forever.      *)
ClaimGivenBack == running ~> ~running

(* Work that arrives while catch-up holds the claim gets a loop of its     *)
(* own: TryStart gave up on it, and catch-up is not that loop.             *)
CatchUpRewakes == (claim # "none" /\ newData) ~> (loop # "idle")

-----------------------------------------------------------------------------
(* What comments and tests say that the code does not do.                  *)

(* Manager.Wake: a destination that loses TryStart is picked up by the     *)
(* running loop, "so nothing is dropped".  With a remote that always       *)
(* accepts, an idle destination has an empty queue.                        *)
NothingStranded ==
  ~running /\ wakers = 0 /\ holdTimer = "none" /\ ~stopping
    /\ backoff.interval = "none"
    => pendingPDUs = <<>> /\ pendingEDUs = <<>>

(* dropEphemeralEDUs: "the row it stands for is still owed".  An outbox    *)
(* row is deleted only once its unit was delivered.                        *)
DeletedRowsWereDelivered ==
  \A f \in DeviceFacts :
    f.version <= (IF f.type = "m.direct_to_device" THEN stored.toDevice
                                                   ELSE stored.deviceList)
      => f \in remote.facts

(* "Data arriving during a send is not lost": the newest update of every   *)
(* ephemeral slot is queued, was processed, or was shed in a long outage.  *)
NewestUpdateKept ==
  \A f \in posted.facts \ DeviceFacts :
    \/ \E g \in posted.facts : Later(f, g)
    \/ f \in Facts(pendingEDUs) \cup remote.facts \cup dropped.facts
=============================================================================
