---------------------------- MODULE Replication ----------------------------
(***************************************************************************)
(* replication.Subscriber on Synapse's Redis channel.  A writer publishes  *)
(* the rows of a batch one by one, all but the last with the token         *)
(* "batch", the last with the batch's position; the subscriber buffers     *)
(* rows until the position arrives and hands the handler one batch.  Redis *)
(* keeps nothing: what is published while nobody listens is gone.          *)
(*                                                                         *)
(* Every step is one message handled by the subscriber's goroutine, or one *)
(* edge of its session.  What a batch is for is the business of the        *)
(* modules that extend this one.                                           *)
(***************************************************************************)
EXTENDS Naturals, Sequences, FiniteSets

CONSTANTS
  Streams,
  Writers,        \* the instances that publish
  StreamOf,       \* the stream each of them writes
  OwnName,        \* those that publish under our own instance name
  MaxPosition,    \* bound: batches, per stream
  MaxUnhandled,   \* bound: messages received and not yet handled
  MaxBreaks       \* bound: connections lost and writers restarted

ASSUME ReplicationAssumption ==
  /\ StreamOf \in [Writers -> Streams]
  /\ OwnName \subseteq Writers
  /\ MaxPosition \in [Streams -> Nat]
  /\ MaxUnhandled \in Nat /\ MaxBreaks \in Nat

VARIABLES
  live, positions, pending,
  session,      \* where Run is: "connect", "follow" or "wait"
  backoff,      \* the delay before the next session, in seconds
  channel,      \* messages received from Redis and not yet handled
  linked,       \* the client library's connection is up
  outgoing,     \* what is left to publish of each writer's batch
  newest,       \* the newest position allocated, per stream
  torn,         \* history: streams that miss a message inside a session
  broken,       \* history: a batch was handed over that nobody published
  breaks

subscriberVars == <<live, positions, pending, session, backoff>>
redisVars == <<channel, linked, outgoing, newest>>
replicationVars == <<subscriberVars, redisVars, torn, broken, breaks>>

(* A message: RDATA with its token (0 is "batch") or POSITION.  at and     *)
(* left are what it was published as: the batch's position and the number  *)
(* of messages that follow in the batch.                                   *)
RData(w, row, at, left) ==
  [cmd |-> "RDATA", stream |-> StreamOf[w], instance |-> w, row |-> row,
   token |-> IF left = 0 THEN at ELSE 0, at |-> at, left |-> left]

Position(w, at) ==
  [cmd |-> "POSITION", stream |-> StreamOf[w], instance |-> w, row |-> 0,
   token |-> at, at |-> at, left |-> 0]

ReplicationTypeOK ==
  /\ live \in BOOLEAN /\ linked \in BOOLEAN
  /\ session \in {"connect", "follow", "wait"}
  /\ backoff \in {1, 2, 4, 8, 16, 32}
  /\ \A s \in Streams : positions[s] \in 0..MaxPosition[s] /\ newest[s] \in 0..MaxPosition[s]
  /\ \A s \in Streams : \A i \in DOMAIN pending[s] : pending[s][i].stream = s
  /\ torn \subseteq Streams /\ broken \in BOOLEAN
  /\ breaks \in 0..MaxBreaks

(* New, and Run's first attempt.                                           *)
ReplicationInit ==
  /\ live = FALSE
  /\ positions = [s \in Streams |-> 0] /\ pending = [s \in Streams |-> <<>>]
  /\ session = "connect" /\ backoff = 1
  /\ channel = <<>> /\ linked = FALSE
  /\ outgoing = [w \in Writers |-> <<>>] /\ newest = [s \in Streams |-> 0]
  /\ torn = {} /\ broken = FALSE /\ breaks = 0

-----------------------------------------------------------------------------
(* The publishing side, which is Synapse's and Redis's.                    *)

(* Redis passes a message to whoever is subscribed.  A message lost inside *)
(* a session, while the library reconnects, tears its stream.              *)
Heard == session = "follow" /\ linked

Deliver(line) ==
  /\ Len(channel) < MaxUnhandled
  /\ channel' = IF Heard THEN Append(channel, line) ELSE channel
  /\ torn' = IF session = "follow" /\ ~linked THEN torn \cup {line.stream} ELSE torn

(* A writer has a batch to announce.  Its messages go out one at a time.   *)
NewBatch(w, rows) ==
  LET s == StreamOf[w]
  IN  /\ outgoing[w] = <<>> /\ newest[s] < MaxPosition[s]
      /\ newest' = [newest EXCEPT ![s] = @ + 1]
      /\ outgoing' = [outgoing EXCEPT ![w] =
           [i \in DOMAIN rows |-> RData(w, rows[i], newest[s] + 1, Len(rows) - i)]]
      /\ UNCHANGED <<subscriberVars, channel, linked, torn, broken, breaks>>

PublishRow(w) ==
  /\ outgoing[w] # <<>>
  /\ Deliver(Head(outgoing[w]))
  /\ outgoing' = [outgoing EXCEPT ![w] = Tail(@)]
  /\ UNCHANGED <<subscriberVars, linked, newest, broken, breaks>>

(* A POSITION: another worker asked for one, or the writer skipped ahead.  *)
PublishPosition(w) ==
  /\ outgoing[w] = <<>> /\ Heard
  /\ \A i \in DOMAIN channel : channel[i].cmd # "POSITION"
  /\ Deliver(Position(w, newest[StreamOf[w]]))
  /\ UNCHANGED <<subscriberVars, linked, outgoing, newest, broken, breaks>>

(* The library loses its connection and, below a session that notices      *)
(* nothing, subscribes again.                                              *)
LinkLost ==
  /\ session = "follow" /\ linked /\ breaks < MaxBreaks
  /\ linked' = FALSE /\ breaks' = breaks + 1
  /\ UNCHANGED <<subscriberVars, channel, outgoing, newest, torn, broken>>

LinkBack ==
  /\ session = "follow" /\ ~linked
  /\ linked' = TRUE
  /\ UNCHANGED <<subscriberVars, channel, outgoing, newest, torn, broken, breaks>>

-----------------------------------------------------------------------------
(* Run and session.                                                        *)

(* The subscription is confirmed: setLive(true).                           *)
Subscribe ==
  /\ session = "connect"
  /\ session' = "follow" /\ live' = TRUE /\ linked' = TRUE
  /\ UNCHANGED <<positions, pending, backoff, channel, outgoing, newest, torn, broken, breaks>>

(* Fault: the half of a batch that was buffered is kept.                   *)
KeepPending == live' = FALSE /\ UNCHANGED pending

(* setLive(false): the buffered half of a batch will never be completed.   *)
SetNotLive == live' = FALSE /\ pending' = [s \in Streams |-> <<>>]

(* Receive fails: no subscription, the delay stays as it has grown.        *)
ConnectFails ==
  /\ session = "connect" /\ breaks < MaxBreaks
  /\ session' = "wait" /\ SetNotLive
  /\ breaks' = breaks + 1
  /\ UNCHANGED <<positions, backoff, redisVars, torn, broken>>

(* The channel is closed: the session ends, having been subscribed.        *)
SessionEnds ==
  /\ session = "follow" /\ breaks < MaxBreaks
  /\ session' = "wait" /\ SetNotLive
  /\ backoff' = 1
  /\ channel' = <<>> /\ linked' = FALSE /\ torn' = {}
  /\ breaks' = breaks + 1
  /\ UNCHANGED <<positions, outgoing, newest, broken>>

(* The delay is over; the next one is twice as long, below half a minute.  *)
Reconnect ==
  /\ session = "wait"
  /\ session' = "connect"
  /\ backoff' = IF backoff < 30 THEN 2 * backoff ELSE backoff
  /\ UNCHANGED <<live, positions, pending, redisVars, torn, broken, breaks>>

-----------------------------------------------------------------------------
(* handleLine.                                                             *)

Later(s, pos) == [positions EXCEPT ![s] = IF pos > @ THEN pos ELSE @]

(* The batch that a numeric token completes.                               *)
Batch(line) == Append(pending[line.stream], line)

(* Is this the end of one published batch: no hole, nothing of another?    *)
Whole(rows, pos) ==
  \A i \in DOMAIN rows : rows[i].at = pos /\ rows[i].left = Len(rows) - i

Flushes(line) == line.cmd = "RDATA" /\ line.instance \notin OwnName /\ line.token # 0

(* Rows under our own name are somebody else's mistake and are dropped; a  *)
(* "batch" row is buffered; a position hands over the batch.               *)
HandleRDATA(line) ==
  /\ line.cmd = "RDATA"
  /\ IF line.instance \in OwnName THEN UNCHANGED <<positions, pending, broken>>
     ELSE IF line.token = 0
     THEN /\ pending' = [pending EXCEPT ![line.stream] = Append(@, line)]
          /\ UNCHANGED <<positions, broken>>
     ELSE /\ pending' = [pending EXCEPT ![line.stream] = <<>>]
          /\ positions' = Later(line.stream, line.token)
          /\ broken' = (broken \/ (line.stream \notin torn /\ ~Whole(Batch(line), line.token)))

HandlePOSITION(line) ==
  /\ line.cmd = "POSITION"
  /\ positions' = IF line.instance \in OwnName THEN positions
                  ELSE Later(line.stream, line.token)
  /\ UNCHANGED <<pending, broken>>

HandleLine ==
  /\ session = "follow" /\ channel # <<>>
  /\ channel' = Tail(channel)
  /\ HandleRDATA(Head(channel)) \/ HandlePOSITION(Head(channel))
  /\ UNCHANGED <<live, session, backoff, linked, outgoing, newest, torn, breaks>>

-----------------------------------------------------------------------------
(* Properties.                                                             *)

(* Handler.OnRows is promised "every row that shares a position": where a  *)
(* stream has one writer, what is handed over is the end of one published  *)
(* batch, without a hole and without rows of another, however sessions     *)
(* break in the middle of it -- unless the rest of a batch never came      *)
(* within the session: the library lost it, or its writer died.            *)
BatchIsWhole ==
  (\A v, w \in Writers \ OwnName : StreamOf[v] = StreamOf[w] => v = w) => ~broken
=============================================================================
