------------------------------ MODULE Streams ------------------------------
(***************************************************************************)
(* Replication composed with the handler and with Typing, the one consumer *)
(* that works on the replication goroutine itself: what the worker         *)
(* remembers of who is typing, over lost sessions, torn batches, notices   *)
(* that are dropped, and restarts of the typing writer.                    *)
(***************************************************************************)
EXTENDS Replication, Typing

CONSTANT BatchSize    \* bound: rows per batch

ASSUME StreamsAssumption ==
  /\ {"typing", "events"} \subseteq Streams
  /\ BatchSize \in Nat \ {0}

VARIABLES
  typists,      \* the typing writer's own sets: the truth
  life,         \* which incarnation of the typing writer is alive
  latest,       \* history: incarnation and token of each room's newest row
  told,         \* history: incarnation and token behind what is remembered
  lastPoked     \* Sender.lastPoked: how far the event loop was told to read

streamsVars == <<typists, life, latest, told, lastPoked>>
allStreams == <<replicationVars, typingVars, streamsVars>>

StreamsTypeOK ==
  /\ ReplicationTypeOK /\ TypingTypeOK
  /\ typists \in [Rooms -> SUBSET Users]
  /\ life \in 0..MaxBreaks
  /\ latest \in [Rooms -> (0..MaxBreaks) \X (0..MaxPosition["typing"])]
  /\ told \in [Rooms -> (0..MaxBreaks) \X (0..MaxPosition["typing"])]
  /\ lastPoked \in 0..MaxPosition["events"]

StreamsInit ==
  /\ ReplicationInit /\ TypingInit
  /\ typists = [r \in Rooms |-> {}] /\ life = 0
  /\ latest = [r \in Rooms |-> <<0, 0>>] /\ told = [r \in Rooms |-> <<0, 0>>]
  /\ lastPoked = 0

-----------------------------------------------------------------------------
(* Synapse's side.                                                         *)

(* The typing writer's sets change, for up to BatchSize rooms under one    *)
(* token: a row for each, in any order.  A later incarnation may publish   *)
(* fewer batches.                                                          *)
TypistsChange(w) ==
  /\ StreamOf[w] = "typing" /\ newest["typing"] + life < MaxPosition["typing"]
  /\ \E sets \in [Rooms -> SUBSET Users], n \in 1..BatchSize : \E order \in [1..n -> Rooms] :
       /\ {order[i] : i \in 1..n} = {r \in Rooms : sets[r] # typists[r]}
       /\ \A i, j \in 1..n : order[i] = order[j] => i = j
       /\ \A r \in Rooms : sets[r] \subseteq JoinedTo[r]
       /\ typists' = sets
       /\ NewBatch(w, [i \in 1..n |->
            [room |-> order[i], users |-> sets[order[i]], life |-> life]])
       /\ latest' = [r \in Rooms |->
            IF sets[r] # typists[r] THEN <<life, newest["typing"] + 1>> ELSE latest[r]]
  /\ UNCHANGED <<typingVars, life, told, lastPoked>>

(* Events: the rows' content never matters, only that there is one.        *)
EventsPersisted(w) ==
  /\ StreamOf[w] = "events"
  /\ NewBatch(w, [i \in 1..BatchSize |-> 0])
  /\ UNCHANGED <<typingVars, streamsVars>>

(* The typing writer restarts: nobody types, its tokens begin again, and   *)
(* the batch it was publishing is never completed.                         *)
WriterRestarts(w) ==
  /\ StreamOf[w] = "typing" /\ breaks < MaxBreaks
  /\ life' = life + 1 /\ breaks' = breaks + 1
  /\ typists' = [r \in Rooms |-> {}]
  /\ newest' = [newest EXCEPT !["typing"] = 0]
  /\ outgoing' = [outgoing EXCEPT ![w] = <<>>]
  /\ latest' = [r \in Rooms |-> <<life + 1, 0>>]
  /\ torn' = IF outgoing[w] = <<>> THEN torn ELSE torn \cup {"typing"}
  /\ UNCHANGED <<subscriberVars, channel, linked, broken,
                 typingVars, told, lastPoked>>

-----------------------------------------------------------------------------
(* The worker's side.                                                      *)

(* The rows of a batch as the typing handler gets them.                    *)
TypingRows(batch) == [i \in DOMAIN batch |-> batch[i].row]

(* handleTyping.  Each row says what is now known of its room; a token     *)
(* below the last one says that every other room of the new writer is      *)
(* empty.                                                                  *)
OnTypingRows(line) ==
  LET rows == Batch(line)
      newer(r) == RowsOf(TypingRows(rows), r)
  IN  /\ HandleRows(line.token, TypingRows(rows))
      /\ told' = [r \in Rooms |->
           IF newer(r) # {} THEN <<rows[Max(newer(r))].row.life, rows[Max(newer(r))].at>>
           ELSE IF line.token < serial THEN <<line.row.life, 0>> ELSE told[r]]

(* handler.OnRows and OnPosition: one message at a time, and the next only *)
(* after HandleRows has submitted its notices.                             *)
Receive ==
  /\ submitting = <<>>
  /\ HandleLine
  /\ LET line == Head(channel)
         poked == line.stream = "events" /\ line.instance \notin OwnName
                    /\ (line.cmd = "POSITION" \/ Flushes(line))
     IN  /\ IF line.stream = "typing" /\ Flushes(line) THEN OnTypingRows(line)
            ELSE UNCHANGED <<typingVars, told>>
         /\ lastPoked' = IF poked /\ line.token > lastPoked THEN line.token ELSE lastPoked
  /\ UNCHANGED <<typists, life, latest>>

(* The writers publish, connections come and go.  Positions of the events  *)
(* stream are the ones OnPosition does not ignore.  A session does not end *)
(* inside a call of the handler.                                           *)
Subscription ==
  \/ \E w \in Writers :
       PublishRow(w) \/ (StreamOf[w] = "events" /\ PublishPosition(w))
  \/ Subscribe \/ ConnectFails \/ Reconnect \/ LinkLost \/ LinkBack
  \/ submitting = <<>> /\ SessionEnds

StreamsNext ==
  \/ \E w \in Writers :
       TypistsChange(w) \/ EventsPersisted(w) \/ WriterRestarts(w)
  \/ Subscription /\ UNCHANGED <<typingVars, streamsVars>>
  \/ Receive
  \/ TypingStep /\ UNCHANGED <<replicationVars, streamsVars>>

StreamsSpec == StreamsInit /\ [][StreamsNext]_allStreams

-----------------------------------------------------------------------------
(* Properties.                                                             *)

(* When a room's newest row is the last one handled for it, the worker     *)
(* remembers exactly who the typing writer says is typing there: batches,  *)
(* interleaved streams, sessions that end in mid-batch and writers that    *)
(* start again leave no other set behind.  It is stale only about rooms    *)
(* whose newest row was lost, is on its way, or was the old writer's.      *)
RemembersTheWriter ==
  \A r \in Rooms : told[r] = latest[r] => rooms[r] = typists[r]
=============================================================================
