---------------------------- MODULE DeviceOutbox ----------------------------
(***************************************************************************)
(* sender.Devices: from Synapse's two outbound device tables to one        *)
(* server's queue and, once delivered, to the deletion of the rows.        *)
(*                                                                         *)
(*   toDevice     device_federation_outbox, one EDU per row                *)
(*   deviceLists  device_lists_outbound_pokes, device updates chained by   *)
(*                prev_id and signing keys merged per user                 *)
(*                                                                         *)
(* A goroutine per replication row reads a table and queues what it finds. *)
(* A step is one query, one critical section of the queue, or one          *)
(* transaction.  Rows are appended to the queue and sent from its head     *)
(* (Destination.tla proves it), so a transaction is one step here.         *)
(***************************************************************************)
EXTENDS Naturals, Sequences, FiniteSets, FiniteSetsExt, SequencesExt

CONSTANTS
  Users,
  Readers,        \* the goroutines that may be at work at once
  EDUsPerRead,    \* Devices.edusPerRead
  MaxEDUs,        \* EDUs per transaction
  NoUser,
  MaxRows,        \* bound: rows in both tables together
  MaxFaults       \* bound: failed writes, outages and crashes together

ASSUME DeviceOutboxAssumption ==
  /\ EDUsPerRead \in Nat \ {0} /\ MaxEDUs \in Nat \ {0}
  /\ NoUser \notin Users
  /\ MaxRows \in Nat /\ MaxFaults \in Nat

VARIABLES
  table,        \* the two tables: a row's stream id is its index
  lastSuccess,  \* device_lists_outbound_last_success
  cursor,       \* our own two cursors
  announced,    \* the rows whose replication row has been handled
  reader,
  queue,        \* the server's pending device EDUs
  deleting,     \* the marks of a delivered transaction, to be acted upon
  received,     \* stream ids the server has processed
  excused,      \* history: rows passed while uncommitted, shed in an outage,
                \* or queued when the process died
  faults

synapseVars == <<table, lastSuccess>>
workerVars == <<cursor, announced, reader, queue, deleting>>
outboxVars == <<synapseVars, workerVars, received, excused, faults>>

Kinds == {"toDevice", "deviceLists"}
Ids == 1..MaxRows

(* state: "open" until its transaction commits, "in" the table, "gone".    *)
(* key: the poke's device is the version of a current cross-signing key;   *)
(* one that has been replaced goes out as a device that is gone.           *)
Rows == [state : {"open", "in", "gone"}, mine : BOOLEAN,
         user : Users \cup {NoUser}, key : BOOLEAN]

(* A queued EDU: the rows it carries, prev_id (0: none), and the mark.     *)
Units == [kind : Kinds, rows : SUBSET Ids, user : Users \cup {NoUser},
          prev : 0..MaxRows, upTo : 0..MaxRows]

(* A goroutine between two steps: its place, the range and the rows it has *)
(* read, the units still to be queued, and the cursor it will save.        *)
ReaderStates ==
  [kind : Kinds, at : {"idle", "cursor", "read", "build", "queue", "set"},
   current : 0..MaxRows, last : 0..MaxRows, rows : SUBSET Ids, units : Seq(Units),
   next : 0..MaxRows]

Idle == [kind |-> "toDevice", at |-> "idle", current |-> 0, last |-> 0,
         rows |-> {}, units |-> <<>>, next |-> 0]

OutboxTypeOK ==
  /\ table \in [Kinds -> Seq(Rows)]
  /\ lastSuccess \in [Users -> 0..MaxRows]
  /\ cursor \in [Kinds -> 0..MaxRows] /\ announced \in [Kinds -> SUBSET Ids]
  /\ reader \in [Readers -> ReaderStates]
  /\ queue \in Seq(Units)
  /\ deleting \in [Kinds -> 0..MaxRows]
  /\ received \in [Kinds -> SUBSET Ids] /\ excused \in [Kinds -> SUBSET Ids]
  /\ faults \in 0..MaxFaults

OutboxInit ==
  /\ table = [k \in Kinds |-> <<>>]
  /\ lastSuccess = [u \in Users |-> 0]
  /\ cursor = [k \in Kinds |-> 0] /\ announced = [k \in Kinds |-> {}]
  /\ reader = [r \in Readers |-> Idle]
  /\ queue = <<>> /\ deleting = [k \in Kinds |-> 0]
  /\ received = [k \in Kinds |-> {}] /\ excused = [k \in Kinds |-> {}]
  /\ faults = 0

Fault == faults < MaxFaults /\ faults' = faults + 1

-----------------------------------------------------------------------------
(* Synapse: a stream id is allocated, and its transaction commits later.   *)

Allocate(k, row) ==
  /\ Len(table["toDevice"]) + Len(table["deviceLists"]) < MaxRows
  /\ table' = [table EXCEPT ![k] = Append(@, row)]
  /\ UNCHANGED <<lastSuccess, workerVars, received, excused, faults>>

ToDeviceRow == [state : {"open"}, mine : BOOLEAN, user : {NoUser}, key : {FALSE}]
PokeRow == [state : {"open"}, mine : {TRUE}, user : Users, key : BOOLEAN]

Commit(k, id) ==
  /\ id \in DOMAIN table[k] /\ table[k][id].state = "open"
  /\ table' = [table EXCEPT ![k][id].state = "in"]
  /\ UNCHANGED <<lastSuccess, workerVars, received, excused, faults>>

-----------------------------------------------------------------------------
(* A replication row, and the goroutine that reads for it.                 *)

Held(k) == {id \in DOMAIN table[k] : table[k][id].state = "in"}
Ours(k) == {id \in Held(k) : table[k][id].mine}

Goes(r, to) == reader' = [reader EXCEPT ![r] = to]

(* The server is in our shard.  ourShare drops it, too, while it backs     *)
(* off: then nothing happens, and the rows wait for the next announcement. *)
OurShare(k, id) == table[k][id].mine

(* The highest row there is now, whoever it is for.                        *)
MaxStreamID(k) == Max({0} \cup Held(k))

(* A goroutine for the row that replication announces.                     *)
StartReader(r, k, id) ==
  /\ reader[r].at = "idle"
  /\ id \notin announced[k]
  /\ announced' = [announced EXCEPT ![k] = @ \cup {id}]
  /\ Goes(r, [Idle EXCEPT !.kind = k, !.at = "cursor", !.current = MaxStreamID(k)])
  /\ UNCHANGED <<synapseVars, cursor, queue, deleting, received, excused, faults>>

(* The announcement of a to-device message names the server itself, also   *)
(* when the row is gone by now.                                            *)
HandleToDevice(r, id) ==
  /\ id \in DOMAIN table["toDevice"] /\ table["toDevice"][id].state # "open"
  /\ OurShare("toDevice", id)
  /\ StartReader(r, "toDevice", id)

(* That of a poke does not: the table says which servers it is for.        *)
GetDestinationsForDevice(id) == id \in Held("deviceLists")

HandleDeviceLists(r, id) ==
  /\ GetDestinationsForDevice(id) /\ OurShare("deviceLists", id)
  /\ StartReader(r, "deviceLists", id)

ReadCursor(r) ==
  /\ reader[r].at = "cursor"
  /\ Goes(r, [reader[r] EXCEPT !.at = "read", !.last = cursor[reader[r].kind]])
  /\ UNCHANGED <<synapseVars, cursor, announced, queue, deleting, received, excused, faults>>

(* The first EDUsPerRead of S.                                             *)
Limited(S) == {id \in S : Cardinality({j \in S : j < id}) < EDUsPerRead}

(* Fault: the end of the range, although the limit cut the batch short.    *)
ResumeAtCurrent(k, rows, current) == current

(* Where the next read resumes.  A short batch of to-device messages skips *)
(* the rows of other servers; device lists do so only when there is none.  *)
ResumeFrom(k, rows, current) ==
  IF rows = {} \/ (k = "toDevice" /\ Cardinality(rows) < EDUsPerRead)
  THEN current ELSE Max(rows)

Message(id) == [kind |-> "toDevice", rows |-> {id}, user |-> NoUser, prev |-> 0, upTo |-> 0]

(* GetLastDeviceUpdateForRemoteUser.                                       *)
LastDelivered(u, from) == IF lastSuccess[u] <= from THEN lastSuccess[u] ELSE 0

(* Fault: a signing key is a link of the chain, though it is sent later.   *)
ChainsThroughKeys(id, updates, keys, from) ==
  LET u == table["deviceLists"][id].user
      before == {j \in updates \cup keys : j < id /\ table["deviceLists"][j].user = u}
  IN  IF before = {} THEN LastDelivered(u, from) ELSE Max(before)

(* prev_id: the user's previous update in the batch, or the last one that  *)
(* was delivered.                                                          *)
PrevId(id, updates, keys, from) ==
  LET u == table["deviceLists"][id].user
      before == {j \in updates : j < id /\ table["deviceLists"][j].user = u}
  IN  IF before = {} THEN LastDelivered(u, from) ELSE Max(before)

(* The pokes whose device is the version of a current signing key.         *)
CrossSigningKeys(rows) == {id \in rows : table["deviceLists"][id].key}

(* One update for all of a user's signing keys, under two names.           *)
SigningUnits(keys) ==
  LET t == table["deviceLists"]
      signers == SetToSeq({t[id].user : id \in keys})
      Signing(u) == [kind |-> "deviceLists", rows |-> {id \in keys : t[id].user = u},
                     user |-> u, prev |-> 0, upTo |-> 0]
  IN  [i \in 1..2 * Len(signers) |-> Signing(signers[(i + 1) \div 2])]

(* The rows in stream order.                                               *)
InOrder(rows) ==
  {ids \in SetToSeqs(rows) : \A i, j \in DOMAIN ids : i < j => ids[i] < ids[j]}

(* The users in the order of their first poke, their updates in stream     *)
(* order.                                                                  *)
UserByUser(rows, updates) ==
  LET User(id) == table["deviceLists"][id].user
      FirstOf(id) == Min({j \in rows : User(j) = User(id)})
      Earlier(a, b) == FirstOf(a) < FirstOf(b) \/ (User(a) = User(b) /\ a < b)
  IN  {ids \in SetToSeqs(updates) : \A i, j \in DOMAIN ids : i < j => Earlier(ids[i], ids[j])}

(* buildDeviceListEDUs: the updates, and the signing keys after all of     *)
(* them.                                                                   *)
DeviceListUnits(rows, from) ==
  LET keys == CrossSigningKeys(rows)
      updates == rows \ keys
      Update(id) == [kind |-> "deviceLists", rows |-> {id},
                     user |-> table["deviceLists"][id].user,
                     prev |-> PrevId(id, updates, keys, from), upTo |-> 0]
  IN  {[i \in DOMAIN ids |-> Update(ids[i])] \o SigningUnits(keys) :
         ids \in UserByUser(rows, updates)}

(* Fault: every unit of the batch is marked with its end.                  *)
MarkEach(units, next) == [i \in DOMAIN units |-> [units[i] EXCEPT !.upTo = next]]

(* Only the last unit of a batch carries the mark.                         *)
MarkLast(units, next) == [units EXCEPT ![Len(units)].upTo = next]

(* GetNewDeviceMsgsForRemote, GetDeviceUpdatesByRemote.  Messages are EDUs *)
(* as they are.                                                            *)
ReadRows(r) ==
  LET k == reader[r].kind
      rows == Limited({id \in Ours(k) : reader[r].last < id /\ id <= reader[r].current})
      next == ResumeFrom(k, rows, reader[r].current)
      read == [reader[r] EXCEPT !.next = next, !.current = 0]
  IN  /\ reader[r].at = "read"
      /\ \/ /\ rows = {}
            /\ Goes(r, [read EXCEPT !.at = "set", !.last = 0])
         \/ /\ rows # {} /\ k = "toDevice"
            /\ \E ids \in InOrder(rows) :
                 Goes(r, [read EXCEPT !.at = "queue", !.last = 0,
                            !.units = MarkLast([i \in DOMAIN ids |-> Message(ids[i])], next)])
         \/ /\ rows # {} /\ k = "deviceLists"
            /\ Goes(r, [read EXCEPT !.at = "build", !.rows = rows])
      /\ excused' = [excused EXCEPT ![k] = @ \cup
           {id \in DOMAIN table[k] : table[k][id].state = "open" /\ id <= next}]
      /\ UNCHANGED <<synapseVars, cursor, announced, queue, deleting, received, faults>>

(* buildDeviceListEDUs reads the last successes after the pokes.           *)
Build(r) ==
  /\ reader[r].at = "build"
  /\ \E units \in DeviceListUnits(reader[r].rows, reader[r].last) :
       Goes(r, [reader[r] EXCEPT !.at = "queue", !.rows = {}, !.last = 0,
                  !.units = MarkLast(units, reader[r].next)])
  /\ UNCHANGED <<synapseVars, cursor, announced, queue, deleting, received, excused, faults>>

(* EnqueueMarkedEDU, one lock for each unit.                               *)
Enqueue(r) ==
  /\ reader[r].at = "queue"
  /\ queue' = Append(queue, Head(reader[r].units))
  /\ Goes(r, [reader[r] EXCEPT !.units = Tail(@),
                !.at = IF Len(reader[r].units) = 1 THEN "set" ELSE @])
  /\ UNCHANGED <<synapseVars, cursor, announced, deleting, received, excused, faults>>

(* Fault: the cursor is the first row not read yet.                        *)
AdvancedPast(k, next) == IF next >= cursor[k] THEN next + 1 ELSE cursor[k]

(* Store.Set never moves a cursor backwards.                               *)
Advanced(k, next) == IF next > cursor[k] THEN next ELSE cursor[k]

(* The cursor moves on the read, once everything read is queued.           *)
SetCursor(r) ==
  /\ reader[r].at = "set"
  /\ Goes(r, Idle)
  /\ \/ /\ cursor' = [cursor EXCEPT ![reader[r].kind] = Advanced(reader[r].kind, reader[r].next)]
        /\ UNCHANGED faults
     \/ /\ Fault
        /\ UNCHANGED cursor
  /\ UNCHANGED <<synapseVars, announced, queue, deleting, received, excused>>

(* A query fails or times out: the goroutine gives up.                     *)
ReaderFails(r) ==
  /\ reader[r].at \in {"cursor", "read", "build"}
  /\ Goes(r, Idle)
  /\ UNCHANGED <<synapseVars, cursor, announced, queue, deleting, received, excused, faults>>

-----------------------------------------------------------------------------
(* The transmission loop.                                                  *)

Taken == SubSeq(queue, 1, IF Len(queue) < MaxEDUs THEN Len(queue) ELSE MaxEDUs)

Carried(units, k) == UNION {units[i].rows : i \in {j \in DOMAIN units : units[j].kind = k}}

Mark(units, k) ==
  Max({0} \cup {units[i].upTo : i \in {j \in DOMAIN units : units[j].kind = k}})

(* The server processes a transaction.  If its answer is lost, everything  *)
(* stays queued and is sent again.                                         *)
Transact(answered) ==
  /\ queue # <<>> /\ \A k \in Kinds : deleting[k] = 0
  /\ received' = [k \in Kinds |-> received[k] \cup Carried(Taken, k)]
  /\ IF answered
     THEN /\ queue' = SubSeq(queue, Len(Taken) + 1, Len(queue))
          /\ deleting' = [k \in Kinds |-> Mark(Taken, k)]
     ELSE UNCHANGED <<queue, deleting>>
  /\ UNCHANGED <<synapseVars, cursor, announced, reader, excused, faults>>

Deleted(k) == {id \in Ours(k) : id <= deleting[k]}

(* onEDUsDelivered: DeleteDeviceMsgsForRemote, then                        *)
(* MarkAsSentDevicesByRemote, one transaction with the last successes.     *)
(* A failure is logged and not tried again.                                *)
DeleteRows(k) ==
  /\ deleting[k] > 0 /\ (k = "deviceLists" => deleting["toDevice"] = 0)
  /\ deleting' = [deleting EXCEPT ![k] = 0]
  /\ \/ /\ table' = [table EXCEPT ![k] = [id \in DOMAIN @ |->
                       IF id \in Deleted(k) THEN [@[id] EXCEPT !.state = "gone"] ELSE @[id]]]
        /\ lastSuccess' = IF k = "toDevice" THEN lastSuccess
                          ELSE [u \in Users |->
                                 Max({lastSuccess[u]} \cup
                                     {id \in Deleted(k) : table[k][id].user = u})]
        /\ UNCHANGED faults
     \/ /\ Fault
        /\ UNCHANGED synapseVars
  /\ UNCHANGED <<cursor, announced, reader, queue, received, excused>>

Marked == {i \in DOMAIN queue : queue[i].upTo > 0}

(* dropEphemeralEDUs in a long outage keeps the marked units only.         *)
Outage ==
  /\ Fault /\ \A k \in Kinds : deleting[k] = 0
  /\ \E kept \in InOrder(Marked) : queue' = [n \in DOMAIN kept |-> queue[kept[n]]]
  /\ excused' = [k \in Kinds |-> excused[k] \cup
       UNION {queue[i].rows : i \in {j \in DOMAIN queue \ Marked : queue[j].kind = k}}]
  /\ UNCHANGED <<synapseVars, cursor, announced, reader, deleting, received>>

(* The process dies; tables and cursors survive.                           *)
Crash ==
  /\ Fault
  /\ reader' = [r \in Readers |-> Idle]
  /\ queue' = <<>> /\ deleting' = [k \in Kinds |-> 0]
  /\ excused' = [k \in Kinds |-> excused[k] \cup {id \in Carried(queue, k) : id <= cursor[k]}]
  /\ UNCHANGED <<synapseVars, cursor, announced, received>>

OutboxNext ==
  \/ \E row \in ToDeviceRow : Allocate("toDevice", row)
  \/ \E row \in PokeRow : Allocate("deviceLists", row)
  \/ \E k \in Kinds : (\E id \in Ids : Commit(k, id)) \/ DeleteRows(k)
  \/ \E r \in Readers :
       \/ \E id \in Ids : HandleToDevice(r, id) \/ HandleDeviceLists(r, id)
       \/ ReadCursor(r) \/ ReadRows(r) \/ Build(r)
       \/ Enqueue(r) \/ SetCursor(r) \/ ReaderFails(r)
  \/ \E answered \in BOOLEAN : Transact(answered)
  \/ Outage \/ Crash

OutboxSpec == OutboxInit /\ [][OutboxNext]_outboxVars

-----------------------------------------------------------------------------
(* Properties.                                                             *)

(* The cursor moves on the read, and yet passes nothing: a row below it    *)
(* that is still in the table is queued or was received, however           *)
(* goroutines overlap, limits cut batches and writes fail.  Excused are    *)
(* the rows the next property names too.                                   *)
CursorPassesNothing ==
  \A k \in Kinds : \A id \in Ours(k) \ excused[k] :
    id <= cursor[k] => id \in received[k] \cup Carried(queue, k)

(* Deleting "everything up to the mark" deletes nothing the server has not *)
(* processed, wherever transactions cut the batches -- except rows that    *)
(* were uncommitted when the range above them was read, shed with the      *)
(* ephemeral EDUs, or queued at a crash.                                   *)
DeletedWasReceived ==
  \A k \in Kinds : \A id \in DOMAIN table[k] :
    table[k][id].state = "gone" => id \in received[k] \cup excused[k]

(* prev_id names a poke of the same user that the server has received or   *)
(* that is queued in front: no key update and no poke of somebody else,    *)
(* wherever a batch or a transaction is cut -- except a poke that was      *)
(* given up (passed while uncommitted, shed in an outage, lost at a        *)
(* crash).  A server referred to one of those may never get it: it sees    *)
(* the gap and asks for the user's whole list, which is what prev_id is    *)
(* for.                                                                    *)
PrevIdWasSent ==
  \A i \in DOMAIN queue :
    LET e == queue[i]
    IN  e.prev # 0 =>
          /\ table["deviceLists"][e.prev].user = e.user
          /\ \/ e.prev \in received["deviceLists"] \cup excused["deviceLists"]
             \/ \E j \in 1..i - 1 : queue[j].kind = e.kind /\ e.prev \in queue[j].rows

(* What a server can tell from prev_id, "what lets the receiving server    *)
(* notice a gap and resync": an update that continues the last one it has  *)
(* received leaves out none between them.                                  *)
GapIsNoticed ==
  LET t == table["deviceLists"]
      seen == received["deviceLists"]
      e == Head(queue)
      id == Max(e.rows)
      Updates(u) == {j \in DOMAIN t : t[j].user = u /\ ~t[j].key}
  IN  queue # <<>> /\ e.kind = "deviceLists" /\ ~t[id].key /\ id \notin seen
        /\ e.prev = Max({0} \cup (seen \cap Updates(e.user)))
      => \A j \in Updates(e.user) : e.prev < j /\ j < id => t[j].state = "open"
=============================================================================
