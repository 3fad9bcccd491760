------------------------------ MODULE EDUQueue ------------------------------
(***************************************************************************)
(* The pending EDU slice of a destination as a value: what ephemeral.go    *)
(* and the EDU half of queue.go do to it.  Every operator takes the queue  *)
(* q and returns the new queue; Destination.tla wraps each in the lock     *)
(* section that runs it.                                                   *)
(*                                                                         *)
(* The body of a unit is abstracted to the FACTS it carries: a function    *)
(* from slots (a typing key, a reader, a presence user) to the thread and  *)
(* version of the update that filled the slot.  Versions are unique, so a  *)
(* fact says which call of which producer it came from.                    *)
(***************************************************************************)
EXTENDS Naturals, Sequences, FiniteSets

CONSTANTS
  Keys,               \* typing keys: (room, user)
  Readers,            \* receipt slots: (room, receipt type, user)
  Threads,            \* receipt threads
  Users,              \* presence users
  MaxPresenceStates   \* users per m.presence EDU (50 in the code)

CONSTANTS Outbox,     \* the slot of a device unit
          NoThread,   \* the thread of everything that is not a receipt
          NoKey       \* the zero value of EDU.Key

ASSUME EDUQueueAssumption ==
  /\ MaxPresenceStates \in Nat \ {0}
  /\ NoKey \notin Keys
  /\ NoThread \notin Threads

Slots == Keys \cup Readers \cup Users \cup {Outbox}

Entry == [thread : Threads \cup {NoThread}, version : Nat]

EDUTypes == {"m.typing", "m.receipt", "m.presence",
             "m.direct_to_device", "m.device_list_update"}

EDU == [type : EDUTypes, key : Keys \cup {NoKey},
        toDeviceUpTo : Nat, deviceListUpTo : Nat,
        body : UNION {[S -> Entry] : S \in SUBSET Slots}]

(* Two states of one unit: a merge changes the body and nothing else.      *)
SameUnit(e, f) ==
  /\ e.type = f.type /\ e.key = f.key
  /\ e.toDeviceUpTo = f.toDeviceUpTo /\ e.deviceListUpTo = f.deviceListUpTo

Single(slot, entry) == [s \in {slot} |-> entry]

(* body[slot] = entry, for a Go map.                                       *)
Put(body, slot, entry) ==
  [s \in DOMAIN body \cup {slot} |-> IF s = slot THEN entry ELSE body[s]]

(* The facts one unit, or a sequence of units, puts on the wire.           *)
FactsOf(edu) ==
  {[type |-> edu.type, slot |-> s, thread |-> edu.body[s].thread,
    version |-> edu.body[s].version] : s \in DOMAIN edu.body}

Facts(q) == UNION {FactsOf(q[i]) : i \in DOMAIN q}

-----------------------------------------------------------------------------
(* Merging.  Each producer scans for the first unit that can take its      *)
(* update, rewrites that unit in place and otherwise appends a new one.    *)

First(I) == CHOOSE i \in I : \A j \in I : i <= j

(* Rewrite the first unit in I, or append.                                 *)
MergeOrAppend(q, I, entryAt, new) ==
  IF I = {} THEN Append(q, new)
            ELSE [q EXCEPT ![First(I)] = entryAt[First(I)]]

(* Units of one type whose body is a map: the unit a merge may extend.     *)
Extended(q, I, slot, entry) ==
  [i \in I |-> [q[i] EXCEPT !.body = Put(q[i].body, slot, entry)]]

(* EnqueueMarkedEDU: a device unit, never merged.                          *)
AppendMarked(q, type, version, toDevice, deviceList) ==
  Append(q, [type |-> type, key |-> NoKey,
             toDeviceUpTo |-> toDevice, deviceListUpTo |-> deviceList,
             body |-> Single(Outbox, [thread |-> NoThread, version |-> version])])

(* Fault: the old unit is deleted and the new one appended.                *)
ReplaceKeyedAtTheEnd(q, key, version) ==
  Append(SelectSeq(q, LAMBDA e : e.key # key),
    [type |-> "m.typing", key |-> key, toDeviceUpTo |-> 0, deviceListUpTo |-> 0,
     body |-> Single(key, [thread |-> NoThread, version |-> version])])

(* EnqueueKeyedEDU: a pending unit of the same key is clobbered.           *)
ReplaceKeyed(q, key, version) ==
  LET entry == [thread |-> NoThread, version |-> version]
      I == {i \in DOMAIN q : q[i].key = key /\ q[i].type = "m.typing"}
  IN  MergeOrAppend(q, I, [i \in I |-> [q[i] EXCEPT !.body = Single(key, entry)]],
        [type |-> "m.typing", key |-> key, toDeviceUpTo |-> 0,
         deviceListUpTo |-> 0, body |-> Single(key, entry)])

(* Fault: any receipt unit is good enough, whatever thread it holds.       *)
MergeReceiptAnyThread(q, reader, thread, version) ==
  LET entry == [thread |-> thread, version |-> version]
      I == {i \in DOMAIN q : q[i].type = "m.receipt"}
  IN  MergeOrAppend(q, I, Extended(q, I, reader, entry),
        [type |-> "m.receipt", key |-> NoKey, toDeviceUpTo |-> 0,
         deviceListUpTo |-> 0, body |-> Single(reader, entry)])

(* EnqueueReceipt: the slot must be free, or hold the same thread.         *)
MergeReceipt(q, reader, thread, version) ==
  LET entry == [thread |-> thread, version |-> version]
      I == {i \in DOMAIN q :
              /\ q[i].type = "m.receipt"
              /\ reader \in DOMAIN q[i].body => q[i].body[reader].thread = thread}
  IN  MergeOrAppend(q, I, Extended(q, I, reader, entry),
        [type |-> "m.receipt", key |-> NoKey, toDeviceUpTo |-> 0,
         deviceListUpTo |-> 0, body |-> Single(reader, entry)])

(* Fault: a full unit is passed over although it knows the user.           *)
MergePresenceIfRoom(q, user, version) ==
  LET entry == [thread |-> NoThread, version |-> version]
      I == {i \in DOMAIN q :
              /\ q[i].type = "m.presence"
              /\ Cardinality(DOMAIN q[i].body) < MaxPresenceStates}
  IN  MergeOrAppend(q, I, Extended(q, I, user, entry),
        [type |-> "m.presence", key |-> NoKey, toDeviceUpTo |-> 0,
         deviceListUpTo |-> 0, body |-> Single(user, entry)])

(* EnqueuePresence: the unit must know the user, or have room.             *)
MergePresence(q, user, version) ==
  LET entry == [thread |-> NoThread, version |-> version]
      I == {i \in DOMAIN q :
              /\ q[i].type = "m.presence"
              /\ \/ user \in DOMAIN q[i].body
                 \/ Cardinality(DOMAIN q[i].body) < MaxPresenceStates}
  IN  MergeOrAppend(q, I, Extended(q, I, user, entry),
        [type |-> "m.presence", key |-> NoKey, toDeviceUpTo |-> 0,
         deviceListUpTo |-> 0, body |-> Single(user, entry)])

-----------------------------------------------------------------------------
(* What the loop does with the queue.                                      *)

(* The prefix one transaction takes, and what its delivery leaves.         *)
Prefix(q, limit) == SubSeq(q, 1, IF Len(q) > limit THEN limit ELSE Len(q))

(* Fault: one unit too many.                                               *)
RestLessOne(q, n) == SubSeq(q, n + 2, Len(q))

Rest(q, n) == SubSeq(q, n + 1, Len(q))

(* The highest mark among the taken units, zero when none carries one.     *)
Highest(S) == IF S = {} THEN 0 ELSE CHOOSE m \in S : \A n \in S : n <= m

ToDeviceMark(q)   == Highest({q[i].toDeviceUpTo : i \in DOMAIN q})
DeviceListMark(q) == Highest({q[i].deviceListUpTo : i \in DOMAIN q})

(* dropEphemeralEDUs keeps exactly the units that carry a mark.            *)
Marked(edu) == edu.toDeviceUpTo # 0 \/ edu.deviceListUpTo # 0

(* How many of the first i units it keeps; the n-th kept unit is at the    *)
(* first index that makes n of them.                                       *)
Kept(q, i) == Cardinality({j \in 1..i : Marked(q[j])})

DropEphemeral(q) == [n \in 1..Kept(q, Len(q)) |->
                       q[First({i \in DOMAIN q : Kept(q, i) >= n})]]

(* holdForLocked's scan: nothing but presence, and too little of it.       *)
PresenceStates(q) == UNION {{i} \X DOMAIN q[i].body : i \in DOMAIN q}

OnlyPresence(q) == q # <<>> /\ \A i \in DOMAIN q : q[i].type = "m.presence"
=============================================================================
