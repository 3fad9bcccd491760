------------------------ MODULE Destination_proofs ------------------------
(* Proofs about Destination.tla for every value of its constants, and      *)
(* about the merges of EDUQueue.tla for queues of any length.              *)
EXTENDS Destination, TLAPS, SequenceTheorems, FiniteSetTheorems,
        WellFoundedInduction

-----------------------------------------------------------------------------
(* What a merge preserves.                                                 *)

(* A non-empty set of indices has a first one, and First finds it.         *)
LEMMA FirstIsLeast ==
  ASSUME NEW I \in SUBSET Nat, I # {}
  PROVE  First(I) \in I /\ \A j \in I : First(I) <= j
  <1> DEFINE R == {ss \in Nat \X Nat : ss[1] < ss[2]}
  <1>1. IsWellFoundedOn(R, Nat)
    BY NatLessThanWellFounded DEF OpToRel
  <1> HIDE DEF R
  <1>2. PICK i \in I : \A j \in I : ~ (<<j, i>> \in R)
    BY <1>1, WFMin
  <1>3. \A j \in I : ~ (j < i)
    BY <1>2 DEF R
  <1>4. \A j \in I : i <= j
    BY <1>3
  <1> QED
    BY <1>4 DEF First

(* r is the queue q after an enqueue: still a queue, no shorter, and every *)
(* unit of q is where it was.                                              *)
Extends(r, q) ==
  /\ r \in Seq(EDU)
  /\ Len(r) >= Len(q)
  /\ \A i \in 1..Len(q) : SameUnit(r[i], q[i])

(* Appending a unit moves none.                                            *)
LEMMA AppendExtends ==
  ASSUME NEW q \in Seq(EDU), NEW e \in EDU
  PROVE  Extends(Append(q, e), q)
  BY DEF Extends, SameUnit

(* Rewriting the first eligible unit keeps the shape of the queue.         *)
LEMMA MergeExtends ==
  ASSUME NEW q \in Seq(EDU), NEW I \in SUBSET (1..Len(q)),
         NEW at \in [I -> EDU], \A i \in I : SameUnit(at[i], q[i]),
         NEW e \in EDU
  PROVE  Extends(MergeOrAppend(q, I, at, e), q)
  <1>1. CASE I = {}
    BY <1>1, AppendExtends DEF MergeOrAppend
  <1>2. CASE I # {}
    <2> DEFINE f == First(I)
    <2>1. f \in I
      BY <1>2, FirstIsLeast
    <2> HIDE DEF f
    <2>2. f \in 1..Len(q) /\ at[f] \in EDU /\ SameUnit(at[f], q[f])
      BY <2>1
    <2>3. Extends([q EXCEPT ![f] = at[f]], q)
      <3> DEFINE r == [q EXCEPT ![f] = at[f]]
      <3>1. r \in Seq(EDU) /\ Len(r) = Len(q)
        BY <2>2
      <3>2. \A i \in 1..Len(q) : SameUnit(r[i], q[i])
        BY <2>2 DEF SameUnit
      <3> QED
        BY <3>1, <3>2 DEF Extends
    <2> QED
      BY <1>2, <2>3 DEF MergeOrAppend, f
  <1> QED
    BY <1>1, <1>2

(* The bodies the merges build are bodies.                                 *)
Bodies == UNION {[S -> Entry] : S \in SUBSET Slots}

(* A unit's first update is a body: EnqueueReceipt's and                   *)
(* EnqueuePresence's new map.                                              *)
LEMMA SingleIsBody ==
  ASSUME NEW slot \in Slots, NEW entry \in Entry
  PROVE  Single(slot, entry) \in Bodies
  <1>1. Single(slot, entry) \in [{slot} -> Entry] /\ {slot} \in SUBSET Slots
    BY DEF Single
  <1> QED
    BY <1>1 DEF Bodies

(* An update put into a body leaves a body: the assignment into the        *)
(* pending map.                                                            *)
LEMMA PutIsBody ==
  ASSUME NEW body \in Bodies, NEW slot \in Slots, NEW entry \in Entry
  PROVE  Put(body, slot, entry) \in Bodies
  <1>1. PICK S \in SUBSET Slots : body \in [S -> Entry]
    BY DEF Bodies
  <1>2. Put(body, slot, entry) \in [S \cup {slot} -> Entry]
    BY <1>1 DEF Put
  <1>3. S \cup {slot} \in SUBSET Slots
    OBVIOUS
  <1> QED
    BY <1>2, <1>3 DEF Bodies

(* A unit with a new body is a unit, and the same unit.                    *)
LEMMA NewBody ==
  ASSUME NEW e \in EDU, NEW b \in Bodies
  PROVE  [e EXCEPT !.body = b] \in EDU /\ SameUnit([e EXCEPT !.body = b], e)
  BY DEF EDU, Bodies, SameUnit

(* The unit a producer appends when nothing can take its update.           *)
LEMMA FreshUnit ==
  ASSUME NEW type \in EDUTypes, NEW key \in Keys \cup {NoKey},
         NEW td \in Nat, NEW dl \in Nat, NEW b \in Bodies
  PROVE  [type |-> type, key |-> key, toDeviceUpTo |-> td,
          deviceListUpTo |-> dl, body |-> b] \in EDU
  BY DEF EDU, Bodies

(* No producer moves, drops or re-marks a unit that is already queued.     *)

(* An update's thread and version make an entry.                           *)
LEMMA EntryOf ==
  ASSUME NEW thread \in Threads \cup {NoThread}, NEW version \in Nat
  PROVE  [thread |-> thread, version |-> version] \in Entry
  BY DEF Entry

(* EnqueueMarkedEDU.                                                       *)
LEMMA AppendMarkedExtends ==
  ASSUME NEW q \in Seq(EDU), NEW type \in EDUTypes, NEW version \in Nat,
         NEW td \in Nat, NEW dl \in Nat
  PROVE  Extends(AppendMarked(q, type, version, td, dl), q)
  <1>1. Single(Outbox, [thread |-> NoThread, version |-> version]) \in Bodies
    BY EntryOf, SingleIsBody DEF Slots
  <1> QED
    BY <1>1, FreshUnit, AppendExtends DEF AppendMarked

(* EnqueueKeyedEDU.                                                        *)
LEMMA ReplaceKeyedExtends ==
  ASSUME NEW q \in Seq(EDU), NEW key \in Keys, NEW version \in Nat
  PROVE  Extends(ReplaceKeyed(q, key, version), q)
  <1> DEFINE entry == [thread |-> NoThread, version |-> version]
             I == {i \in DOMAIN q : q[i].key = key /\ q[i].type = "m.typing"}
             at == [i \in I |-> [q[i] EXCEPT !.body = Single(key, entry)]]
             new == [type |-> "m.typing", key |-> key, toDeviceUpTo |-> 0,
                     deviceListUpTo |-> 0, body |-> Single(key, entry)]
  <1>1. Single(key, entry) \in Bodies
    BY EntryOf, SingleIsBody DEF Slots
  <1>2. new \in EDU
    BY <1>1, FreshUnit DEF EDUTypes
  <1>3. I \in SUBSET (1..Len(q))
    OBVIOUS
  <1>4. at \in [I -> EDU] /\ \A i \in I : SameUnit(at[i], q[i])
    BY <1>1, NewBody
  <1>5. Extends(MergeOrAppend(q, I, at, new), q)
    BY <1>2, <1>3, <1>4, MergeExtends
  <1> QED
    BY <1>5 DEF ReplaceKeyed

(* Putting an entry into the units of I keeps them units.                  *)
LEMMA ExtendedUnits ==
  ASSUME NEW q \in Seq(EDU), NEW I \in SUBSET (1..Len(q)),
         NEW slot \in Slots, NEW entry \in Entry
  PROVE  /\ Extended(q, I, slot, entry) \in [I -> EDU]
         /\ \A i \in I : SameUnit(Extended(q, I, slot, entry)[i], q[i])
  <1>a. \A i \in I : q[i] \in EDU
    OBVIOUS
  <1>1. \A i \in I : q[i] \in EDU /\ q[i].body \in Bodies
    BY <1>a DEF EDU, Bodies
  <1>2. \A i \in I : Put(q[i].body, slot, entry) \in Bodies
    BY <1>1, PutIsBody
  <1> QED
    BY <1>1, <1>2, NewBody DEF Extended

(* EnqueueReceipt.                                                         *)
LEMMA MergeReceiptExtends ==
  ASSUME NEW q \in Seq(EDU), NEW reader \in Readers, NEW thread \in Threads,
         NEW version \in Nat
  PROVE  Extends(MergeReceipt(q, reader, thread, version), q)
  <1> DEFINE entry == [thread |-> thread, version |-> version]
             I == {i \in DOMAIN q :
                     /\ q[i].type = "m.receipt"
                     /\ reader \in DOMAIN q[i].body =>
                          q[i].body[reader].thread = thread}
             new == [type |-> "m.receipt", key |-> NoKey, toDeviceUpTo |-> 0,
                     deviceListUpTo |-> 0, body |-> Single(reader, entry)]
  <1>1. entry \in Entry /\ reader \in Slots
    BY EntryOf DEF Slots
  <1>2. new \in EDU
    BY <1>1, SingleIsBody, FreshUnit DEF EDUTypes
  <1>3. I \in SUBSET (1..Len(q))
    OBVIOUS
  <1>4. Extends(MergeOrAppend(q, I, Extended(q, I, reader, entry), new), q)
    <2> HIDE DEF I, entry, new
    <2> QED
      BY <1>1, <1>2, <1>3, ExtendedUnits, MergeExtends
  <1> QED
    BY <1>4 DEF MergeReceipt

(* EnqueuePresence.                                                        *)
LEMMA MergePresenceExtends ==
  ASSUME NEW q \in Seq(EDU), NEW user \in Users, NEW version \in Nat
  PROVE  Extends(MergePresence(q, user, version), q)
  <1> DEFINE entry == [thread |-> NoThread, version |-> version]
             I == {i \in DOMAIN q :
                     /\ q[i].type = "m.presence"
                     /\ \/ user \in DOMAIN q[i].body
                        \/ Cardinality(DOMAIN q[i].body) < MaxPresenceStates}
             new == [type |-> "m.presence", key |-> NoKey, toDeviceUpTo |-> 0,
                     deviceListUpTo |-> 0, body |-> Single(user, entry)]
  <1>1. entry \in Entry /\ user \in Slots
    BY EntryOf DEF Slots
  <1>2. new \in EDU
    BY <1>1, SingleIsBody, FreshUnit DEF EDUTypes
  <1>3. I \in SUBSET (1..Len(q))
    OBVIOUS
  <1>4. Extends(MergeOrAppend(q, I, Extended(q, I, user, entry), new), q)
    <2> HIDE DEF I, entry, new
    <2> QED
      BY <1>1, <1>2, <1>3, ExtendedUnits, MergeExtends
  <1> QED
    BY <1>4 DEF MergePresence

-----------------------------------------------------------------------------
(* What the loop makes of a queue.                                         *)

(* A taken prefix is a queue, no longer than the limit, and the head of    *)
(* the queue it was taken from.                                            *)
LEMMA PrefixIsHead ==
  ASSUME NEW S, NEW q \in Seq(S), NEW limit \in Nat
  PROVE  /\ Prefix(q, limit) \in Seq(S)
         /\ Len(Prefix(q, limit)) <= Len(q)
         /\ Len(Prefix(q, limit)) <= limit
         /\ \A i \in 1..Len(Prefix(q, limit)) : Prefix(q, limit)[i] = q[i]
  BY DEF Prefix

(* Dequeueing n units shifts the others to the front.                      *)
LEMMA RestIsTail ==
  ASSUME NEW S, NEW q \in Seq(S), NEW n \in 0..Len(q)
  PROVE  /\ Rest(q, n) \in Seq(S)
         /\ Len(Rest(q, n)) = Len(q) - n
         /\ \A i \in 1..(Len(q) - n) : Rest(q, n)[i] = q[i + n]
  BY DEF Rest

(* A long outage leaves a queue: every kept unit was in the queue.         *)
LEMMA KeptIsNat ==
  ASSUME NEW q, NEW i \in Nat
  PROVE  Kept(q, i) \in Nat
  <1>1. IsFiniteSet(1..i)
    BY FS_Interval
  <1>2. IsFiniteSet({j \in 1..i : Marked(q[j])})
    BY <1>1, FS_Subset
  <1> QED
    BY <1>2, FS_CardinalityType DEF Kept

(* dropEphemeralEDUs leaves a queue, and every unit in it was queued       *)
(* before.                                                                 *)
LEMMA DropEphemeralIsQueue ==
  ASSUME NEW q \in Seq(EDU)
  PROVE  /\ DropEphemeral(q) \in Seq(EDU)
         /\ \A n \in 1..Len(DropEphemeral(q)) :
              \E i \in 1..Len(q) : DropEphemeral(q)[n] = q[i]
  <1> DEFINE k == Kept(q, Len(q))
             At(n) == {i \in DOMAIN q : Kept(q, i) >= n}
  <1>1. k \in Nat
    BY KeptIsNat
  <1>2. \A n \in 1..k : First(At(n)) \in 1..Len(q)
    <2> SUFFICES ASSUME NEW n \in 1..k PROVE First(At(n)) \in 1..Len(q)
      OBVIOUS
    <2>1. Len(q) \in At(n)
      <3>1. Len(q) # 0
        <4> SUFFICES ASSUME Len(q) = 0 PROVE FALSE
          OBVIOUS
        <4>1. {j \in 1..Len(q) : Marked(q[j])} = {}
          OBVIOUS
        <4>2. k = 0
          BY <4>1, FS_EmptySet DEF Kept
        <4> QED
          BY <4>2
      <3> QED
        BY <1>1, <3>1
    <2>2. At(n) \in SUBSET Nat /\ At(n) \in SUBSET (1..Len(q))
      OBVIOUS
    <2> HIDE DEF At
    <2> QED
      BY <2>1, <2>2, FirstIsLeast
  <1>3. DropEphemeral(q) = [n \in 1..k |-> q[First(At(n))]]
    BY DEF DropEphemeral
  <1> HIDE DEF k, At
  <1>4. [n \in 1..k |-> q[First(At(n))]] \in [1..k -> EDU]
    BY <1>2
  <1> QED
    BY <1>1, <1>2, <1>3, <1>4, IsASeq

(* A value per taken unit, at least one unit: there is a highest value.    *)
LEMMA HighestExists ==
  ASSUME NEW n \in Nat \ {0}, NEW f \in [1..n -> Nat]
  PROVE  \E k \in 1..n : \A j \in 1..n : f[j] <= f[k]
  <1> DEFINE HasTop(m) == \E k \in 1..m : \A j \in 1..m : f[j] <= f[k]
             Bad == {m \in 1..n : ~HasTop(m)}
  <1>1. HasTop(1)
    OBVIOUS
  <1>2. ASSUME NEW m \in 2..n, HasTop(m - 1) PROVE HasTop(m)
    <2>1. PICK k \in 1..(m - 1) : \A j \in 1..(m - 1) : f[j] <= f[k]
      BY <1>2
    <2>2. f[k] \in Nat /\ f[m] \in Nat /\ k \in 1..m /\ m \in 1..m
      OBVIOUS
    <2>3. \A j \in 1..m : j \in 1..(m - 1) \/ j = m
      OBVIOUS
    <2>4. CASE f[m] <= f[k]
      BY <2>1, <2>2, <2>3, <2>4
    <2>5. CASE f[k] < f[m]
      <3>1. \A j \in 1..m : f[j] \in Nat
        OBVIOUS
      <3>2. \A j \in 1..m : f[j] <= f[m]
        BY <2>1, <2>2, <2>3, <2>5, <3>1
      <3> QED
        BY <2>2, <3>2
    <2> QED
      BY <2>2, <2>4, <2>5
  <1> HIDE DEF HasTop
  <1>3. Bad = {}
    <2> SUFFICES ASSUME Bad # {} PROVE FALSE
      OBVIOUS
    <2>1. Bad \in SUBSET Nat
      OBVIOUS
    <2> HIDE DEF Bad
    <2>2. PICK m \in Bad : \A j \in Bad : m <= j
      BY <2>1, FirstIsLeast
    <2> USE DEF Bad
    <2>3. m \in 2..n
      BY <1>1, <2>2
    <2>4. m - 1 \in 1..n /\ m - 1 \notin Bad
      BY <2>2, <2>3
    <2>5. HasTop(m - 1)
      BY <2>4
    <2> QED
      BY <1>2, <2>3, <2>5, <2>2
  <1>4. HasTop(n)
    <2>1. n \in 1..n
      OBVIOUS
    <2> QED
      BY <1>3, <2>1
  <1> QED
    BY <1>4 DEF HasTop

(* The marks of a batch are naturals, and each is that of one of its units *)
(* unless no unit carries one.                                             *)
LEMMA MarksAreNat ==
  ASSUME NEW q \in Seq(EDU)
  PROVE  /\ ToDeviceMark(q) \in Nat /\ DeviceListMark(q) \in Nat
         /\ ToDeviceMark(q) # 0 => \E i \in 1..Len(q) : q[i].toDeviceUpTo = ToDeviceMark(q)
         /\ DeviceListMark(q) # 0 => \E i \in 1..Len(q) : q[i].deviceListUpTo = DeviceListMark(q)
  <1>1. ASSUME NEW f \in [1..Len(q) -> Nat]
        PROVE  LET h == Highest({f[i] : i \in 1..Len(q)})
               IN  h \in Nat /\ (h # 0 => \E i \in 1..Len(q) : f[i] = h)
    <2> DEFINE S == {f[i] : i \in 1..Len(q)}
    <2>1. CASE Len(q) = 0
      BY <2>1 DEF Highest
    <2>2. CASE Len(q) # 0
      <3>1. PICK k \in 1..Len(q) : \A j \in 1..Len(q) : f[j] <= f[k]
        <4>1. Len(q) \in Nat \ {0}
          BY <2>2
        <4> QED
          BY <4>1, HighestExists
      <3>2. S # {} /\ \E m \in S : \A n \in S : n <= m
        BY <3>1
      <3>3. S \in SUBSET Nat
        OBVIOUS
      <3> HIDE DEF S
      <3>4. Highest(S) \in S
        BY <3>2 DEF Highest
      <3> QED
        BY <3>3, <3>4 DEF S
    <2> QED
      BY <2>1, <2>2
  <1>2. \A i \in 1..Len(q) : q[i].toDeviceUpTo \in Nat /\ q[i].deviceListUpTo \in Nat
    <2>1. \A i \in 1..Len(q) : q[i] \in EDU
      OBVIOUS
    <2> QED
      BY <2>1 DEF EDU
  <1>3. /\ ToDeviceMark(q) \in Nat
        /\ ToDeviceMark(q) # 0 => \E i \in 1..Len(q) : q[i].toDeviceUpTo = ToDeviceMark(q)
    <2> DEFINE f == [i \in 1..Len(q) |-> q[i].toDeviceUpTo]
    <2>1. f \in [1..Len(q) -> Nat]
      BY <1>2
    <2>2. {q[i].toDeviceUpTo : i \in DOMAIN q} = {f[i] : i \in 1..Len(q)}
      OBVIOUS
    <2>3. \A i \in 1..Len(q) : f[i] = q[i].toDeviceUpTo
      OBVIOUS
    <2> HIDE DEF f
    <2> QED
      BY <1>1, <2>1, <2>2, <2>3 DEF ToDeviceMark
  <1>4. /\ DeviceListMark(q) \in Nat
        /\ DeviceListMark(q) # 0 => \E i \in 1..Len(q) : q[i].deviceListUpTo = DeviceListMark(q)
    <2> DEFINE f == [i \in 1..Len(q) |-> q[i].deviceListUpTo]
    <2>1. f \in [1..Len(q) -> Nat]
      BY <1>2
    <2>2. {q[i].deviceListUpTo : i \in DOMAIN q} = {f[i] : i \in 1..Len(q)}
      OBVIOUS
    <2>3. \A i \in 1..Len(q) : f[i] = q[i].deviceListUpTo
      OBVIOUS
    <2> HIDE DEF f
    <2> QED
      BY <1>1, <2>1, <2>2, <2>3 DEF DeviceListMark
  <1> QED
    BY <1>3, <1>4

-----------------------------------------------------------------------------
(* What a queue looks like inside.                                         *)

DeviceKinds == {"m.direct_to_device", "m.device_list_update"}

(* The mark of one kind that a unit, or a transaction, carries.            *)
MarkOf(r, type) ==
  IF type = "m.direct_to_device" THEN r.toDeviceUpTo ELSE r.deviceListUpTo

(* The stream id a device unit stands for.                                 *)
IdOf(e) == e.body[Outbox].version

(* A unit: never empty, one slot of its own unless it is a receipt or a    *)
(* presence unit, threads in receipts only, and a mark only on the device  *)
(* unit it is the id of.                                                   *)
UnitTidy(e) ==
  /\ DOMAIN e.body # {}
  /\ e.type \in DeviceKinds => DOMAIN e.body = {Outbox}
  /\ e.type = "m.typing" => DOMAIN e.body = {e.key}
  /\ e.type # "m.receipt" => \A s \in DOMAIN e.body : e.body[s].thread = NoThread
  /\ \A type \in DeviceKinds :
       MarkOf(e, type) # 0 => e.type = type /\ MarkOf(e, type) = IdOf(e)

(* Two units of one type, d ahead of e.  A second receipt unit exists for  *)
(* the readers the first already has, with another thread; a second        *)
(* presence unit because the first is full.  So an update that fits the    *)
(* first has nothing older behind it.                                      *)
PairTidy(d, e) ==
  d.type = e.type =>
    /\ d.type \in DeviceKinds => IdOf(d) < IdOf(e)
    /\ d.type = "m.receipt" => DOMAIN e.body \subseteq DOMAIN d.body
    /\ d.type = "m.presence" => ~(Cardinality(DOMAIN d.body) < MaxPresenceStates)
    /\ \A s \in DOMAIN d.body \cap DOMAIN e.body :
         d.body[s].thread = e.body[s].thread => s = Outbox

Tidy(q) ==
  /\ \A i \in 1..Len(q) : UnitTidy(q[i])
  /\ \A i, j \in 1..Len(q) : i < j => PairTidy(q[i], q[j])

(* No update in the queue has a version above n.                           *)
Below(q, n) ==
  \A i \in 1..Len(q) : \A s \in DOMAIN q[i].body : q[i].body[s].version <= n

(* A queue that lost units and kept the order of the others is as tidy.    *)
LEMMA SubsequenceTidy ==
  ASSUME NEW q \in Seq(EDU), NEW r \in Seq(EDU), NEW h \in [1..Len(r) -> 1..Len(q)],
         \A i \in 1..Len(r) : r[i] = q[h[i]],
         \A i, j \in 1..Len(r) : i < j => h[i] < h[j],
         Tidy(q)
  PROVE  Tidy(r) /\ \A n \in Nat : Below(q, n) => Below(r, n)
  <1>1. \A i \in 1..Len(r) : UnitTidy(r[i])
    BY DEF Tidy
  <1>2. ASSUME NEW i \in 1..Len(r), NEW j \in 1..Len(r), i < j
        PROVE  PairTidy(r[i], r[j])
    <2>1. h[i] \in 1..Len(q) /\ h[j] \in 1..Len(q) /\ h[i] < h[j]
      BY <1>2
    <2>2. PairTidy(q[h[i]], q[h[j]])
      BY <2>1 DEF Tidy
    <2> QED
      BY <2>2
  <1>3. \A n \in Nat : Below(q, n) => Below(r, n)
    BY DEF Below
  <1> QED
    BY <1>1, <1>2, <1>3 DEF Tidy

(* dequeue keeps the order.                                                *)
LEMMA RestTidy ==
  ASSUME NEW q \in Seq(EDU), NEW n \in 0..Len(q), Tidy(q)
  PROVE  Tidy(Rest(q, n)) /\ \A m \in Nat : Below(q, m) => Below(Rest(q, n), m)
  <1> DEFINE r == Rest(q, n)
             h == [i \in 1..Len(r) |-> i + n]
  <1>1. /\ r \in Seq(EDU) /\ Len(r) = Len(q) - n
        /\ \A i \in 1..(Len(q) - n) : r[i] = q[i + n]
    BY RestIsTail
  <1> HIDE DEF r
  <1>2. Len(q) \in Nat /\ Len(r) \in Nat
    BY <1>1
  <1>3. h \in [1..Len(r) -> 1..Len(q)]
    BY <1>1, <1>2
  <1>4. /\ \A i \in 1..Len(r) : r[i] = q[h[i]]
        /\ \A i, j \in 1..Len(r) : i < j => h[i] < h[j]
    BY <1>1, <1>2
  <1> HIDE DEF h
  <1>5. Tidy(r) /\ \A m \in Nat : Below(q, m) => Below(r, m)
    BY <1>1, <1>3, <1>4, SubsequenceTidy
  <1> QED
    BY <1>5 DEF r

(* One unit more is kept, or none.                                         *)
LEMMA KeptGrowsByOne ==
  ASSUME NEW q, NEW i \in Nat
  PROVE  Kept(q, i + 1) <= Kept(q, i) + 1 /\ Kept(q, i) <= Kept(q, i + 1)
  <1> DEFINE A == {j \in 1..i : Marked(q[j])}
             B == {j \in 1..(i + 1) : Marked(q[j])}
  <1>1. IsFiniteSet(A)
    <2>1. IsFiniteSet(1..i)
      BY FS_Interval
    <2> QED
      BY <2>1, FS_Subset
  <1>2. B = A \/ B = A \cup {i + 1}
    OBVIOUS
  <1>3. Kept(q, i) = Cardinality(A) /\ Kept(q, i + 1) = Cardinality(B)
    BY DEF Kept
  <1> HIDE DEF A, B
  <1>4. Cardinality(A) \in Nat
    BY <1>1, FS_CardinalityType
  <1>5. Cardinality(A \cup {i + 1}) \in {Cardinality(A), Cardinality(A) + 1}
    <2>1. CASE i + 1 \in A
      <3>1. A \cup {i + 1} = A
        BY <2>1
      <3> QED
        BY <3>1
    <2>2. CASE i + 1 \notin A
      BY <1>1, <2>2, FS_AddElement
    <2> QED
      BY <2>1, <2>2
  <1> QED
    BY <1>2, <1>3, <1>4, <1>5

(* dropEphemeralEDUs keeps the order.                                      *)
LEMMA DropEphemeralTidy ==
  ASSUME NEW q \in Seq(EDU), Tidy(q)
  PROVE  Tidy(DropEphemeral(q)) /\ \A m \in Nat : Below(q, m) => Below(DropEphemeral(q), m)
  <1> DEFINE r == DropEphemeral(q)
             k == Kept(q, Len(q))
             At(n) == {i \in DOMAIN q : Kept(q, i) >= n}
             h == [n \in 1..k |-> First(At(n))]
  <1>1. k \in Nat /\ Len(q) \in Nat
    BY KeptIsNat
  <1>2. Kept(q, 0) = 0
    <2>1. {j \in 1..0 : Marked(q[j])} = {}
      OBVIOUS
    <2> QED
      BY <2>1, FS_EmptySet DEF Kept
  <1>3. ASSUME NEW n \in 1..k
        PROVE  First(At(n)) \in 1..Len(q) /\ Kept(q, First(At(n))) = n
               /\ \A i \in At(n) : First(At(n)) <= i
    <2>1. Len(q) # 0
      BY <1>1, <1>2
    <2>2. Len(q) \in At(n)
      BY <1>1, <2>1
    <2>3. At(n) \in SUBSET Nat
      OBVIOUS
    <2> DEFINE f == First(At(n))
    <2>4. f \in At(n) /\ \A i \in At(n) : f <= i
      <3> HIDE DEF At
      <3> QED
        BY <2>2, <2>3, FirstIsLeast
    <2> HIDE DEF f
    <2>5. f \in 1..Len(q) /\ Kept(q, f) >= n
      BY <2>4
    <2>6. Kept(q, f - 1) < n
      <3>1. f - 1 \in Nat /\ Kept(q, f - 1) \in Nat
        BY <2>5, KeptIsNat
      <3>2. CASE f - 1 = 0
        BY <1>2, <3>2
      <3>3. CASE f - 1 # 0
        <4>1. f - 1 \in 1..Len(q) /\ f - 1 \notin At(n)
          BY <2>4, <2>5, <3>1, <3>3
        <4> QED
          BY <3>1, <4>1
      <3> QED
        BY <3>2, <3>3
    <2>7. Kept(q, f) <= Kept(q, f - 1) + 1
      <3>1. f - 1 \in Nat /\ (f - 1) + 1 = f
        BY <2>5
      <3>2. Kept(q, (f - 1) + 1) <= Kept(q, f - 1) + 1
        BY <3>1, KeptGrowsByOne
      <3> QED
        BY <3>1, <3>2
    <2>8. Kept(q, f) \in Nat /\ Kept(q, f - 1) \in Nat
      BY <2>5, KeptIsNat
    <2>9. Kept(q, f) = n
      BY <2>5, <2>6, <2>7, <2>8
    <2> QED
      BY <2>4, <2>5, <2>9 DEF f
  <1>4. r = [n \in 1..k |-> q[First(At(n))]]
    BY DEF DropEphemeral
  <1>5. r \in Seq(EDU)
    BY DropEphemeralIsQueue
  <1>6. Len(r) = k /\ DOMAIN r = 1..k
    <2>1. DOMAIN r = 1..k /\ DOMAIN r = 1..Len(r) /\ Len(r) \in Nat
      BY <1>4, <1>5, LenProperties
    <2> HIDE DEF r, k
    <2> QED
      BY <1>1, <2>1
  <1>7. h \in [1..Len(r) -> 1..Len(q)] /\ \A i \in 1..Len(r) : r[i] = q[h[i]]
    BY <1>3, <1>4, <1>6
  <1>8. ASSUME NEW i \in 1..Len(r), NEW j \in 1..Len(r), i < j
        PROVE  h[i] < h[j]
    <2>1. i \in 1..k /\ j \in 1..k /\ h[i] = First(At(i)) /\ h[j] = First(At(j))
      BY <1>6
    <2>2. Kept(q, h[i]) = i /\ Kept(q, h[j]) = j /\ h[j] \in 1..Len(q) /\ h[i] \in 1..Len(q)
      BY <1>3, <2>1
    <2>3. h[j] \in At(i)
      BY <1>8, <2>2
    <2>4. h[i] <= h[j]
      BY <1>3, <2>1, <2>3
    <2>5. h[i] # h[j]
      BY <1>8, <2>2
    <2> HIDE DEF h
    <2> QED
      BY <2>2, <2>4, <2>5
  <1> HIDE DEF r, h
  <1>9. Tidy(r) /\ \A m \in Nat : Below(q, m) => Below(r, m)
    BY <1>5, <1>7, <1>8, SubsequenceTidy
  <1> QED
    BY <1>9 DEF r

-----------------------------------------------------------------------------
(* What an update does to the queue, whichever producer posts it.          *)

SameSlot(f, g) == f.type = g.type /\ f.slot = g.slot /\ f.thread = g.thread

(* r is the queue q after the update x: x is in it, of what was there only *)
(* an older update of the same slot is gone, a device unit stays as it     *)
(* is, and the queue is as tidy as it was.                                 *)
Absorbs(r, q, x) ==
  /\ x \in Facts(r)
  /\ \A f \in Facts(q) : f \in Facts(r) \/ SameSlot(f, x)
  /\ \A i \in 1..Len(q) : q[i].type \in DeviceKinds => r[i] = q[i]
  /\ \A i \in 1..Len(r) : i > Len(q) /\ r[i].type \in DeviceKinds => IdOf(r[i]) = x.version
  /\ Tidy(r) /\ Below(r, x.version)

(* The facts of a queue are those of its units.                            *)
LEMMA FactsIn ==
  ASSUME NEW q \in Seq(EDU), NEW f
  PROVE  f \in Facts(q) <=> \E i \in 1..Len(q) : f \in FactsOf(q[i])
  BY DEF Facts

(* A unit that can take nothing is passed, and a new one appended.         *)
LEMMA AppendAbsorbs ==
  ASSUME NEW q \in Seq(EDU), NEW e \in EDU, NEW x, NEW n \in Nat,
         Tidy(q), Below(q, n), x.version = n + 1, UnitTidy(e),
         \A i \in 1..Len(q) : PairTidy(q[i], e),
         x \in FactsOf(e), \A s \in DOMAIN e.body : e.body[s].version = n + 1
  PROVE  Absorbs(Append(q, e), q, x)
  <1> DEFINE r == Append(q, e)
  <1>1. /\ r \in Seq(EDU) /\ Len(r) = Len(q) + 1 /\ Len(q) \in Nat /\ r[Len(q) + 1] = e
        /\ \A i \in 1..Len(q) : r[i] = q[i]
    OBVIOUS
  <1> HIDE DEF r
  <1>2. \A i \in 1..Len(r) : i \in 1..Len(q) \/ i = Len(q) + 1
    BY <1>1
  <1>3. Len(q) + 1 \in 1..Len(r) /\ \A i \in 1..Len(q) : i \in 1..Len(r)
    BY <1>1
  <1>4. x \in Facts(r)
    BY <1>1, <1>3, FactsIn
  <1>5. \A f \in Facts(q) : f \in Facts(r)
    BY <1>1, <1>3, FactsIn
  <1>6. \A i \in 1..Len(q) : q[i].type \in DeviceKinds => r[i] = q[i]
    BY <1>1
  <1>7. \A i \in 1..Len(r) : i > Len(q) /\ r[i].type \in DeviceKinds => IdOf(r[i]) = x.version
    <2>1. e.type \in DeviceKinds => IdOf(e) = x.version
      BY DEF UnitTidy, IdOf
    <2>2. \A i \in 1..Len(r) : i > Len(q) => r[i] = e
      BY <1>1, <1>2
    <2> QED
      BY <2>1, <2>2
  <1>8. Tidy(r)
    <2>1. \A i \in 1..Len(r) : UnitTidy(r[i])
      BY <1>1, <1>2 DEF Tidy
    <2>2. ASSUME NEW i \in 1..Len(r), NEW j \in 1..Len(r), i < j
          PROVE  PairTidy(r[i], r[j])
      <3>1. i \in 1..Len(q)
        BY <1>1, <2>2
      <3>2. CASE j \in 1..Len(q)
        BY <1>1, <2>2, <3>1, <3>2 DEF Tidy
      <3>3. CASE j = Len(q) + 1
        BY <1>1, <3>1, <3>3
      <3> QED
        BY <1>2, <3>2, <3>3
    <2> QED
      BY <2>1, <2>2 DEF Tidy
  <1>9. Below(r, x.version)
    <2>1. ASSUME NEW i \in 1..Len(q), NEW s \in DOMAIN q[i].body
          PROVE  q[i].body[s].version <= x.version
      <3>1. q[i].body[s].version <= n
        BY DEF Below
      <3>2. q[i].body[s].version \in Nat
        <4>1. q[i] \in EDU
          OBVIOUS
        <4> QED
          BY <4>1 DEF EDU, Entry
      <3> QED
        BY <3>1, <3>2
    <2>2. \A s \in DOMAIN e.body : e.body[s].version <= x.version
      OBVIOUS
    <2> QED
      BY <1>1, <1>2, <2>1, <2>2 DEF Below
  <1> QED
    BY <1>4, <1>5, <1>6, <1>7, <1>8, <1>9 DEF Absorbs, r

(* The first unit that can take the update is rewritten where it is.       *)
LEMMA RewriteAbsorbs ==
  ASSUME NEW q \in Seq(EDU), NEW k \in 1..Len(q), NEW e \in EDU, NEW x, NEW n \in Nat,
         Tidy(q), Below(q, n), x.version = n + 1, UnitTidy(e),
         e.type = q[k].type, e.type \notin DeviceKinds,
         \A i \in 1..Len(q) : i < k => PairTidy(q[i], e),
         \A j \in 1..Len(q) : k < j => PairTidy(e, q[j]),
         x \in FactsOf(e),
         \A f \in FactsOf(q[k]) : f \in FactsOf(e) \/ SameSlot(f, x),
         \A s \in DOMAIN e.body : e.body[s].version <= n + 1
  PROVE  Absorbs([q EXCEPT ![k] = e], q, x)
  <1> DEFINE r == [q EXCEPT ![k] = e]
  <1>1. /\ r \in Seq(EDU) /\ Len(r) = Len(q) /\ Len(q) \in Nat /\ r[k] = e
        /\ \A i \in 1..Len(q) : i # k => r[i] = q[i]
    OBVIOUS
  <1> HIDE DEF r
  <1>2. x \in Facts(r)
    BY <1>1, FactsIn
  <1>3. ASSUME NEW f \in Facts(q) PROVE f \in Facts(r) \/ SameSlot(f, x)
    <2>1. PICK i \in 1..Len(q) : f \in FactsOf(q[i])
      BY FactsIn
    <2>2. CASE i = k
      BY <1>1, <2>1, <2>2, FactsIn
    <2>3. CASE i # k
      BY <1>1, <2>1, <2>3, FactsIn
    <2> QED
      BY <2>2, <2>3
  <1>4. \A i \in 1..Len(q) : q[i].type \in DeviceKinds => r[i] = q[i]
    BY <1>1
  <1>5. \A i \in 1..Len(r) : ~(i > Len(q))
    BY <1>1
  <1>6. Tidy(r)
    <2>1. \A i \in 1..Len(r) : UnitTidy(r[i])
      BY <1>1 DEF Tidy
    <2>2. ASSUME NEW i \in 1..Len(r), NEW j \in 1..Len(r), i < j
          PROVE  PairTidy(r[i], r[j])
      <3>1. CASE i = k
        BY <1>1, <2>2, <3>1
      <3>2. CASE j = k
        BY <1>1, <2>2, <3>2
      <3>3. CASE i # k /\ j # k
        BY <1>1, <2>2, <3>3 DEF Tidy
      <3> QED
        BY <3>1, <3>2, <3>3
    <2> QED
      BY <2>1, <2>2 DEF Tidy
  <1>7. Below(r, x.version)
    <2>1. ASSUME NEW i \in 1..Len(q), NEW s \in DOMAIN q[i].body
          PROVE  q[i].body[s].version <= x.version
      <3>1. q[i].body[s].version <= n
        BY DEF Below
      <3>2. q[i].body[s].version \in Nat
        <4>1. q[i] \in EDU
          OBVIOUS
        <4> QED
          BY <4>1 DEF EDU, Entry
      <3> QED
        BY <3>1, <3>2
    <2>2. \A s \in DOMAIN e.body : e.body[s].version <= x.version
      OBVIOUS
    <2> QED
      BY <1>1, <2>1, <2>2 DEF Below
  <1> QED
    BY <1>2, <1>3, <1>4, <1>5, <1>6, <1>7 DEF Absorbs, r

(* The fact of an update.                                                  *)
Update(type, slot, thread, version) ==
  [type |-> type, slot |-> slot, thread |-> thread, version |-> version]

(* A unit with one slot says one thing.                                    *)
LEMMA SingleFact ==
  ASSUME NEW e \in EDU, NEW slot, NEW entry,
         e.body = Single(slot, entry)
  PROVE  /\ Update(e.type, slot, entry.thread, entry.version) \in FactsOf(e)
         /\ DOMAIN e.body = {slot} /\ e.body[slot] = entry
  BY DEF Single, FactsOf, Update

(* A slot put into a unit: the other slots say what they said.             *)
LEMMA PutFact ==
  ASSUME NEW u \in EDU, NEW e \in EDU, NEW slot \in Slots, NEW entry \in Entry,
         e.type = u.type,
         e.body = Put(u.body, slot, entry)
  PROVE  /\ Update(e.type, slot, entry.thread, entry.version) \in FactsOf(e)
         /\ DOMAIN e.body = DOMAIN u.body \cup {slot}
         /\ e.body[slot] = entry
         /\ \A s \in DOMAIN u.body : s # slot => e.body[s] = u.body[s]
         /\ \A f \in FactsOf(u) :
              f \in FactsOf(e)
                \/ (slot \in DOMAIN u.body /\ f.type = e.type /\ f.slot = slot
                    /\ f.thread = u.body[slot].thread)
  <1>1. /\ DOMAIN e.body = DOMAIN u.body \cup {slot}
        /\ e.body[slot] = entry
        /\ \A s \in DOMAIN u.body : s # slot => e.body[s] = u.body[s]
    BY DEF Put
  <1>2. Update(e.type, slot, entry.thread, entry.version) \in FactsOf(e)
    BY <1>1 DEF FactsOf, Update
  <1>3. ASSUME NEW f \in FactsOf(u)
        PROVE  f \in FactsOf(e)
                \/ (slot \in DOMAIN u.body /\ f.type = e.type /\ f.slot = slot
                    /\ f.thread = u.body[slot].thread)
    <2>1. PICK s \in DOMAIN u.body :
            f = [type |-> u.type, slot |-> s, thread |-> u.body[s].thread,
                 version |-> u.body[s].version]
      BY DEF FactsOf
    <2>2. CASE s = slot
      BY <2>1, <2>2
    <2>3. CASE s # slot
      <3>1. s \in DOMAIN e.body /\ e.body[s] = u.body[s] /\ e.type = u.type
        BY <1>1, <2>3
      <3> QED
        BY <2>1, <3>1 DEF FactsOf
    <2> QED
      BY <2>2, <2>3
  <1> QED
    BY <1>1, <1>2, <1>3

(* A unit without marks.                                                   *)
LEMMA Unmarked ==
  ASSUME NEW e, e.toDeviceUpTo = 0, e.deviceListUpTo = 0, NEW type
  PROVE  MarkOf(e, type) = 0
  BY DEF MarkOf

(* EnqueueMarkedEDU: ids arrive in their order, so the last unit has the   *)
(* highest.                                                                *)
LEMMA AppendMarkedAbsorbs ==
  ASSUME NEW q \in Seq(EDU), NEW n \in Nat, NEW v \in Nat, v = n + 1, Tidy(q), Below(q, n),
         NEW type \in DeviceKinds, NEW td \in {0, v}, NEW dl \in {0, v},
         td # 0 => type = "m.direct_to_device", dl # 0 => type = "m.device_list_update"
  PROVE  Absorbs(AppendMarked(q, type, v, td, dl), q, Update(type, Outbox, NoThread, v))
  <1> DEFINE entry == [thread |-> NoThread, version |-> v]
             b == Single(Outbox, entry)
             e == [type |-> type, key |-> NoKey, toDeviceUpTo |-> td,
                   deviceListUpTo |-> dl, body |-> b]
             x == Update(type, Outbox, NoThread, v)
  <1>1. e \in EDU
    <2>1. b \in Bodies
      <3>1. entry \in Entry
        BY EntryOf
      <3> QED
        BY <3>1, SingleIsBody DEF Slots
    <2>2. td \in Nat /\ dl \in Nat
      OBVIOUS
    <2> HIDE DEF b
    <2> QED
      BY <2>1, <2>2, FreshUnit DEF EDUTypes, DeviceKinds
  <1>2. /\ e.type = type /\ e.body = b /\ e.toDeviceUpTo = td /\ e.deviceListUpTo = dl
        /\ x.version = v
    BY DEF Update
  <1>3. AppendMarked(q, type, v, td, dl) = Append(q, e)
    BY DEF AppendMarked
  <1> HIDE DEF e
  <1>4. /\ x \in FactsOf(e) /\ DOMAIN e.body = {Outbox} /\ e.body[Outbox].thread = NoThread
        /\ e.body[Outbox].version = v
    <2>1. entry.thread = NoThread /\ entry.version = v
      OBVIOUS
    <2> HIDE DEF entry
    <2>2. /\ Update(e.type, Outbox, entry.thread, entry.version) \in FactsOf(e)
          /\ DOMAIN e.body = {Outbox} /\ e.body[Outbox] = entry
      BY <1>1, <1>2, SingleFact
    <2> QED
      BY <1>2, <2>1, <2>2
  <1> HIDE DEF b, x
  <1>5. UnitTidy(e)
    <2>1. \A t \in DeviceKinds : MarkOf(e, t) # 0 => e.type = t /\ MarkOf(e, t) = IdOf(e)
      BY <1>2, <1>4 DEF MarkOf, IdOf, DeviceKinds
    <2> QED
      BY <1>2, <1>4, <2>1 DEF UnitTidy, DeviceKinds
  <1>6. ASSUME NEW i \in 1..Len(q) PROVE PairTidy(q[i], e)
    <2> SUFFICES ASSUME q[i].type = e.type
                 PROVE  IdOf(q[i]) < IdOf(e) /\ DOMAIN q[i].body = {Outbox}
      BY <1>2 DEF PairTidy, DeviceKinds
    <2>1. DOMAIN q[i].body = {Outbox}
      BY <1>2 DEF Tidy, UnitTidy
    <2>2. q[i].body[Outbox].version <= n
      BY <2>1 DEF Below
    <2>3. q[i].body[Outbox].version \in Nat
      <3>1. q[i] \in EDU
        OBVIOUS
      <3> QED
        BY <2>1, <3>1 DEF EDU, Entry
    <2> QED
      BY <1>4, <2>1, <2>2, <2>3 DEF IdOf
  <1>7. Absorbs(Append(q, e), q, x)
    BY <1>1, <1>2, <1>4, <1>5, <1>6, AppendAbsorbs
  <1> QED
    BY <1>3, <1>7 DEF x

(* EnqueueKeyedEDU: a key has one unit, so clobbering its body leaves no   *)
(* other.                                                                  *)
LEMMA ReplaceKeyedAbsorbs ==
  ASSUME NEW q \in Seq(EDU), NEW n \in Nat, NEW v \in Nat, v = n + 1, Tidy(q), Below(q, n), NEW key \in Keys
  PROVE  Absorbs(ReplaceKeyed(q, key, v), q, Update("m.typing", key, NoThread, v))
  <1> DEFINE entry == [thread |-> NoThread, version |-> v]
             b == Single(key, entry)
             I == {i \in DOMAIN q : q[i].key = key /\ q[i].type = "m.typing"}
             at == [i \in I |-> [q[i] EXCEPT !.body = b]]
             new == [type |-> "m.typing", key |-> key, toDeviceUpTo |-> 0,
                     deviceListUpTo |-> 0, body |-> b]
             x == Update("m.typing", key, NoThread, v)
  <1>1. ReplaceKeyed(q, key, v) = MergeOrAppend(q, I, at, new)
    BY DEF ReplaceKeyed
  <1>2. b \in Bodies /\ x.version = v
    BY EntryOf, SingleIsBody DEF Slots, Update
  <1>3. ASSUME NEW e \in EDU, e.type = "m.typing", e.key = key, e.body = b,
               e.toDeviceUpTo = 0, e.deviceListUpTo = 0
        PROVE  /\ x \in FactsOf(e) /\ DOMAIN e.body = {key} /\ e.body[key].thread = NoThread
               /\ e.body[key].version = v /\ UnitTidy(e)
    <2>1. /\ x \in FactsOf(e) /\ DOMAIN e.body = {key} /\ e.body[key].thread = NoThread
          /\ e.body[key].version = v
      <3>1. entry.thread = NoThread /\ entry.version = v
        OBVIOUS
      <3> HIDE DEF entry
      <3>2. /\ Update(e.type, key, entry.thread, entry.version) \in FactsOf(e)
            /\ DOMAIN e.body = {key} /\ e.body[key] = entry
        BY <1>3, SingleFact
      <3> QED
        BY <1>3, <3>1, <3>2
    <2> QED
      BY <1>3, <2>1, Unmarked DEF UnitTidy, DeviceKinds
  <1>4. \A i \in 1..Len(q) : q[i].type = "m.typing" => DOMAIN q[i].body = {q[i].key}
    BY DEF Tidy, UnitTidy
  <1>5. CASE I = {}
    <2>1. new \in EDU
      <3> HIDE DEF b
      <3> QED
        BY <1>2, FreshUnit DEF EDUTypes
    <2>2. /\ new.type = "m.typing" /\ new.key = key /\ new.body = b
          /\ new.toDeviceUpTo = 0 /\ new.deviceListUpTo = 0
      OBVIOUS
    <2> HIDE DEF new
    <2>3. /\ x \in FactsOf(new) /\ DOMAIN new.body = {key}
          /\ new.body[key].version = v /\ UnitTidy(new)
      BY <1>3, <2>1, <2>2
    <2>4. ASSUME NEW i \in 1..Len(q) PROVE PairTidy(q[i], new)
      <3>1. q[i].type = "m.typing" => q[i].key # key
        BY <1>5
      <3> QED
        BY <1>4, <2>2, <2>3, <3>1 DEF PairTidy, DeviceKinds
    <2>5. Absorbs(Append(q, new), q, x)
      <3> HIDE DEF x
      <3> QED
        BY <1>2, <2>1, <2>3, <2>4, AppendAbsorbs
    <2> QED
      BY <1>1, <1>5, <2>5 DEF MergeOrAppend
  <1>6. CASE I # {}
    <2> DEFINE k == First(I)
    <2>1. I \in SUBSET Nat /\ I \subseteq 1..Len(q)
      OBVIOUS
    <2>2. k \in I
      <3> HIDE DEF I
      <3> QED
        BY <1>6, <2>1, FirstIsLeast
    <2>3. MergeOrAppend(q, I, at, new) = [q EXCEPT ![k] = at[k]]
      BY <1>6 DEF MergeOrAppend
    <2> HIDE DEF k
    <2> DEFINE e == [q[k] EXCEPT !.body = b]
    <2>4. k \in 1..Len(q) /\ q[k] \in EDU /\ q[k].type = "m.typing" /\ q[k].key = key
          /\ at[k] = e
      BY <2>2
    <2>5. e \in EDU /\ SameUnit(e, q[k]) /\ e.body = b
      <3>1. e.body = b
        BY <2>4 DEF EDU
      <3> HIDE DEF b
      <3> QED
        BY <1>2, <2>4, <3>1, NewBody
    <2>6. q[k].toDeviceUpTo = 0 /\ q[k].deviceListUpTo = 0
      <3>1. UnitTidy(q[k])
        BY <2>4 DEF Tidy
      <3>2. \A t \in DeviceKinds : MarkOf(q[k], t) = 0
        BY <2>4, <3>1 DEF UnitTidy, DeviceKinds
      <3> QED
        BY <3>2 DEF MarkOf, DeviceKinds
    <2>7. e.type = "m.typing" /\ e.key = key /\ e.toDeviceUpTo = 0 /\ e.deviceListUpTo = 0
      BY <2>4, <2>5, <2>6 DEF SameUnit
    <2> HIDE DEF e
    <2>8. /\ x \in FactsOf(e) /\ DOMAIN e.body = {key} /\ e.body[key].thread = NoThread
          /\ e.body[key].version = v /\ UnitTidy(e)
      BY <1>3, <2>5, <2>7
    <2>9. DOMAIN q[k].body = {key} /\ q[k].body[key].thread = NoThread
      <3>1. UnitTidy(q[k])
        BY <2>4 DEF Tidy
      <3> QED
        BY <2>4, <3>1 DEF UnitTidy
    <2>10. ASSUME NEW i \in 1..Len(q), i < k PROVE PairTidy(q[i], e)
      <3>1. PairTidy(q[i], q[k])
        BY <2>4, <2>10 DEF Tidy
      <3> QED
        BY <2>4, <2>7, <2>8, <2>9, <3>1 DEF PairTidy, DeviceKinds
    <2>11. ASSUME NEW j \in 1..Len(q), k < j PROVE PairTidy(e, q[j])
      <3>1. PairTidy(q[k], q[j])
        BY <2>4, <2>11 DEF Tidy
      <3> QED
        BY <2>4, <2>7, <2>8, <2>9, <3>1 DEF PairTidy, DeviceKinds
    <2>12. ASSUME NEW f \in FactsOf(q[k]) PROVE SameSlot(f, x)
      BY <2>4, <2>9 DEF FactsOf, SameSlot, Update
    <2>13. Absorbs([q EXCEPT ![k] = e], q, x)
      <3>1. e.type \notin DeviceKinds
        BY <2>7 DEF DeviceKinds
      <3>2. \A s \in DOMAIN e.body : e.body[s].version <= v
        BY <2>8
      <3>3. /\ k \in 1..Len(q) /\ e \in EDU /\ UnitTidy(e) /\ x \in FactsOf(e)
            /\ e.type = q[k].type
        BY <2>4, <2>5, <2>7, <2>8
      <3>4. \A f \in FactsOf(q[k]) : f \in FactsOf(e) \/ SameSlot(f, x)
        BY <2>12
      <3>5. /\ \A i \in 1..Len(q) : i < k => PairTidy(q[i], e)
            /\ \A j \in 1..Len(q) : k < j => PairTidy(e, q[j])
        BY <2>10, <2>11
      <3> HIDE DEF x, b, at, new, I
      <3> QED
        BY <1>2, <3>1, <3>2, <3>3, <3>4, <3>5, RewriteAbsorbs
    <2> QED
      BY <1>1, <2>3, <2>4, <2>13
  <1> QED
    BY <1>5, <1>6

(* A receipt or a presence unit takes a slot: it is the first that can.    *)
LEMMA PutAbsorbs ==
  ASSUME NEW q \in Seq(EDU), NEW n \in Nat, NEW v \in Nat, v = n + 1, Tidy(q), Below(q, n),
         NEW k \in 1..Len(q), NEW slot \in Slots, NEW entry \in Entry, entry.version = v,
         q[k].type = "m.receipt" \/ (q[k].type = "m.presence" /\ entry.thread = NoThread),
         slot \in DOMAIN q[k].body => q[k].body[slot].thread = entry.thread,
         \A i \in 1..Len(q) : i < k /\ q[i].type = q[k].type =>
           IF q[k].type = "m.receipt"
           THEN slot \in DOMAIN q[i].body /\ q[i].body[slot].thread # entry.thread
           ELSE slot \notin DOMAIN q[i].body,
         q[k].type = "m.presence" /\ slot \notin DOMAIN q[k].body =>
           Cardinality(DOMAIN q[k].body) < MaxPresenceStates
  PROVE  Absorbs([q EXCEPT ![k] = [q[k] EXCEPT !.body = Put(q[k].body, slot, entry)]], q,
                 Update(q[k].type, slot, entry.thread, v))
  <1> DEFINE u == q[k]
             b == Put(u.body, slot, entry)
             e == [u EXCEPT !.body = b]
             x == Update(q[k].type, slot, entry.thread, v)
  <1>1. u \in EDU /\ UnitTidy(u)
    BY DEF Tidy
  <1>2. x.version = v
    BY DEF Update
  <1>3. e \in EDU /\ SameUnit(e, u) /\ e.body = b
    <2>1. u.body \in Bodies
      BY <1>1 DEF EDU, Bodies
    <2>2. b \in Bodies
      BY <2>1, PutIsBody
    <2>3. e.body = b
      BY <1>1 DEF EDU
    <2> HIDE DEF u, b
    <2> QED
      BY <1>1, <2>2, <2>3, NewBody
  <1>4. e.type = u.type /\ u.type \in {"m.receipt", "m.presence"}
    BY <1>3 DEF SameUnit
  <1> HIDE DEF e
  <1>5. /\ x \in FactsOf(e) /\ DOMAIN e.body = DOMAIN u.body \cup {slot}
        /\ e.body[slot] = entry
        /\ \A s \in DOMAIN u.body : s # slot => e.body[s] = u.body[s]
        /\ \A f \in FactsOf(u) :
              f \in FactsOf(e)
                \/ (slot \in DOMAIN u.body /\ f.type = e.type /\ f.slot = slot
                    /\ f.thread = u.body[slot].thread)
    <2>1. e.body = Put(u.body, slot, entry) /\ e.type = u.type /\ u \in EDU /\ e \in EDU
      BY <1>1, <1>3, <1>4
    <2> HIDE DEF u
    <2>2. Update(e.type, slot, entry.thread, entry.version) \in FactsOf(e)
      BY <2>1, PutFact
    <2>3. /\ DOMAIN e.body = DOMAIN u.body \cup {slot}
          /\ e.body[slot] = entry
      <3> HIDE DEF b
      <3> QED
        BY <2>1 DEF Put
    <2>4. \A s \in DOMAIN u.body : s # slot => e.body[s] = u.body[s]
      BY <2>1, PutFact
    <2>5. \A f \in FactsOf(u) :
                f \in FactsOf(e)
                  \/ (slot \in DOMAIN u.body /\ f.type = e.type /\ f.slot = slot
                      /\ f.thread = u.body[slot].thread)
      BY <2>1, PutFact
    <2> QED
      BY <1>4, <2>2, <2>3, <2>4, <2>5 DEF u
  <1> HIDE DEF b
  <1>6. UnitTidy(e)
    <2>1. u.toDeviceUpTo = 0 /\ u.deviceListUpTo = 0
      <3>1. \A t \in DeviceKinds : MarkOf(u, t) = 0
        <4> HIDE DEF u
        <4> QED
          BY <1>1, <1>4 DEF UnitTidy, DeviceKinds
      <3> QED
        BY <3>1 DEF MarkOf, DeviceKinds
    <2>2. \A t \in DeviceKinds : MarkOf(e, t) = 0
      BY <1>3, <2>1, Unmarked DEF SameUnit
    <2>3. e.type # "m.receipt" => \A s \in DOMAIN e.body : e.body[s].thread = NoThread
      BY <1>1, <1>4, <1>5 DEF UnitTidy
    <2> QED
      BY <1>4, <1>5, <2>2, <2>3 DEF UnitTidy, DeviceKinds
  <1>7. ASSUME NEW i \in 1..Len(q), i < k PROVE PairTidy(q[i], e)
    <2> SUFFICES ASSUME q[i].type = e.type
                 PROVE  /\ e.type = "m.receipt" => DOMAIN e.body \subseteq DOMAIN q[i].body
                        /\ e.type = "m.presence" => ~(Cardinality(DOMAIN q[i].body) < MaxPresenceStates)
                        /\ \A s \in DOMAIN q[i].body \cap DOMAIN e.body :
                             q[i].body[s].thread = e.body[s].thread => s = Outbox
      BY <1>4 DEF PairTidy, DeviceKinds
    <2>1. PairTidy(q[i], u)
      BY <1>7 DEF Tidy
    <2>2. IF u.type = "m.receipt"
          THEN slot \in DOMAIN q[i].body /\ q[i].body[slot].thread # entry.thread
          ELSE slot \notin DOMAIN q[i].body
      BY <1>4, <1>7
    <2> HIDE DEF u
    <2> QED
      BY <1>4, <1>5, <2>1, <2>2 DEF PairTidy
  <1>8. ASSUME NEW j \in 1..Len(q), k < j PROVE PairTidy(e, q[j])
    <2> SUFFICES ASSUME q[j].type = e.type
                 PROVE  /\ e.type = "m.receipt" => DOMAIN q[j].body \subseteq DOMAIN e.body
                        /\ e.type = "m.presence" => ~(Cardinality(DOMAIN e.body) < MaxPresenceStates)
                        /\ \A s \in DOMAIN e.body \cap DOMAIN q[j].body :
                             e.body[s].thread = q[j].body[s].thread => s = Outbox
      BY <1>4 DEF PairTidy, DeviceKinds
    <2>1. PairTidy(u, q[j])
      BY <1>8 DEF Tidy
    <2>2. slot \in DOMAIN u.body => u.body[slot].thread = entry.thread
      OBVIOUS
    <2>3. u.type = "m.presence" /\ slot \notin DOMAIN u.body =>
            Cardinality(DOMAIN u.body) < MaxPresenceStates
      OBVIOUS
    <2> HIDE DEF u
    <2>4. e.type = "m.presence" => slot \in DOMAIN u.body
      BY <1>4, <2>1, <2>3 DEF PairTidy
    <2>5. slot \in DOMAIN u.body => DOMAIN e.body = DOMAIN u.body
      BY <1>5
    <2>6. e.type = "m.presence" => ~(Cardinality(DOMAIN e.body) < MaxPresenceStates)
      BY <1>4, <2>1, <2>4, <2>5 DEF PairTidy
    <2>7. e.type = "m.receipt" => DOMAIN q[j].body \subseteq DOMAIN u.body
      BY <1>4, <2>1 DEF PairTidy
    <2> QED
      BY <1>4, <1>5, <2>1, <2>2, <2>4, <2>6, <2>7 DEF PairTidy
  <1>9. ASSUME NEW f \in FactsOf(q[k]) PROVE f \in FactsOf(e) \/ SameSlot(f, x)
    <2>1. f \in FactsOf(e) \/ (slot \in DOMAIN u.body /\ f.type = e.type /\ f.slot = slot
                                /\ f.thread = u.body[slot].thread)
      BY <1>5
    <2> QED
      BY <1>4, <2>1 DEF SameSlot, Update
  <1>10. ASSUME NEW s \in DOMAIN e.body PROVE e.body[s].version <= n + 1
    <2>1. CASE s = slot
      BY <1>5, <2>1
    <2>2. CASE s # slot
      <3>1. s \in DOMAIN u.body /\ e.body[s] = u.body[s]
        BY <1>5, <2>2
      <3>2. u.body[s].version <= n
        BY <3>1 DEF Below
      <3>3. u.body[s].version \in Nat
        BY <1>1, <3>1 DEF EDU, Entry
      <3> QED
        BY <3>1, <3>2, <3>3
    <2> QED
      BY <2>1, <2>2
  <1>11. Absorbs([q EXCEPT ![k] = e], q, x)
    <2>1. e.type = q[k].type /\ e.type \notin DeviceKinds
      BY <1>4 DEF DeviceKinds
    <2> HIDE DEF x
    <2> QED
      BY <1>2, <1>3, <1>5, <1>6, <1>7, <1>8, <1>9, <1>10, <2>1, RewriteAbsorbs
  <1> QED
    BY <1>11 DEF e, b

(* EnqueueReceipt.                                                         *)
LEMMA MergeReceiptAbsorbs ==
  ASSUME NEW q \in Seq(EDU), NEW n \in Nat, NEW v \in Nat, v = n + 1, Tidy(q), Below(q, n),
         NEW reader \in Readers, NEW thread \in Threads
  PROVE  Absorbs(MergeReceipt(q, reader, thread, v), q, Update("m.receipt", reader, thread, v))
  <1> DEFINE entry == [thread |-> thread, version |-> v]
             b == Single(reader, entry)
             I == {i \in DOMAIN q :
                     /\ q[i].type = "m.receipt"
                     /\ reader \in DOMAIN q[i].body =>
                          q[i].body[reader].thread = thread}
             new == [type |-> "m.receipt", key |-> NoKey, toDeviceUpTo |-> 0,
                     deviceListUpTo |-> 0, body |-> b]
             x == Update("m.receipt", reader, thread, v)
  <1>1. MergeReceipt(q, reader, thread, v)
          = MergeOrAppend(q, I, Extended(q, I, reader, entry), new)
    BY DEF MergeReceipt
  <1>2. /\ entry \in Entry /\ reader \in Slots /\ x.version = v
        /\ entry.thread = thread /\ entry.version = v
    BY EntryOf DEF Slots, Update
  <1>3. CASE I = {}
    <2>1. new \in EDU
      BY <1>2, SingleIsBody, FreshUnit DEF EDUTypes
    <2>2. /\ new.type = "m.receipt" /\ new.body = b
          /\ new.toDeviceUpTo = 0 /\ new.deviceListUpTo = 0
      OBVIOUS
    <2> HIDE DEF new, entry
    <2>3. /\ Update(new.type, reader, entry.thread, entry.version) \in FactsOf(new)
          /\ DOMAIN new.body = {reader} /\ new.body[reader] = entry
      BY <2>1, <2>2, SingleFact
    <2>4. x \in FactsOf(new)
      BY <1>2, <2>2, <2>3
    <2>5. UnitTidy(new)
      BY <2>2, <2>3, Unmarked DEF UnitTidy, DeviceKinds
    <2>6. ASSUME NEW i \in 1..Len(q) PROVE PairTidy(q[i], new)
      <3>1. q[i].type = "m.receipt" =>
              reader \in DOMAIN q[i].body /\ q[i].body[reader].thread # thread
        BY <1>3
      <3> QED
        BY <1>2, <2>2, <2>3, <3>1 DEF PairTidy, DeviceKinds
    <2>7. Absorbs(Append(q, new), q, x)
      <3>1. \A s \in DOMAIN new.body : new.body[s].version = n + 1
        BY <1>2, <2>3
      <3> HIDE DEF x
      <3> QED
        BY <1>2, <2>1, <2>4, <2>5, <2>6, <3>1, AppendAbsorbs
    <2> QED
      BY <1>1, <1>3, <2>7 DEF MergeOrAppend
  <1>4. CASE I # {}
    <2> DEFINE k == First(I)
    <2>1. I \in SUBSET Nat /\ I \subseteq 1..Len(q)
      OBVIOUS
    <2>2. k \in I /\ \A i \in I : k <= i
      <3> HIDE DEF I
      <3> QED
        BY <1>4, <2>1, FirstIsLeast
    <2>3. MergeOrAppend(q, I, Extended(q, I, reader, entry), new)
            = [q EXCEPT ![k] = Extended(q, I, reader, entry)[k]]
      BY <1>4 DEF MergeOrAppend
    <2> HIDE DEF k
    <2>4. Extended(q, I, reader, entry)[k] = [q[k] EXCEPT !.body = Put(q[k].body, reader, entry)]
      BY <2>2 DEF Extended
    <2>5. /\ k \in 1..Len(q) /\ q[k].type = "m.receipt"
          /\ reader \in DOMAIN q[k].body => q[k].body[reader].thread = thread
      BY <2>2
    <2>6. ASSUME NEW i \in 1..Len(q), i < k, q[i].type = q[k].type
          PROVE  reader \in DOMAIN q[i].body /\ q[i].body[reader].thread # thread
      <3>1. i \notin I
        BY <2>2, <2>5, <2>6
      <3> QED
        BY <2>5, <2>6, <3>1
    <2> HIDE DEF I, entry, x
    <2>7. Absorbs([q EXCEPT ![k] = [q[k] EXCEPT !.body = Put(q[k].body, reader, entry)]], q,
                  Update(q[k].type, reader, entry.thread, v))
      BY <1>2, <2>5, <2>6, PutAbsorbs
    <2> QED
      BY <1>1, <1>2, <2>3, <2>4, <2>5, <2>7
  <1> QED
    BY <1>3, <1>4

(* EnqueuePresence.                                                        *)
LEMMA MergePresenceAbsorbs ==
  ASSUME NEW q \in Seq(EDU), NEW n \in Nat, NEW v \in Nat, v = n + 1, Tidy(q), Below(q, n),
         NEW user \in Users
  PROVE  Absorbs(MergePresence(q, user, v), q, Update("m.presence", user, NoThread, v))
  <1> DEFINE entry == [thread |-> NoThread, version |-> v]
             b == Single(user, entry)
             I == {i \in DOMAIN q :
                     /\ q[i].type = "m.presence"
                     /\ \/ user \in DOMAIN q[i].body
                        \/ Cardinality(DOMAIN q[i].body) < MaxPresenceStates}
             new == [type |-> "m.presence", key |-> NoKey, toDeviceUpTo |-> 0,
                     deviceListUpTo |-> 0, body |-> b]
             x == Update("m.presence", user, NoThread, v)
  <1>1. MergePresence(q, user, v)
          = MergeOrAppend(q, I, Extended(q, I, user, entry), new)
    BY DEF MergePresence
  <1>2. /\ entry \in Entry /\ user \in Slots /\ x.version = v
        /\ entry.thread = NoThread /\ entry.version = v
    BY EntryOf DEF Slots, Update
  <1>3. CASE I = {}
    <2>1. new \in EDU
      BY <1>2, SingleIsBody, FreshUnit DEF EDUTypes
    <2>2. /\ new.type = "m.presence" /\ new.body = b
          /\ new.toDeviceUpTo = 0 /\ new.deviceListUpTo = 0
      OBVIOUS
    <2> HIDE DEF new, entry
    <2>3. /\ Update(new.type, user, entry.thread, entry.version) \in FactsOf(new)
          /\ DOMAIN new.body = {user} /\ new.body[user] = entry
      BY <2>1, <2>2, SingleFact
    <2>4. x \in FactsOf(new)
      BY <1>2, <2>2, <2>3
    <2>5. UnitTidy(new)
      BY <1>2, <2>2, <2>3, Unmarked DEF UnitTidy, DeviceKinds
    <2>6. ASSUME NEW i \in 1..Len(q) PROVE PairTidy(q[i], new)
      <3>1. q[i].type = "m.presence" =>
              user \notin DOMAIN q[i].body
              /\ ~(Cardinality(DOMAIN q[i].body) < MaxPresenceStates)
        BY <1>3
      <3> QED
        BY <2>2, <2>3, <3>1 DEF PairTidy, DeviceKinds
    <2>7. Absorbs(Append(q, new), q, x)
      <3>1. \A s \in DOMAIN new.body : new.body[s].version = n + 1
        BY <1>2, <2>3
      <3> HIDE DEF x
      <3> QED
        BY <1>2, <2>1, <2>4, <2>5, <2>6, <3>1, AppendAbsorbs
    <2> QED
      BY <1>1, <1>3, <2>7 DEF MergeOrAppend
  <1>4. CASE I # {}
    <2> DEFINE k == First(I)
    <2>1. I \in SUBSET Nat /\ I \subseteq 1..Len(q)
      OBVIOUS
    <2>2. k \in I /\ \A i \in I : k <= i
      <3> HIDE DEF I
      <3> QED
        BY <1>4, <2>1, FirstIsLeast
    <2>3. MergeOrAppend(q, I, Extended(q, I, user, entry), new)
            = [q EXCEPT ![k] = Extended(q, I, user, entry)[k]]
      BY <1>4 DEF MergeOrAppend
    <2> HIDE DEF k
    <2>4. Extended(q, I, user, entry)[k] = [q[k] EXCEPT !.body = Put(q[k].body, user, entry)]
      BY <2>2 DEF Extended
    <2>5. /\ k \in 1..Len(q) /\ q[k].type = "m.presence"
          /\ user \notin DOMAIN q[k].body => Cardinality(DOMAIN q[k].body) < MaxPresenceStates
      BY <2>2
    <2>6. ASSUME NEW i \in 1..Len(q), i < k, q[i].type = q[k].type
          PROVE  user \notin DOMAIN q[i].body
      <3>1. i \notin I
        BY <2>2, <2>5, <2>6
      <3> QED
        BY <2>5, <2>6, <3>1
    <2>7. user \in DOMAIN q[k].body => q[k].body[user].thread = NoThread
      BY <2>5 DEF Tidy, UnitTidy
    <2> HIDE DEF I, entry, x
    <2>8. Absorbs([q EXCEPT ![k] = [q[k] EXCEPT !.body = Put(q[k].body, user, entry)]], q,
                  Update(q[k].type, user, entry.thread, v))
      BY <1>2, <2>5, <2>6, <2>7, PutAbsorbs
    <2> QED
      BY <1>1, <1>2, <2>3, <2>4, <2>5, <2>8
  <1> QED
    BY <1>3, <1>4

-----------------------------------------------------------------------------
(* Abbreviations of single expressions, expanded everywhere.               *)
USE DEF WithPDU, Batch, AfterSend, MayClaim, AfterCatchUp, AfterRelease

-----------------------------------------------------------------------------
(* One transaction at a time.                                              *)

(* Initially nobody holds the destination.                                 *)
LEMMA OneTransactionInit == Init => OneTransaction
  BY DEF Init, OneTransaction

(* Every step hands the claim on or leaves it where it is.                 *)
LEMMA OneTransactionStep == OneTransaction /\ [Next]_vars => OneTransaction'
  <1> SUFFICES ASSUME OneTransaction, [Next]_vars PROVE OneTransaction'
    OBVIOUS
  <1> USE DEF OneTransaction
  <1>1. CASE Enqueue
    BY <1>1 DEF Enqueue, EnqueuePDU, EnqueueMarkedEDU, EnqueueKeyedEDU,
         EnqueueReceipt, EnqueuePresence, Post, loopVars, claimVars
  <1>2. CASE Wake \/ AcquireSlot \/ Release
    BY <1>2 DEF Wake, TryStart, AcquireSlot, Release, LoopTo, claimVars, queueVars
  <1>3. CASE Run
    <2>1. CASE Gate \/ Recheck
      BY <2>1 DEF Gate, Recheck, LoopTo, claimVars, queueVars
    <2>2. CASE Outage \/ RestartCatchUp
      BY <2>2 DEF Outage, RestartCatchUp, claimVars
    <2>3. CASE Take
      BY <2>3 DEF Take, claimVars
    <2>4. CASE \E outcome \in Outcomes : SendOutcome(outcome)
      BY <2>4 DEF SendOutcome, claimVars, queueVars
    <2>5. CASE ScheduleRetry \/ Dequeue \/ ReportMarks
      BY <2>5 DEF ScheduleRetry, Dequeue, ReportMarks, claimVars, queueVars
    <2>6. CASE AdvanceCursor \/ PersistCursor
      BY <2>6 DEF AdvanceCursor, PersistCursor, claimVars, queueVars
    <2>7. CASE Exit
      BY <2>7 DEF Exit, claimVars
    <2> QED
      BY <1>3, <2>1, <2>2, <2>3, <2>4, <2>5, <2>6, <2>7 DEF Run
  <1>4. CASE \/ \E v \in Orderings \cup {0} : SetLastSuccessful(v)
             \/ FinishCatchUp \/ TakeCatchUpSkipped
    BY <1>4 DEF SetLastSuccessful, FinishCatchUp, TakeCatchUpSkipped,
         CatchUpOnly, queueVars, loopVars, claimVars
  <1>5. CASE \E so \in Orderings : Claim(so)
    BY <1>5 DEF Claim, loopVars
  <1>6. CASE SendCatchUp
    <2>1. CASE \E outcome \in Outcomes : CatchUpOutcome(outcome)
      BY <2>1 DEF CatchUpOutcome, queueVars, loopVars
    <2>2. CASE CatchUpAdvance \/ CatchUpPersist
      BY <2>2 DEF CatchUpAdvance, CatchUpPersist, queueVars, loopVars
    <2>3. CASE ReleaseClaim \/ Rewake
      BY <2>3 DEF ReleaseClaim, Rewake, TryStart, loopVars
    <2> QED
      BY <1>6, <2>1, <2>2, <2>3 DEF SendCatchUp
  <1>7. CASE TimerFires \/ HoldRunsOut \/ TimePasses \/ RemoteServerUp \/ Shutdown
    BY <1>7 DEF TimerFires, HoldRunsOut, TimePasses, BackoffOnly, RemoteServerUp,
         Shutdown, queueVars, loopVars, claimVars
  <1>8. CASE UNCHANGED vars
    BY <1>8 DEF vars, queueVars, loopVars, claimVars
  <1> QED
    BY <1>1, <1>2, <1>3, <1>4, <1>5, <1>6, <1>7, <1>8 DEF Next

(* The transmission loop and SendCatchUp never have a transaction in       *)
(* flight at the same time, and the running flag says who is at work       *)
(* (queue.go: TryStart, claim, releaseClaim, Release, Run's deferred       *)
(* function).                                                              *)
THEOREM OneTransactionAlways == Spec => []OneTransaction
  BY OneTransactionInit, OneTransactionStep, PTL DEF Spec

-----------------------------------------------------------------------------
(* Types.                                                                  *)

(* What a queue of units says is a set of facts.                           *)
LEMMA FactsAreFacts ==
  ASSUME NEW q \in Seq(EDU)
  PROVE  Facts(q) \in SUBSET Fact
  <1>1. ASSUME NEW i \in 1..Len(q) PROVE FactsOf(q[i]) \in SUBSET Fact
    <2>1. q[i] \in EDU
      OBVIOUS
    <2>2. PICK S \in SUBSET Slots : q[i].body \in [S -> Entry]
      BY <2>1 DEF EDU
    <2>3. q[i].type \in EDUTypes
      BY <2>1 DEF EDU
    <2>4. \A s \in S : /\ q[i].body[s].thread \in Threads \cup {NoThread}
                       /\ q[i].body[s].version \in Nat
      BY <2>2 DEF Entry
    <2> QED
      BY <2>2, <2>3, <2>4 DEF FactsOf, Fact
  <1> QED
    BY <1>1 DEF Facts

(* The initial state has the types.                                        *)
LEMMA TypeInit == Init => TypeOK
  <1> SUFFICES ASSUME Init PROVE TypeOK
    OBVIOUS
  <1>1. backoff \in BackoffType
    BY DEF Init, InitBackoff, Recorded, BackoffType, Intervals
  <1>2. StoredType
    BY DEF Init, StoredType
  <1>3. BatchType
    BY DEF Init, NoBatch, BatchType
  <1>4. HistoryType /\ InputsType
    BY DEF Init, HistoryType, InputsType
  <1>5. QueueType
    BY EmptySeq DEF Init, QueueType
  <1>6. FlagType /\ CatchUpType /\ HoldType
    BY DEF Init, FlagType, CatchUpType, HoldType
  <1>7. StepType
    BY DEF Init, StepType, LoopSteps, ClaimSteps
  <1> QED
    BY <1>1, <1>2, <1>3, <1>4, <1>5, <1>6, <1>7 DEF TypeOK

(* A group of variables a step leaves alone keeps its type.                *)
LEMMA TypeUnchanged ==
  ASSUME TypeOK
  PROVE  /\ UNCHANGED <<pendingPDUs, pendingEDUs>> => QueueType'
         /\ UNCHANGED <<running, newData, stopping>> => FlagType'
         /\ UNCHANGED catchUpVars => CatchUpType'
         /\ UNCHANGED <<heldSince, holdTimer>> => HoldType'
         /\ UNCHANGED <<loop, claim, claimPDU, wakers>> => StepType'
         /\ UNCHANGED batch => BatchType'
         /\ UNCHANGED stored => StoredType'
         /\ UNCHANGED <<remote, posted, dropped>> => HistoryType'
         /\ UNCHANGED inputs => InputsType'
         /\ UNCHANGED backoff => (backoff \in BackoffType)'
  BY DEF TypeOK, QueueType, FlagType, CatchUpType, HoldType, StepType, BatchType,
     StoredType, HistoryType, InputsType, catchUpVars

(* The limiter's calls keep the limiter's type.                            *)
LEMMA BackoffStep ==
  ASSUME backoff \in BackoffType
  PROVE  /\ Success \/ RateLimited \/ Recovered \/ WaitRunsOut \/ CooldownRunsOut
              => backoff' \in BackoffType
         /\ \A answered \in BOOLEAN : Fail(answered) => backoff' \in BackoffType
  <1>1. Success => backoff' \in BackoffType
    BY DEF Success, Clear, BackoffType, Intervals
  <1>2. RateLimited \/ WaitRunsOut \/ CooldownRunsOut => backoff' \in BackoffType
    BY DEF RateLimited, WaitRunsOut, CooldownRunsOut, BackoffType, Intervals
  <1>3. Recovered => backoff' \in BackoffType
    <2>1. \A w \in BOOLEAN : [interval |-> "short", waiting |-> w, refused |-> TRUE,
                              cooling |-> backoff.cooling] \in BackoffType
      BY DEF BackoffType, Intervals
    <2>2. [interval |-> "none", waiting |-> FALSE, refused |-> FALSE,
           cooling |-> backoff.cooling] \in BackoffType
      BY DEF BackoffType, Intervals
    <2>3. backoff.waiting \in BOOLEAN
      BY DEF BackoffType
    <2> QED
      BY <2>1, <2>2, <2>3 DEF Recovered
  <1>4. \A answered \in BOOLEAN : Fail(answered) => backoff' \in BackoffType
    BY DEF Fail, Grown, BackoffType, Intervals
  <1> QED
    BY <1>1, <1>2, <1>3, <1>4

(* onSendOutcome leaves a well-typed backoff and timer, whatever the       *)
(* answer was.                                                             *)
LEMMA ReportType ==
  ASSUME TypeOK, NEW outcome \in Outcomes, ReportOutcome(outcome), UNCHANGED heldSince
  PROVE  backoff' \in BackoffType /\ HoldType'
  <1>1. outcome \in AllOutcomes /\ backoff \in BackoffType
    BY DestinationAssumption DEF TypeOK
  <1>2. Success \/ Fail(TRUE) \/ Fail(FALSE) \/ RateLimited
    BY <1>1 DEF ReportOutcome, AllOutcomes
  <1>3. backoff' \in BackoffType
    BY <1>1, <1>2, BackoffStep
  <1>4. HoldType'
    BY DEF ReportOutcome, TypeOK, HoldType
  <1> QED
    BY <1>3, <1>4

(* A history set that grows by events and facts is still one.              *)
LEMMA Grows ==
  ASSUME NEW h \in [pdus : SUBSET Orderings, facts : SUBSET Fact],
         NEW P \in SUBSET Orderings, NEW F \in SUBSET Fact
  PROVE  /\ [h EXCEPT !.pdus = @ \cup P] \in [pdus : SUBSET Orderings, facts : SUBSET Fact]
         /\ [h EXCEPT !.facts = @ \cup F] \in [pdus : SUBSET Orderings, facts : SUBSET Fact]
         /\ [pdus |-> h.pdus \cup P, facts |-> h.facts \cup F]
              \in [pdus : SUBSET Orderings, facts : SUBSET Fact]
  OBVIOUS

(* A producer extends the EDU queue, appends at most one PDU, and touches  *)
(* nothing the loop or catch-up works with.                                *)
LEMMA EnqueueExtends ==
  ASSUME TypeOK, Enqueue
  PROVE  /\ Extends(pendingEDUs', pendingEDUs)
         /\ \/ UNCHANGED pendingPDUs
            \/ \E so \in Orderings : pendingPDUs' = Append(pendingPDUs, so)
         /\ UNCHANGED <<loopVars, claimVars, remote, stored, lastSuccessful>>
  <1> USE DestinationAssumption
  <1> USE DEF loopVars, claimVars, catchUpVars
  <1>1. inputs.updates + 1 \in Nat /\ pendingEDUs \in Seq(EDU)
    BY DEF TypeOK, InputsType, QueueType
  <1>2. ASSUME NEW so \in Orderings, EnqueuePDU(so)
        PROVE  /\ UNCHANGED <<pendingEDUs, loopVars, claimVars, remote, stored, lastSuccessful>>
               /\ UNCHANGED pendingPDUs \/ pendingPDUs' = Append(pendingPDUs, so)
    BY <1>2 DEF EnqueuePDU
  <1>3. Extends(pendingEDUs, pendingEDUs)
    BY <1>1 DEF Extends, SameUnit
  <1>4. ASSUME NEW type \in DeviceTypes, NEW last \in BOOLEAN, EnqueueMarkedEDU(type, last)
        PROVE  Extends(pendingEDUs', pendingEDUs)
    <2>1. type \in EDUTypes
      BY DEF EDUTypes
    <2> QED
      BY <1>1, <1>4, <2>1, AppendMarkedExtends DEF EnqueueMarkedEDU
  <1>5. ASSUME NEW key \in Keys, EnqueueKeyedEDU(key)
        PROVE  Extends(pendingEDUs', pendingEDUs)
    BY <1>1, <1>5, ReplaceKeyedExtends DEF EnqueueKeyedEDU
  <1>6. ASSUME NEW reader \in Readers, NEW thread \in Threads, EnqueueReceipt(reader, thread)
        PROVE  Extends(pendingEDUs', pendingEDUs)
    BY <1>1, <1>6, MergeReceiptExtends DEF EnqueueReceipt
  <1>7. ASSUME NEW user \in Users, EnqueuePresence(user)
        PROVE  Extends(pendingEDUs', pendingEDUs)
    BY <1>1, <1>7, MergePresenceExtends DEF EnqueuePresence
  <1>8. (\E so \in Orderings : EnqueuePDU(so))
          \/ UNCHANGED <<pendingPDUs, loopVars, claimVars, remote, stored, lastSuccessful>>
    BY DEF Enqueue, EnqueueMarkedEDU, EnqueueKeyedEDU, EnqueueReceipt, EnqueuePresence, Post
  <1>9. Extends(pendingEDUs', pendingEDUs)
    BY <1>2, <1>3, <1>4, <1>5, <1>6, <1>7 DEF Enqueue
  <1> QED
    BY <1>2, <1>8, <1>9

(* Handing over one event keeps the types.                                 *)
LEMMA EnqueuePDUType ==
  ASSUME TypeOK, NEW so \in Orderings, EnqueuePDU(so), InputsType'
  PROVE  TypeOK'
  <1> USE DestinationAssumption
  <1>1. QueueType'
    <2>1. Append(pendingPDUs, so) \in Seq(Orderings)
      BY AppendProperties DEF TypeOK, QueueType
    <2> QED
      BY <2>1 DEF TypeOK, QueueType, EnqueuePDU
  <1>2. FlagType'
    BY DEF TypeOK, FlagType, EnqueuePDU
  <1>3. CatchUpType'
    BY DEF TypeOK, CatchUpType, EnqueuePDU, HigherOf
  <1>4. StepType'
    BY DEF TypeOK, StepType, EnqueuePDU, loopVars, claimVars
  <1>5. HistoryType'
    <2>a. {so} \in SUBSET Orderings /\ {} \in SUBSET Fact
      OBVIOUS
    <2>b. /\ posted \in [pdus : SUBSET Orderings, facts : SUBSET Fact]
          /\ dropped \in [pdus : SUBSET Orderings, facts : SUBSET Fact]
      BY DEF TypeOK, HistoryType
    <2>1. /\ [posted EXCEPT !.pdus = @ \cup {so}]
               \in [pdus : SUBSET Orderings, facts : SUBSET Fact]
          /\ [dropped EXCEPT !.pdus = @ \cup {so}]
               \in [pdus : SUBSET Orderings, facts : SUBSET Fact]
      BY <2>a, <2>b, Grows
    <2> QED
      BY <2>1 DEF TypeOK, HistoryType, EnqueuePDU
  <1> QED
    BY <1>1, <1>2, <1>3, <1>4, <1>5, TypeUnchanged
       DEF EnqueuePDU, TypeOK, holdVars, loopVars

(* Enqueueing keeps the types.                                             *)
LEMMA EnqueueType == TypeOK /\ Enqueue => TypeOK'
  <1> SUFFICES ASSUME TypeOK, Enqueue PROVE TypeOK'
    OBVIOUS
  <1> USE DestinationAssumption
  <1>1. ASSUME NEW so \in Orderings, inputs' = [inputs EXCEPT !.events = @ + 1],
               EnqueuePDU(so)
        PROVE  TypeOK'
    <2>1. InputsType'
      BY <1>1 DEF TypeOK, InputsType
    <2> QED
      BY <1>1, <2>1, EnqueuePDUType
  <1>2. ASSUME NEW type \in EDUTypes, NEW slot \in Slots,
               NEW thread \in Threads \cup {NoThread}, Post(type, slot, thread)
        PROVE  TypeOK'
    <2>1. QueueType'
      BY <1>2, EnqueueExtends DEF TypeOK, QueueType, Post, Extends
    <2>2. FlagType'
      BY <1>2 DEF TypeOK, FlagType, Post
    <2>3. StepType'
      BY <1>2 DEF TypeOK, StepType, Post, loopVars, claimVars
    <2>4. InputsType'
      BY <1>2 DEF TypeOK, InputsType, Post
    <2>5. HistoryType'
      <3>1. inputs.updates + 1 \in Nat
        BY DEF TypeOK, InputsType
      <3>2. [type |-> type, slot |-> slot, thread |-> thread,
             version |-> inputs.updates + 1] \in Fact
        BY <3>1 DEF Fact
      <3> QED
        BY <1>2, <3>2, Grows DEF TypeOK, HistoryType, Post
    <2> QED
      BY <1>2, <2>1, <2>2, <2>3, <2>4, <2>5, TypeUnchanged
         DEF Post, TypeOK, holdVars, loopVars
  <1>3. /\ \A type \in DeviceTypes : type \in EDUTypes
        /\ {"m.typing", "m.receipt", "m.presence"} \subseteq EDUTypes
        /\ Outbox \in Slots /\ Keys \subseteq Slots /\ Readers \subseteq Slots
        /\ Users \subseteq Slots
    BY DEF EDUTypes, Slots
  <1>4. CASE \/ \E type \in DeviceTypes, last \in BOOLEAN : EnqueueMarkedEDU(type, last)
             \/ \E key \in Keys : EnqueueKeyedEDU(key)
             \/ \E reader \in Readers, thread \in Threads : EnqueueReceipt(reader, thread)
             \/ \E user \in Users : EnqueuePresence(user)
    BY <1>2, <1>3, <1>4 DEF EnqueueMarkedEDU, EnqueueKeyedEDU, EnqueueReceipt,
         EnqueuePresence
  <1> QED
    BY <1>1, <1>4 DEF Enqueue

(* The cursor steps of Run take the last PDU of the batch, and SendCatchUp *)
(* the one it claimed for.  They are typed only because ReportMarks skips  *)
(* a batch without PDUs and Claim names one: TypeOK alone is not           *)
(* inductive.                                                              *)
NamesAPDU ==
  /\ loop \in {"cursor", "persist"} => batch.pdus # <<>>
  /\ claim \notin {"none", "wake"} => claimPDU \in Orderings

(* The loop moves the cursor after a batch with events only, and           *)
(* SendCatchUp is handed an event.                                         *)
LEMMA NamesAPDUStep == NamesAPDU /\ [Next]_vars => NamesAPDU'
  <1> SUFFICES ASSUME NamesAPDU, [Next]_vars PROVE NamesAPDU'
    OBVIOUS
  <1> USE DEF NamesAPDU, queueVars, loopVars, claimVars
  <1>1. CASE Enqueue
    BY <1>1 DEF Enqueue, EnqueuePDU, EnqueueMarkedEDU, EnqueueKeyedEDU,
         EnqueueReceipt, EnqueuePresence, Post
  <1>2. CASE Wake \/ AcquireSlot \/ Release
    BY <1>2 DEF Wake, TryStart, AcquireSlot, Release, LoopTo
  <1>3. CASE Run
    <2>1. CASE Gate \/ Recheck \/ Outage \/ RestartCatchUp \/ Exit
      BY <2>1 DEF Gate, Recheck, LoopTo, Outage, RestartCatchUp, Exit
    <2>2. CASE Take
      BY <2>2 DEF Take
    <2>3. CASE \E outcome \in Outcomes : SendOutcome(outcome)
      BY <2>3 DEF SendOutcome
    <2>4. CASE ScheduleRetry \/ Dequeue \/ ReportMarks \/ AdvanceCursor \/ PersistCursor
      BY <2>4 DEF ScheduleRetry, Dequeue, ReportMarks, AdvanceCursor, PersistCursor
    <2> QED
      BY <1>3, <2>1, <2>2, <2>3, <2>4 DEF Run
  <1>4. CASE \/ \E v \in Orderings \cup {0} : SetLastSuccessful(v)
             \/ FinishCatchUp \/ TakeCatchUpSkipped
             \/ \E so \in Orderings : Claim(so)
    BY <1>4 DEF SetLastSuccessful, FinishCatchUp, TakeCatchUpSkipped, CatchUpOnly, Claim
  <1>5. CASE SendCatchUp
    BY <1>5 DEF SendCatchUp, CatchUpOutcome, CatchUpAdvance, CatchUpPersist,
         ReleaseClaim, Rewake, TryStart
  <1>6. CASE TimerFires \/ HoldRunsOut \/ TimePasses \/ RemoteServerUp \/ Shutdown
    BY <1>6 DEF TimerFires, HoldRunsOut, TimePasses, BackoffOnly, RemoteServerUp, Shutdown
  <1>7. CASE UNCHANGED vars
    BY <1>7 DEF vars
  <1> QED
    BY <1>1, <1>2, <1>3, <1>4, <1>5, <1>6, <1>7 DEF Next

(* The last PDU of a batch is one of its PDUs.                             *)
LEMMA LastInSeq ==
  ASSUME NEW q \in Seq(Orderings), q # <<>>
  PROVE  /\ LastOf(q) \in Orderings /\ LastOf(q) \in Nat
         /\ LastOf(q) \in {q[i] : i \in DOMAIN q}
  <1>1. Len(q) \in DOMAIN q
    BY EmptySeq
  <1>2. q[Len(q)] \in Orderings /\ q[Len(q)] \in {q[i] : i \in DOMAIN q}
    BY <1>1
  <1> QED
    BY <1>2, DestinationAssumption DEF LastOf

(* Every iteration of Run keeps the types.                                 *)
LEMMA RunType == TypeOK /\ NamesAPDU /\ Run => TypeOK'
  <1> SUFFICES ASSUME TypeOK, NamesAPDU, Run PROVE TypeOK'
    OBVIOUS
  <1> USE DestinationAssumption
  <1>a. pendingPDUs \in Seq(Orderings) /\ pendingEDUs \in Seq(EDU)
    BY DEF TypeOK, QueueType
  <1>b. /\ batch.pdus \in Seq(Orderings) /\ batch.edus \in Seq(EDU)
        /\ batch.toDeviceUpTo \in Nat /\ batch.deviceListUpTo \in Nat
    BY DEF TypeOK, BatchType
  <1>c. /\ remote \in [pdus : SUBSET Orderings, facts : SUBSET Fact]
        /\ posted \in [pdus : SUBSET Orderings, facts : SUBSET Fact]
        /\ dropped \in [pdus : SUBSET Orderings, facts : SUBSET Fact]
    BY DEF TypeOK, HistoryType
  <1>d. StepType /\ FlagType /\ HoldType
    BY DEF TypeOK
  <1> USE DEF queueVars, holdVars, claimVars, history
  <1>1. CASE Gate \/ Recheck
    <2>1. StepType'
      BY <1>1, <1>d DEF StepType, LoopSteps, Gate, Recheck, LoopTo
    <2> QED
      BY <1>1, <2>1, TypeUnchanged DEF TypeOK, Gate, Recheck, LoopTo
  <1>2. CASE Outage
    <2>1. QueueType'
      BY <1>2, <1>a, DropEphemeralIsQueue DEF Outage, QueueType
    <2>2. StepType'
      BY <1>2, <1>d DEF StepType, LoopSteps, Outage
    <2>3. HistoryType'
      <3>1. Facts(pendingEDUs) \ Facts(pendingEDUs') \in SUBSET Fact
        BY <1>a, FactsAreFacts
      <3>2. [dropped EXCEPT !.facts = @ \cup (Facts(pendingEDUs) \ Facts(pendingEDUs'))]
              \in [pdus : SUBSET Orderings, facts : SUBSET Fact]
        BY <1>c, <3>1, Grows
      <3> QED
        BY <1>2, <1>c, <3>2 DEF Outage, HistoryType
    <2> QED
      BY <1>2, <2>1, <2>2, <2>3, TypeUnchanged DEF TypeOK, Outage
  <1>3. CASE RestartCatchUp
    <2>1. QueueType'
      BY <1>3, <1>a, EmptySeq DEF RestartCatchUp, QueueType
    <2>2. StepType'
      BY <1>3, <1>d DEF StepType, LoopSteps, RestartCatchUp
    <2>3. CatchUpType'
      BY <1>3 DEF TypeOK, CatchUpType, RestartCatchUp
    <2>4. HistoryType'
      <3>1. {pendingPDUs[i] : i \in DOMAIN pendingPDUs} \in SUBSET Orderings
        BY <1>a
      <3>2. [dropped EXCEPT !.pdus = @ \cup {pendingPDUs[i] : i \in DOMAIN pendingPDUs}]
              \in [pdus : SUBSET Orderings, facts : SUBSET Fact]
        BY <1>c, <3>1, Grows
      <3> QED
        BY <1>3, <1>c, <3>2 DEF RestartCatchUp, HistoryType
    <2> QED
      BY <1>3, <2>1, <2>2, <2>3, <2>4, TypeUnchanged DEF TypeOK, RestartCatchUp
  <1>4. CASE Take
    <2>1. StepType'
      BY <1>4, <1>d DEF StepType, LoopSteps, Take
    <2>2. FlagType'
      BY <1>4, <1>d DEF FlagType, Take
    <2>3. HoldType'
      BY <1>4, <1>d DEF HoldType, Take, ScheduleFlush
    <2>4. BatchType'
      <3>1. CASE Holding
        BY <1>4, <3>1 DEF Take, TypeOK, BatchType
      <3>2. CASE ~Holding
        <4>1. /\ Prefix(pendingPDUs, MaxPDUs) \in Seq(Orderings)
              /\ Prefix(pendingEDUs, MaxEDUs) \in Seq(EDU)
          BY <1>a, PrefixIsHead
        <4>2. /\ ToDeviceMark(Prefix(pendingEDUs, MaxEDUs)) \in Nat
              /\ DeviceListMark(Prefix(pendingEDUs, MaxEDUs)) \in Nat
          BY <4>1, MarksAreNat
        <4> QED
          BY <1>4, <3>2, <4>1, <4>2 DEF Take, BatchType
      <3> QED
        BY <3>1, <3>2
    <2> QED
      BY <1>4, <2>1, <2>2, <2>3, <2>4, TypeUnchanged DEF TypeOK, Take
  <1>5. ASSUME NEW outcome \in Outcomes, SendOutcome(outcome) PROVE TypeOK'
    <2>1. backoff' \in BackoffType /\ HoldType'
      BY <1>5, ReportType DEF SendOutcome
    <2>2. StepType'
      BY <1>5, <1>d DEF StepType, LoopSteps, SendOutcome
    <2>3. HistoryType'
      <3>1. /\ {batch.pdus[i] : i \in DOMAIN batch.pdus} \in SUBSET Orderings
            /\ Facts(batch.edus) \in SUBSET Fact
        BY <1>b, FactsAreFacts
      <3>2. [pdus |-> remote.pdus \cup {batch.pdus[i] : i \in DOMAIN batch.pdus},
             facts |-> remote.facts \cup Facts(batch.edus)]
              \in [pdus : SUBSET Orderings, facts : SUBSET Fact]
        BY <1>c, <3>1, Grows
      <3> QED
        BY <1>5, <1>c, <3>2 DEF SendOutcome, HistoryType
    <2> QED
      BY <1>5, <2>1, <2>2, <2>3, TypeUnchanged DEF TypeOK, SendOutcome
  <1>6. CASE ScheduleRetry
    <2>1. StepType' /\ HoldType'
      BY <1>6, <1>d DEF StepType, LoopSteps, HoldType, ScheduleRetry, ScheduleFlush
    <2> QED
      BY <1>6, <2>1, TypeUnchanged DEF TypeOK, ScheduleRetry
  <1>7. CASE Dequeue
    <2>1. QueueType'
      BY <1>7, <1>a, <1>b DEF QueueType, Dequeue, Rest
    <2>2. StepType'
      BY <1>7, <1>d DEF StepType, LoopSteps, Dequeue
    <2> QED
      BY <1>7, <2>1, <2>2, TypeUnchanged DEF TypeOK, Dequeue
  <1>8. CASE ReportMarks
    <2>1. StepType'
      BY <1>8, <1>d DEF StepType, LoopSteps, ReportMarks
    <2>2. StoredType'
      BY <1>8, <1>b DEF TypeOK, StoredType, ReportMarks, HigherOf
    <2> QED
      BY <1>8, <2>1, <2>2, TypeUnchanged DEF TypeOK, ReportMarks
  <1>9. CASE AdvanceCursor \/ PersistCursor
    <2>1. StepType'
      BY <1>9, <1>d DEF StepType, LoopSteps, AdvanceCursor, PersistCursor
    <2>2. LastOf(batch.pdus) \in Nat
      <3>1. batch.pdus # <<>>
        BY <1>9 DEF NamesAPDU, AdvanceCursor, PersistCursor
      <3> QED
        BY <1>b, <3>1, LastInSeq
    <2>3. CatchUpType'
      BY <1>9, <2>2 DEF TypeOK, CatchUpType, AdvanceCursor, PersistCursor, HigherOf,
           catchUpVars
    <2>4. StoredType'
      BY <1>9, <2>2 DEF TypeOK, StoredType, AdvanceCursor, PersistCursor, OnSuccess,
           HigherOf
    <2> QED
      BY <1>9, <2>1, <2>3, <2>4, TypeUnchanged DEF TypeOK, AdvanceCursor, PersistCursor
  <1>10. CASE Exit
    <2>1. StepType' /\ FlagType'
      BY <1>10, <1>d DEF StepType, LoopSteps, FlagType, Exit
    <2>2. BatchType'
      BY <1>10 DEF BatchType, NoBatch, Exit
    <2> QED
      BY <1>10, <2>1, <2>2, TypeUnchanged DEF TypeOK, Exit
  <1> QED
    BY <1>1, <1>2, <1>3, <1>4, <1>5, <1>6, <1>7, <1>8, <1>9, <1>10 DEF Run

(* SendCatchUp keeps the types.                                            *)
LEMMA SendCatchUpType == TypeOK /\ NamesAPDU /\ SendCatchUp => TypeOK'
  <1> SUFFICES ASSUME TypeOK, NamesAPDU, SendCatchUp PROVE TypeOK'
    OBVIOUS
  <1> USE DestinationAssumption
  <1> USE DEF queueVars, holdVars, loopVars, history
  <1>a. StepType /\ FlagType
    BY DEF TypeOK
  <1>1. ASSUME NEW outcome \in Outcomes, CatchUpOutcome(outcome) PROVE TypeOK'
    <2>1. backoff' \in BackoffType /\ HoldType'
      BY <1>1, ReportType DEF CatchUpOutcome
    <2>2. StepType'
      BY <1>1, <1>a DEF StepType, ClaimSteps, CatchUpOutcome
    <2>3. HistoryType'
      <3>1. /\ remote \in [pdus : SUBSET Orderings, facts : SUBSET Fact]
            /\ posted \in [pdus : SUBSET Orderings, facts : SUBSET Fact]
            /\ dropped \in [pdus : SUBSET Orderings, facts : SUBSET Fact]
        BY DEF TypeOK, HistoryType
      <3>2. {claimPDU} \in SUBSET Orderings /\ {} \in SUBSET Fact
        BY <1>1 DEF NamesAPDU, CatchUpOutcome
      <3>3. [remote EXCEPT !.pdus = @ \cup {claimPDU}]
              \in [pdus : SUBSET Orderings, facts : SUBSET Fact]
        BY <3>1, <3>2, Grows
      <3> QED
        BY <1>1, <3>1, <3>3 DEF CatchUpOutcome, HistoryType
    <2> QED
      BY <1>1, <2>1, <2>2, <2>3, TypeUnchanged DEF TypeOK, CatchUpOutcome
  <1>2. CASE CatchUpAdvance
    <2>1. StepType'
      BY <1>2, <1>a DEF StepType, ClaimSteps, CatchUpAdvance
    <2>2. CatchUpType'
      <3>1. claimPDU \in Nat
        BY <1>a DEF StepType
      <3> QED
        BY <1>2, <3>1 DEF TypeOK, CatchUpType, CatchUpAdvance
    <2> QED
      BY <1>2, <2>1, <2>2, TypeUnchanged DEF TypeOK, CatchUpAdvance
  <1>3. CASE CatchUpPersist
    <2>1. StepType'
      BY <1>3, <1>a DEF StepType, ClaimSteps, CatchUpPersist
    <2>2. StoredType'
      <3>1. claimPDU \in Nat
        BY <1>a DEF StepType
      <3> QED
        BY <1>3, <3>1 DEF TypeOK, StoredType, CatchUpPersist, OnSuccess, HigherOf
    <2> QED
      BY <1>3, <2>1, <2>2, TypeUnchanged DEF TypeOK, CatchUpPersist
  <1>4. CASE ReleaseClaim \/ Rewake
    <2>1. StepType' /\ FlagType'
      BY <1>4, <1>a DEF StepType, FlagType, ClaimSteps, LoopSteps, ReleaseClaim,
           Rewake, TryStart
    <2> QED
      BY <1>4, <2>1, TypeUnchanged DEF TypeOK, ReleaseClaim, Rewake, TryStart
  <1> QED
    BY <1>1, <1>2, <1>3, <1>4 DEF SendCatchUp

(* The calls the catch-up goroutine makes outside SendCatchUp keep the     *)
(* types.                                                                  *)
LEMMA CatchUpCallType ==
  ASSUME TypeOK,
         \/ \E v \in Nat : SetLastSuccessful(v)
         \/ FinishCatchUp \/ TakeCatchUpSkipped
         \/ \E so \in Orderings : Claim(so) /\ InputsType'
  PROVE  TypeOK'
  <1> USE DEF queueVars, holdVars, loopVars, claimVars, history
  <1>a. StepType /\ FlagType /\ CatchUpType
    BY DEF TypeOK
  <1>1. ASSUME NEW v \in Nat, SetLastSuccessful(v) PROVE TypeOK'
    <2>1. CatchUpType'
      BY <1>1, <1>a DEF CatchUpType, SetLastSuccessful, CatchUpOnly, HigherOf
    <2> QED
      BY <1>1, <2>1, TypeUnchanged DEF TypeOK, SetLastSuccessful, CatchUpOnly
  <1>2. CASE FinishCatchUp
    <2>1. CatchUpType'
      BY <1>2, <1>a DEF CatchUpType, FinishCatchUp, CatchUpOnly
    <2> QED
      BY <1>2, <2>1, TypeUnchanged DEF TypeOK, FinishCatchUp, CatchUpOnly
  <1>3. CASE TakeCatchUpSkipped
    <2>1. CatchUpType'
      BY <1>3, <1>a DEF CatchUpType, TakeCatchUpSkipped, CatchUpOnly
    <2> QED
      BY <1>3, <2>1, TypeUnchanged DEF TypeOK, TakeCatchUpSkipped, CatchUpOnly
  <1>4. ASSUME NEW so \in Orderings, Claim(so), InputsType' PROVE TypeOK'
    <2>1. StepType' /\ FlagType'
      BY <1>4, <1>a DEF StepType, FlagType, ClaimSteps, Claim
    <2> QED
      BY <1>4, <2>1, TypeUnchanged DEF TypeOK, Claim
  <1> QED
    BY <1>1, <1>2, <1>3, <1>4

(* Every step of every actor keeps the types.                              *)
LEMMA TypeStep == TypeOK /\ NamesAPDU /\ [Next]_vars => TypeOK'
  <1> SUFFICES ASSUME TypeOK, NamesAPDU, [Next]_vars PROVE TypeOK'
    OBVIOUS
  <1> USE DestinationAssumption
  <1> USE DEF queueVars, holdVars, loopVars, claimVars, history
  <1>a. StepType /\ FlagType /\ HoldType /\ CatchUpType /\ InputsType
    BY DEF TypeOK
  <1>1. CASE Wake \/ AcquireSlot \/ Release
    <2>1. StepType'
      BY <1>1, <1>a DEF StepType, LoopSteps, Wake, TryStart, AcquireSlot, Release, LoopTo
    <2>2. FlagType'
      BY <1>1, <1>a DEF FlagType, Wake, TryStart, AcquireSlot, Release, LoopTo
    <2> QED
      BY <1>1, <2>1, <2>2, TypeUnchanged DEF TypeOK, Wake, TryStart, AcquireSlot, Release, LoopTo
  <1>2. ASSUME NEW v \in Orderings \cup {0}, SetLastSuccessful(v) PROVE TypeOK'
    <2>1. v \in Nat
      OBVIOUS
    <2> QED
      BY <1>2, <2>1, CatchUpCallType
  <1>3. CASE FinishCatchUp \/ TakeCatchUpSkipped
    BY <1>3, CatchUpCallType
  <1>4. ASSUME NEW so \in Orderings, Claim(so),
               inputs' = [inputs EXCEPT !.catchUps = @ + 1]
        PROVE  TypeOK'
    <2>1. InputsType'
      BY <1>4, <1>a DEF InputsType
    <2> QED
      BY <1>4, <2>1, CatchUpCallType
  <1>5. CASE TimerFires \/ HoldRunsOut \/ Shutdown
    <2>1. StepType' /\ HoldType'
      BY <1>5, <1>a DEF StepType, HoldType, TimerFires, HoldRunsOut, Shutdown
    <2>2. FlagType'
      BY <1>5, <1>a DEF FlagType, TimerFires, HoldRunsOut, Shutdown
    <2> QED
      BY <1>5, <2>1, <2>2, TypeUnchanged DEF TypeOK, TimerFires, HoldRunsOut, Shutdown
  <1>6. CASE TimePasses \/ RemoteServerUp
    <2>1. backoff' \in BackoffType
      BY <1>6, BackoffStep DEF TypeOK, TimePasses, RemoteServerUp
    <2>2. InputsType'
      BY <1>6, <1>a DEF InputsType, TimePasses, BackoffOnly, RemoteServerUp
    <2>3. wakers' \in Nat
      BY <1>6, <1>a DEF StepType, TimePasses, BackoffOnly, RemoteServerUp
    <2>4. UNCHANGED <<loop, claim, claimPDU>>
      BY <1>6 DEF TimePasses, BackoffOnly, RemoteServerUp, loopVars, claimVars
    <2>5. StepType'
      BY <1>a, <2>3, <2>4 DEF StepType
    <2> QED
      BY <1>6, <2>1, <2>2, <2>5, TypeUnchanged DEF TypeOK, TimePasses, BackoffOnly, RemoteServerUp
  <1>7. CASE UNCHANGED vars
    BY <1>7, TypeUnchanged DEF TypeOK, vars
  <1> QED
    BY <1>1, <1>2, <1>3, <1>4, <1>5, <1>6, <1>7, EnqueueType, RunType, SendCatchUpType
       DEF Next

(* The inductive invariant behind the types.                               *)
LEMMA TypeInvariant == Spec => [](TypeOK /\ NamesAPDU)
  <1>1. Init => NamesAPDU
    BY DEF Init, NamesAPDU
  <1> QED
    BY <1>1, TypeInit, TypeStep, NamesAPDUStep, PTL DEF Spec

(* Every variable keeps its type, whatever producers, loop, catch-up,      *)
(* timers and shutdown do; in particular the cursor steps of queue.go's    *)
(* Run never index an empty batch.                                         *)
THEOREM TypeAlways == Spec => []TypeOK
  BY TypeInvariant, PTL

-----------------------------------------------------------------------------
(* The queue under a transaction.                                          *)

(* TakenIsHead, with the reason a delivered batch may be dequeued: by then *)
(* the remote has every PDU of it.                                         *)
BatchDelivered ==
  loop \in {"dequeue", "marks", "cursor", "persist"} =>
    {batch.pdus[i] : i \in DOMAIN batch.pdus} \subseteq remote.pdus

(* A step that touches neither the loop nor the queues keeps both.         *)
LEMMA QueueUntouched ==
  ASSUME TakenIsHead, BatchDelivered, UNCHANGED <<loop, batch, pendingPDUs, pendingEDUs>>,
         remote.pdus \subseteq remote.pdus'
  PROVE  TakenIsHead' /\ BatchDelivered'
  BY DEF TakenIsHead, BatchDelivered

(* Units added behind the taken ones, or merged into them, leave them the  *)
(* head of the queue.                                                      *)
LEMMA QueueExtends ==
  ASSUME TypeOK, TakenIsHead, BatchDelivered,
         Extends(pendingEDUs', pendingEDUs),
         \/ UNCHANGED pendingPDUs
         \/ \E so \in Orderings : pendingPDUs' = Append(pendingPDUs, so),
         UNCHANGED <<loop, batch, remote>>
  PROVE  TakenIsHead' /\ BatchDelivered'
  <1>1. /\ batch.pdus \in Seq(Orderings) /\ batch.edus \in Seq(EDU)
        /\ pendingPDUs \in Seq(Orderings) /\ pendingEDUs \in Seq(EDU)
    BY DEF TypeOK, BatchType, QueueType
  <1>3. /\ Len(pendingPDUs) <= Len(pendingPDUs') /\ Len(pendingPDUs') \in Nat
        /\ \A i \in 1..Len(pendingPDUs) : pendingPDUs'[i] = pendingPDUs[i]
    <2>1. CASE UNCHANGED pendingPDUs
      BY <1>1, <2>1
    <2>2. ASSUME NEW so \in Orderings, pendingPDUs' = Append(pendingPDUs, so)
          PROVE  /\ Len(pendingPDUs) <= Len(pendingPDUs') /\ Len(pendingPDUs') \in Nat
                 /\ \A i \in 1..Len(pendingPDUs) : pendingPDUs'[i] = pendingPDUs[i]
      BY <1>1, <2>2
    <2> QED
      BY <2>1, <2>2
  <1>4. /\ Len(pendingEDUs) <= Len(pendingEDUs') /\ Len(pendingEDUs') \in Nat
        /\ \A i \in 1..Len(pendingEDUs) : SameUnit(pendingEDUs'[i], pendingEDUs[i])
    BY DEF Extends
  <1>5. ASSUME loop \in {"send", "retry", "dequeue"}
        PROVE  /\ Len(batch.pdus) <= Len(pendingPDUs')
               /\ \A i \in DOMAIN batch.pdus : pendingPDUs'[i] = batch.pdus[i]
    <2>1. Len(batch.pdus) <= Len(pendingPDUs)
      BY <1>5 DEF TakenIsHead
    <2>2. ASSUME NEW i \in DOMAIN batch.pdus PROVE pendingPDUs'[i] = batch.pdus[i]
      <3>1. i \in 1..Len(pendingPDUs)
        BY <1>1, <2>1
      <3> QED
        BY <1>3, <1>5, <3>1 DEF TakenIsHead
    <2> QED
      BY <1>1, <1>3, <2>1, <2>2
  <1>6. ASSUME loop \in {"send", "retry", "dequeue"}
        PROVE  /\ Len(batch.edus) <= Len(pendingEDUs')
               /\ \A i \in DOMAIN batch.edus : SameUnit(pendingEDUs'[i], batch.edus[i])
    <2>1. Len(batch.edus) <= Len(pendingEDUs)
      BY <1>6 DEF TakenIsHead
    <2>2. ASSUME NEW i \in DOMAIN batch.edus
          PROVE  SameUnit(pendingEDUs'[i], batch.edus[i])
      <3>1. i \in 1..Len(pendingEDUs)
        BY <1>1, <2>1
      <3>2. SameUnit(pendingEDUs[i], batch.edus[i])
        BY <1>6 DEF TakenIsHead
      <3> QED
        BY <1>4, <3>1, <3>2 DEF SameUnit
    <2> QED
      BY <1>1, <1>4, <2>1, <2>2
  <1> QED
    BY <1>5, <1>6 DEF TakenIsHead, BatchDelivered

(* Producers only extend the queue behind the taken units.                 *)
LEMMA QueueEnqueue ==
  ASSUME TypeOK, TakenIsHead, BatchDelivered, Enqueue
  PROVE  TakenIsHead' /\ BatchDelivered'
  BY EnqueueExtends, QueueExtends DEF loopVars

(* Run: taking establishes the head, the steps that shrink the queue are   *)
(* not taken while a transaction is out, and only a delivery dequeues.     *)
LEMMA QueueRun ==
  ASSUME TypeOK, TakenIsHead, BatchDelivered, Run
  PROVE  TakenIsHead' /\ BatchDelivered'
  <1> USE DEF queueVars
  <1>1. CASE Take
    <2>1. CASE Holding
      BY <1>1, <2>1 DEF Take, TakenIsHead, BatchDelivered
    <2>2. CASE ~Holding
      <3>1. pendingPDUs \in Seq(Orderings) /\ pendingEDUs \in Seq(EDU)
        BY DEF TypeOK, QueueType
      <3> DEFINE P == Prefix(pendingPDUs, MaxPDUs)
                 E == Prefix(pendingEDUs, MaxEDUs)
      <3>2. MaxPDUs \in Nat /\ MaxEDUs \in Nat
        BY DestinationAssumption
      <3>3. /\ P \in Seq(Orderings) /\ Len(P) <= Len(pendingPDUs)
            /\ \A i \in 1..Len(P) : P[i] = pendingPDUs[i]
        BY <3>1, <3>2, PrefixIsHead
      <3>4. /\ E \in Seq(EDU) /\ Len(E) <= Len(pendingEDUs)
            /\ \A i \in 1..Len(E) : E[i] = pendingEDUs[i]
        BY <3>1, <3>2, PrefixIsHead
      <3>5. /\ batch'.pdus = P /\ batch'.edus = E /\ loop' \in {"recheck", "send"}
            /\ UNCHANGED <<pendingPDUs, pendingEDUs>>
        BY <1>1, <2>2 DEF Take
      <3> HIDE DEF P, E
      <3> QED
        BY <3>3, <3>4, <3>5 DEF TakenIsHead, BatchDelivered, SameUnit
    <2> QED
      BY <2>1, <2>2
  <1>2. CASE Gate \/ Outage \/ RestartCatchUp \/ Recheck \/ Exit \/ Dequeue
    BY <1>2 DEF Gate, Outage, RestartCatchUp, Recheck, LoopTo, Exit, Dequeue,
         TakenIsHead, BatchDelivered, history
  <1>3. ASSUME NEW outcome \in Outcomes, SendOutcome(outcome)
        PROVE  TakenIsHead' /\ BatchDelivered'
    <2>1. TakenIsHead'
      BY <1>3 DEF SendOutcome, TakenIsHead
    <2>2. BatchDelivered'
      <3>1. CASE outcome = "delivered"
        BY <1>3, <3>1 DEF SendOutcome, Processed, BatchDelivered
      <3>2. CASE outcome # "delivered"
        BY <1>3, <3>2 DEF SendOutcome, BatchDelivered
      <3> QED
        BY <3>1, <3>2
    <2> QED
      BY <2>1, <2>2
  <1>4. CASE ScheduleRetry \/ ReportMarks \/ AdvanceCursor \/ PersistCursor
    BY <1>4 DEF ScheduleRetry, ReportMarks, AdvanceCursor, PersistCursor,
         TakenIsHead, BatchDelivered, history
  <1> QED
    BY <1>1, <1>2, <1>3, <1>4 DEF Run

(* Every step of every goroutine keeps the taken batch the head of the     *)
(* queues.                                                                 *)
LEMMA QueueStep ==
  ASSUME TypeOK, TakenIsHead, BatchDelivered, [Next]_vars
  PROVE  TakenIsHead' /\ BatchDelivered'
  <1> USE DEF queueVars, loopVars, claimVars, history
  <1>1. CASE Wake \/ Rewake
    BY <1>1 DEF Wake, Rewake, TryStart, TakenIsHead, BatchDelivered
  <1>2. CASE AcquireSlot \/ Release
    BY <1>2 DEF AcquireSlot, Release, LoopTo, TakenIsHead, BatchDelivered
  <1>3. CASE \/ \E v \in Orderings \cup {0} : SetLastSuccessful(v)
             \/ FinishCatchUp \/ TakeCatchUpSkipped
             \/ \E so \in Orderings : Claim(so)
    BY <1>3, QueueUntouched
       DEF SetLastSuccessful, FinishCatchUp, TakeCatchUpSkipped, CatchUpOnly, Claim
  <1>4. ASSUME NEW outcome \in Outcomes, CatchUpOutcome(outcome)
        PROVE  TakenIsHead' /\ BatchDelivered'
    <2>1. remote.pdus \subseteq remote'.pdus
      BY <1>4 DEF CatchUpOutcome, TypeOK, HistoryType
    <2> QED
      BY <1>4, <2>1, QueueUntouched DEF CatchUpOutcome
  <1>5. CASE CatchUpAdvance \/ CatchUpPersist \/ ReleaseClaim
    BY <1>5, QueueUntouched DEF CatchUpAdvance, CatchUpPersist, ReleaseClaim
  <1>6. CASE TimerFires \/ HoldRunsOut \/ TimePasses \/ RemoteServerUp \/ Shutdown
    BY <1>6, QueueUntouched DEF TimerFires, HoldRunsOut, TimePasses, BackoffOnly,
         RemoteServerUp, Shutdown
  <1>7. CASE UNCHANGED vars
    BY <1>7, QueueUntouched DEF vars
  <1> QED
    BY <1>1, <1>2, <1>3, <1>4, <1>5, <1>6, <1>7, QueueEnqueue, QueueRun
       DEF Next, SendCatchUp

(* The invariant behind TakenIsHead: the batch is the head until           *)
(* dequeued, delivered after.                                              *)
LEMMA QueueInvariant == Spec => [](TypeOK /\ TakenIsHead /\ BatchDelivered)
  <1>1. Init => TakenIsHead /\ BatchDelivered
    BY DEF Init, TakenIsHead, BatchDelivered
  <1> QED
    BY <1>1, TypeInvariant, QueueStep, PTL DEF Spec

(* Until a taken transaction is dequeued its units are the head of the     *)
(* queue, unit for unit: queue.go's dequeue, which removes by number,      *)
(* removes exactly what was sent and never slices out of range, whatever   *)
(* EnqueuePDU, the EDU merges, catch-up and outages do meanwhile.          *)
THEOREM TakenIsHeadAlways == Spec => []TakenIsHead
  BY QueueInvariant, PTL

-----------------------------------------------------------------------------
(* No event is lost.                                                       *)

Queued == {pendingPDUs[i] : i \in DOMAIN pendingPDUs}

(* Dequeueing removes only what the remote has.                            *)
LEMMA DequeueLosesNothing ==
  ASSUME TypeOK, TakenIsHead, BatchDelivered, Dequeue
  PROVE  Queued \subseteq Queued' \cup remote.pdus
  <1> DEFINE n == Len(batch.pdus)
  <1>1. pendingPDUs \in Seq(Orderings) /\ batch.pdus \in Seq(Orderings)
    BY DEF TypeOK, QueueType, BatchType
  <1>2. n \in 0..Len(pendingPDUs) /\ \A i \in 1..n : pendingPDUs[i] \in remote.pdus
    BY <1>1 DEF TakenIsHead, BatchDelivered, Dequeue
  <1>3. /\ pendingPDUs' \in Seq(Orderings) /\ Len(pendingPDUs') = Len(pendingPDUs) - n
        /\ \A i \in 1..(Len(pendingPDUs) - n) : pendingPDUs'[i] = pendingPDUs[i + n]
    BY <1>1, <1>2, RestIsTail DEF Dequeue
  <1> HIDE DEF n
  <1>4. ASSUME NEW i \in 1..Len(pendingPDUs), i > n
        PROVE  pendingPDUs[i] \in Queued'
    <2>1. i - n \in 1..(Len(pendingPDUs) - n) /\ (i - n) + n = i
      BY <1>1, <1>2, <1>4
    <2>2. pendingPDUs'[i - n] = pendingPDUs[i] /\ i - n \in DOMAIN pendingPDUs'
      BY <1>3, <2>1
    <2> QED
      BY <2>2 DEF Queued
  <1>5. ASSUME NEW i \in 1..Len(pendingPDUs)
        PROVE  pendingPDUs[i] \in Queued' \cup remote.pdus
    BY <1>1, <1>2, <1>4
  <1> QED
    BY <1>1, <1>5 DEF Queued

(* A step keeps every event accounted for if it hands none over, forgets   *)
(* none and takes none out of the queue but for one of the two ledgers.    *)
LEMMA AccountKept ==
  ASSUME EveryPDUAccounted, posted'.pdus = posted.pdus,
         Queued \subseteq Queued' \cup remote'.pdus \cup dropped'.pdus,
         remote.pdus \subseteq remote'.pdus, dropped.pdus \subseteq dropped'.pdus
  PROVE  EveryPDUAccounted'
  BY DEF EveryPDUAccounted, Queued

(* A step either leaves an event queued or has it processed or left to     *)
(* catch-up.                                                               *)
LEMMA AccountStep ==
  ASSUME TypeOK, TakenIsHead, BatchDelivered, EveryPDUAccounted, [Next]_vars
  PROVE  EveryPDUAccounted'
  <1> USE DEF queueVars, history
  <1>a. pendingPDUs \in Seq(Orderings)
    BY DEF TypeOK, QueueType
  <1>b. /\ remote \in [pdus : SUBSET Orderings, facts : SUBSET Fact]
        /\ posted \in [pdus : SUBSET Orderings, facts : SUBSET Fact]
        /\ dropped \in [pdus : SUBSET Orderings, facts : SUBSET Fact]
    BY DEF TypeOK, HistoryType
  <1>1. CASE Enqueue
    <2>1. ASSUME NEW so \in Orderings, EnqueuePDU(so) PROVE EveryPDUAccounted'
      <3>1. posted'.pdus = posted.pdus \cup {so} /\ UNCHANGED remote
        BY <2>1, <1>b DEF EnqueuePDU
      <3>2. dropped.pdus \subseteq dropped'.pdus
        BY <2>1, <1>b DEF EnqueuePDU
      <3>3. Queued \subseteq Queued'
        <4>1. \A i \in DOMAIN pendingPDUs : i \in DOMAIN Append(pendingPDUs, so)
                   /\ Append(pendingPDUs, so)[i] = pendingPDUs[i]
          BY <1>a
        <4> QED
          BY <2>1, <4>1 DEF EnqueuePDU, Queued
      <3>4. so \in Queued' \cup dropped'.pdus
        <4>1. CASE catchingUp /\ lastSuccessfulKnown
          BY <2>1, <1>b, <4>1 DEF EnqueuePDU
        <4>2. CASE ~(catchingUp /\ lastSuccessfulKnown)
          <5>1. pendingPDUs' = Append(pendingPDUs, so)
            BY <2>1, <4>2 DEF EnqueuePDU
          <5>2. Len(pendingPDUs) + 1 \in DOMAIN pendingPDUs'
                /\ pendingPDUs'[Len(pendingPDUs) + 1] = so
            BY <1>a, <5>1
          <5> QED
            BY <5>2 DEF Queued
        <4> QED
          BY <4>1, <4>2
      <3> QED
        BY <3>1, <3>2, <3>3, <3>4 DEF EveryPDUAccounted, Queued
    <2>2. ASSUME NEW type, NEW slot, NEW thread, Post(type, slot, thread)
          PROVE  EveryPDUAccounted'
      <3>1. posted'.pdus = posted.pdus /\ UNCHANGED <<pendingPDUs, remote, dropped>>
        BY <2>2, <1>b DEF Post
      <3> QED
        BY <3>1, AccountKept DEF Queued
    <2> QED
      BY <1>1, <2>1, <2>2 DEF Enqueue, EnqueueMarkedEDU, EnqueueKeyedEDU,
           EnqueueReceipt, EnqueuePresence
  <1>2. CASE Run
    <2>1. CASE RestartCatchUp
      <3>1. dropped'.pdus = dropped.pdus \cup Queued /\ UNCHANGED <<remote, posted>>
        BY <2>1, <1>b DEF RestartCatchUp, Queued
      <3> QED
        BY <3>1, AccountKept
    <2>2. CASE Dequeue
      BY <2>2, DequeueLosesNothing, AccountKept DEF Dequeue
    <2>3. ASSUME NEW outcome \in Outcomes, SendOutcome(outcome)
          PROVE  EveryPDUAccounted'
      <3>1. remote.pdus \subseteq remote'.pdus
        BY <2>3, <1>b DEF SendOutcome
      <3> QED
        BY <2>3, <3>1, AccountKept DEF SendOutcome, Queued
    <2>4. CASE Outage
      <3>1. dropped'.pdus = dropped.pdus /\ UNCHANGED <<remote, posted, pendingPDUs>>
        BY <2>4, <1>b DEF Outage
      <3> QED
        BY <3>1, AccountKept DEF Queued
    <2>5. CASE Gate \/ Take \/ Recheck \/ Exit
      BY <2>5, AccountKept DEF Gate, Take, Recheck, Exit, LoopTo, Queued
    <2>6. CASE ScheduleRetry \/ ReportMarks \/ AdvanceCursor \/ PersistCursor
      BY <2>6, AccountKept DEF ScheduleRetry, ReportMarks, AdvanceCursor,
           PersistCursor, Queued
    <2> QED
      BY <1>2, <2>1, <2>2, <2>3, <2>4, <2>5, <2>6 DEF Run
  <1>3. CASE Wake \/ Rewake \/ AcquireSlot \/ Release
    BY <1>3, AccountKept DEF Wake, Rewake, TryStart, AcquireSlot, Release, LoopTo, Queued
  <1>4. CASE \/ \E v \in Orderings \cup {0} : SetLastSuccessful(v)
             \/ FinishCatchUp \/ TakeCatchUpSkipped
             \/ \E so \in Orderings : Claim(so)
    BY <1>4, AccountKept DEF SetLastSuccessful, FinishCatchUp, TakeCatchUpSkipped,
         CatchUpOnly, Claim, Queued
  <1>5. ASSUME NEW outcome \in Outcomes, CatchUpOutcome(outcome)
        PROVE  EveryPDUAccounted'
    <2>1. remote.pdus \subseteq remote'.pdus
      BY <1>5, <1>b DEF CatchUpOutcome
    <2> QED
      BY <1>5, <2>1, AccountKept DEF CatchUpOutcome, Queued
  <1>6. CASE CatchUpAdvance \/ CatchUpPersist \/ ReleaseClaim
    BY <1>6, AccountKept DEF CatchUpAdvance, CatchUpPersist, ReleaseClaim, Queued
  <1>7. CASE TimerFires \/ HoldRunsOut \/ TimePasses \/ RemoteServerUp \/ Shutdown
    BY <1>7, AccountKept DEF TimerFires, HoldRunsOut, TimePasses, BackoffOnly,
         RemoteServerUp, Shutdown, Queued
  <1>8. CASE UNCHANGED vars
    BY <1>8, AccountKept DEF vars, Queued
  <1> QED
    BY <1>1, <1>2, <1>3, <1>4, <1>5, <1>6, <1>7, <1>8 DEF Next, SendCatchUp

(* Every event a producer hands to EnqueuePDU stays queued until the       *)
(* remote has processed it, or is left to catch-up by EnqueuePDU or        *)
(* RestartCatchUp: failures, rate limits, lost answers, shutdown and       *)
(* overlapping enqueues lose none.                                         *)
THEOREM EveryPDUAccountedAlways == Spec => []EveryPDUAccounted
  <1>1. Init => EveryPDUAccounted
    BY DEF Init, EveryPDUAccounted
  <1> QED
    BY <1>1, QueueInvariant, AccountStep, PTL DEF Spec

-----------------------------------------------------------------------------
(* The cursor.                                                             *)

(* Whoever is about to persist an ordering has had it delivered, and has   *)
(* moved the local copy of the cursor at least that far.                   *)
CursorPending ==
  /\ claim \in {"cursor", "persist"} => claimPDU \in remote.pdus
  /\ claim = "persist" => claimPDU <= lastSuccessful
  /\ loop = "persist" => LastOf(batch.pdus) <= lastSuccessful

CursorInv == CursorIsTrue /\ CursorPending

(* A step that leaves the cursors and whoever is persisting alone.         *)
LEMMA CursorUntouched ==
  ASSUME CursorInv, UNCHANGED <<claim, claimPDU, lastSuccessful, stored, batch>>,
         remote.pdus \subseteq remote'.pdus, loop' = loop \/ loop' # "persist"
  PROVE  CursorInv'
  BY DEF CursorInv, CursorIsTrue, CursorPending

(* The steps of Run keep the cursor true: it moves to an event of a        *)
(* delivered batch.                                                        *)
LEMMA CursorRun ==
  ASSUME TypeOK, NamesAPDU, BatchDelivered, CursorInv, Run
  PROVE  CursorInv'
  <1> USE DEF claimVars, catchUpVars
  <1>a. /\ remote \in [pdus : SUBSET Orderings, facts : SUBSET Fact]
        /\ stored \in [known : BOOLEAN, cursor : Nat, toDevice : Nat, deviceList : Nat]
        /\ lastSuccessful \in Nat /\ batch.pdus \in Seq(Orderings)
    BY DEF TypeOK, HistoryType, StoredType, CatchUpType, BatchType
  <1>b. ASSUME loop \in {"cursor", "persist"}
        PROVE  LastOf(batch.pdus) \in remote.pdus /\ LastOf(batch.pdus) \in Nat
    BY <1>a, <1>b, LastInSeq DEF NamesAPDU, BatchDelivered
  <1>1. CASE Gate \/ Recheck \/ Outage \/ RestartCatchUp \/ ScheduleRetry \/ Dequeue
    BY <1>1, CursorUntouched DEF Gate, Recheck, LoopTo, Outage, RestartCatchUp,
         ScheduleRetry, Dequeue, history
  <1>2. CASE Take \/ Exit
    BY <1>2 DEF Take, Exit, CursorInv, CursorIsTrue, CursorPending, history
  <1>3. ASSUME NEW outcome \in Outcomes, SendOutcome(outcome) PROVE CursorInv'
    <2>1. remote.pdus \subseteq remote'.pdus
      BY <1>3, <1>a DEF SendOutcome
    <2>2. loop' # "persist"
      BY <1>3 DEF SendOutcome
    <2> QED
      BY <1>3, <2>1, <2>2, CursorUntouched DEF SendOutcome
  <1>4. CASE ReportMarks
    <2>1. stored'.cursor = stored.cursor /\ loop' # "persist"
      BY <1>4, <1>a DEF ReportMarks
    <2> QED
      BY <1>4, <2>1 DEF ReportMarks, CursorInv, CursorIsTrue, CursorPending, history
  <1>5. CASE AdvanceCursor
    <2>1. LastOf(batch.pdus) \in Nat
      BY <1>5, <1>b DEF AdvanceCursor
    <2>2. /\ lastSuccessful <= lastSuccessful' /\ LastOf(batch.pdus) <= lastSuccessful'
          /\ lastSuccessful' \in Nat
      BY <1>5, <1>a, <2>1 DEF AdvanceCursor, HigherOf
    <2>3. CursorIsTrue'
      BY <1>5, <1>a, <2>2 DEF AdvanceCursor, CursorInv, CursorIsTrue, history
    <2>4. claim = "persist" => claimPDU \in Nat
      BY <1>5, DestinationAssumption DEF NamesAPDU
    <2>5. CursorPending'
      BY <1>5, <1>a, <2>2, <2>4 DEF AdvanceCursor, CursorInv, CursorPending, history
    <2> QED
      BY <2>3, <2>5 DEF CursorInv
  <1>6. CASE PersistCursor
    <2>1. /\ LastOf(batch.pdus) \in remote.pdus /\ LastOf(batch.pdus) \in Nat
          /\ LastOf(batch.pdus) <= lastSuccessful
      BY <1>6, <1>b DEF PersistCursor, CursorInv, CursorPending
    <2>2. stored'.cursor \in {stored.cursor, LastOf(batch.pdus)}
      BY <1>6, <1>a, <2>1 DEF PersistCursor, OnSuccess, HigherOf
    <2> QED
      BY <1>6, <2>1, <2>2 DEF PersistCursor, CursorInv, CursorIsTrue, CursorPending, history
  <1> QED
    BY <1>1, <1>2, <1>3, <1>4, <1>5, <1>6 DEF Run

(* And so do the steps of catch-up, which move it to the event just        *)
(* delivered.                                                              *)
LEMMA CursorStep ==
  ASSUME TypeOK, NamesAPDU, BatchDelivered, CursorInv, [Next]_vars
  PROVE  CursorInv'
  <1> USE DEF queueVars, loopVars, claimVars, catchUpVars, history
  <1>a. /\ remote \in [pdus : SUBSET Orderings, facts : SUBSET Fact]
        /\ stored \in [known : BOOLEAN, cursor : Nat, toDevice : Nat, deviceList : Nat]
        /\ lastSuccessful \in Nat
    BY DEF TypeOK, HistoryType, StoredType, CatchUpType
  <1>1. CASE Enqueue
    BY <1>1, EnqueueExtends, CursorUntouched
  <1>2. CASE Wake \/ AcquireSlot \/ Release
    BY <1>2, CursorUntouched DEF Wake, TryStart, AcquireSlot, Release, LoopTo
  <1>3. ASSUME NEW v \in Orderings \cup {0}, SetLastSuccessful(v) PROVE CursorInv'
    <2>1. v \in Nat
      BY DestinationAssumption
    <2>2. lastSuccessful <= lastSuccessful' /\ lastSuccessful' \in Nat
      BY <1>3, <1>a, <2>1 DEF SetLastSuccessful, CatchUpOnly, HigherOf
    <2>3. /\ claim = "persist" => claimPDU \in Nat
          /\ loop = "persist" => LastOf(batch.pdus) \in Nat
      BY DestinationAssumption, LastInSeq DEF NamesAPDU, TypeOK, BatchType
    <2>4. UNCHANGED <<loop, batch, claim, claimPDU, stored, remote>>
      BY <1>3 DEF SetLastSuccessful, CatchUpOnly
    <2> QED
      BY <1>a, <2>2, <2>3, <2>4 DEF CursorInv, CursorIsTrue, CursorPending
  <1>4. CASE FinishCatchUp \/ TakeCatchUpSkipped
    BY <1>4, CursorUntouched DEF FinishCatchUp, TakeCatchUpSkipped, CatchUpOnly
  <1>5. CASE \E so \in Orderings : Claim(so)
    BY <1>5 DEF Claim, CursorInv, CursorIsTrue, CursorPending
  <1>6. ASSUME NEW outcome \in Outcomes, CatchUpOutcome(outcome) PROVE CursorInv'
    <2>1. remote.pdus \subseteq remote'.pdus
      BY <1>6, <1>a DEF CatchUpOutcome
    <2>2. claim' = "cursor" => claimPDU \in remote'.pdus
      BY <1>6, <1>a DEF CatchUpOutcome, Processed
    <2>3. claim' \in {"cursor", "release"}
          /\ UNCHANGED <<loop, batch, claimPDU, lastSuccessful, stored>>
      BY <1>6 DEF CatchUpOutcome
    <2> QED
      BY <2>1, <2>2, <2>3 DEF CursorInv, CursorIsTrue, CursorPending
  <1>7. CASE CatchUpAdvance
    <2>1. claimPDU \in Nat /\ claimPDU \in remote.pdus
      BY <1>7, DestinationAssumption
         DEF NamesAPDU, CatchUpAdvance, CursorInv, CursorPending
    <2>2. /\ claimPDU <= lastSuccessful' /\ lastSuccessful <= lastSuccessful'
          /\ lastSuccessful' \in Nat
      BY <1>7, <1>a, <2>1 DEF CatchUpAdvance
    <2>3. loop = "persist" => LastOf(batch.pdus) \in Nat
      BY LastInSeq DEF NamesAPDU, TypeOK, BatchType
    <2>4. UNCHANGED <<loop, batch, claimPDU, stored, remote>> /\ claim' = "persist"
      BY <1>7 DEF CatchUpAdvance
    <2> QED
      BY <1>a, <2>1, <2>2, <2>3, <2>4 DEF CursorInv, CursorIsTrue, CursorPending
  <1>8. CASE CatchUpPersist
    <2>1. /\ claimPDU \in Nat /\ claimPDU \in remote.pdus
          /\ claimPDU <= lastSuccessful
      BY <1>8, DestinationAssumption
         DEF NamesAPDU, CatchUpPersist, CursorInv, CursorPending
    <2>2. stored'.cursor \in {stored.cursor, claimPDU}
      BY <1>8, <1>a, <2>1 DEF CatchUpPersist, OnSuccess, HigherOf
    <2>3. UNCHANGED <<loop, batch, claimPDU, remote, lastSuccessful>> /\ claim' = "release"
      BY <1>8 DEF CatchUpPersist
    <2> QED
      BY <2>1, <2>2, <2>3 DEF CursorInv, CursorIsTrue, CursorPending
  <1>9. CASE ReleaseClaim \/ Rewake
    BY <1>9 DEF ReleaseClaim, Rewake, TryStart, CursorInv, CursorIsTrue, CursorPending
  <1>10. CASE TimerFires \/ HoldRunsOut \/ TimePasses \/ RemoteServerUp \/ Shutdown
    BY <1>10, CursorUntouched DEF TimerFires, HoldRunsOut, TimePasses, BackoffOnly,
         RemoteServerUp, Shutdown
  <1>11. CASE UNCHANGED vars
    BY <1>11, CursorUntouched DEF vars
  <1> QED
    BY <1>1, <1>2, <1>3, <1>4, <1>5, <1>6, <1>7, <1>8, <1>9, <1>10, <1>11, CursorRun
       DEF Next, SendCatchUp

(* The persisted cursor of queue.go and SendCatchUp names an event the     *)
(* remote has processed and never overtakes the local copy, whichever of   *)
(* the two writers moved it last and whichever write failed.               *)
THEOREM CursorIsTrueAlways == Spec => []CursorIsTrue
  <1>1. Init => CursorInv
    BY DEF Init, CursorInv, CursorIsTrue, CursorPending
  <1>2. CursorInv => CursorIsTrue
    BY DEF CursorInv
  <1> QED
    BY <1>1, <1>2, TypeInvariant, QueueInvariant, CursorStep, PTL DEF Spec

-----------------------------------------------------------------------------
(* The EDU half of the queue.                                              *)

(* The outbox rows of one kind are deleted up to here.                     *)
Consumed(type) == IF type = "m.direct_to_device" THEN stored.toDevice ELSE stored.deviceList

(* From the n-th unit on, the units of one kind have ids above m.          *)
Behind(q, n, type, m) == \A i \in 1..Len(q) : i > n /\ q[i].type = type => m < IdOf(q[i])

(* No version is used twice.                                               *)
EDUsTidy ==
  /\ Tidy(pendingEDUs) /\ Below(pendingEDUs, inputs.updates)
  /\ \A f \in posted.facts : f.version <= inputs.updates

(* What is still queued lies behind every mark: those consumed, and those  *)
(* of the transaction that is out, once its own units are left aside.      *)
MarksBehind ==
  \A type \in DeviceKinds :
    /\ Consumed(type) <= inputs.updates /\ MarkOf(batch, type) <= inputs.updates
    /\ Behind(pendingEDUs, 0, type, Consumed(type))
    /\ loop \in {"send", "retry", "dequeue"} =>
         Behind(pendingEDUs, Len(batch.edus), type, MarkOf(batch, type))
    /\ loop = "marks" => Behind(pendingEDUs, 0, type, MarkOf(batch, type))

(* A merge may rewrite a unit that is out, but not a device unit.          *)
DeviceUnitsAsTaken ==
  loop \in {"send", "retry", "dequeue"} =>
    \A i \in 1..Len(batch.edus) :
      /\ DOMAIN batch.edus[i].body # {}
      /\ batch.edus[i].type \in DeviceKinds => pendingEDUs[i] = batch.edus[i]

(* What is dequeued has been processed, as it was taken.                   *)
EDUsDelivered == loop = "dequeue" => Facts(batch.edus) \subseteq remote.facts

EDUInv == EDUsTidy /\ MarksBehind /\ DeviceUnitsAsTaken /\ EDUsDelivered

(* A step of anyone but the producers and the loop.                        *)
LEMMA EDUUntouched ==
  ASSUME EDUInv, UNCHANGED <<pendingEDUs, batch>>,
         stored'.toDevice = stored.toDevice, stored'.deviceList = stored.deviceList,
         inputs'.updates = inputs.updates, posted'.facts = posted.facts,
         remote.facts \subseteq remote'.facts,
         loop' = loop \/ loop' \notin {"send", "retry", "dequeue", "marks"}
  PROVE  EDUInv'
  <1>1. EDUsTidy'
    BY DEF EDUInv, EDUsTidy
  <1>2. MarksBehind'
    BY DEF EDUInv, MarksBehind, Consumed
  <1>3. DeviceUnitsAsTaken' /\ EDUsDelivered'
    BY DEF EDUInv, DeviceUnitsAsTaken, EDUsDelivered
  <1> QED
    BY <1>1, <1>2, <1>3 DEF EDUInv

(* Every EDU producer has the queue absorb the fact it posts.              *)
LEMMA EnqueueAbsorbs ==
  ASSUME TypeOK, EDUsTidy, Enqueue
  PROVE  /\ dropped'.facts = dropped.facts
         /\ \/ UNCHANGED pendingEDUs /\ inputs'.updates = inputs.updates
               /\ posted'.facts = posted.facts
            \/ \E x \in Fact :
                 /\ x.version = inputs.updates + 1 /\ inputs'.updates = inputs.updates + 1
                 /\ posted'.facts = posted.facts \cup {x}
                 /\ Absorbs(pendingEDUs', pendingEDUs, x)
  <1> USE DestinationAssumption
  <1> DEFINE n == inputs.updates
             v == inputs.updates + 1
  <1>1. n \in Nat /\ v \in Nat /\ v = n + 1 /\ pendingEDUs \in Seq(EDU)
        /\ Tidy(pendingEDUs) /\ Below(pendingEDUs, n)
    BY DEF TypeOK, InputsType, QueueType, EDUsTidy
  <1>2. inputs \in [events : Nat, updates : Nat, catchUps : Nat, serverUps : Nat]
        /\ posted \in [pdus : SUBSET Orderings, facts : SUBSET Fact]
        /\ dropped \in [pdus : SUBSET Orderings, facts : SUBSET Fact]
    BY DEF TypeOK, InputsType, HistoryType
  <1>3. CASE inputs' = [inputs EXCEPT !.events = @ + 1] /\ \E so \in Orderings : EnqueuePDU(so)
    BY <1>2, <1>3 DEF EnqueuePDU
  <1>4. ASSUME NEW type \in EDUTypes, NEW slot \in Slots, NEW thread \in Threads \cup {NoThread},
               Post(type, slot, thread)
        PROVE  /\ Update(type, slot, thread, v) \in Fact
               /\ Update(type, slot, thread, v).version = v
               /\ inputs'.updates = v /\ dropped'.facts = dropped.facts
               /\ posted'.facts = posted.facts \cup {Update(type, slot, thread, v)}
    BY <1>1, <1>2, <1>4 DEF Post, Update, Fact
  <1> HIDE DEF v, n
  <1>5. ASSUME NEW type \in EDUTypes, NEW slot \in Slots, NEW thread \in Threads \cup {NoThread},
               Post(type, slot, thread),
               Absorbs(pendingEDUs', pendingEDUs, Update(type, slot, thread, v))
        PROVE  /\ dropped'.facts = dropped.facts
               /\ \E x \in Fact :
                    /\ x.version = v /\ inputs'.updates = v
                    /\ posted'.facts = posted.facts \cup {x}
                    /\ Absorbs(pendingEDUs', pendingEDUs, x)
    BY <1>4, <1>5
  <1>6. ASSUME NEW type \in DeviceTypes, NEW last \in BOOLEAN, EnqueueMarkedEDU(type, last)
        PROVE  /\ Post(type, Outbox, NoThread)
               /\ Absorbs(pendingEDUs', pendingEDUs, Update(type, Outbox, NoThread, v))
    <2>1. type \in DeviceKinds
      BY DEF DeviceKinds
    <2>2. PICK mark \in {0, v} :
            pendingEDUs' = IF type = "m.direct_to_device"
                           THEN AppendMarked(pendingEDUs, type, v, mark, 0)
                           ELSE AppendMarked(pendingEDUs, type, v, 0, mark)
      BY <1>6 DEF EnqueueMarkedEDU, v
    <2>3. CASE type = "m.direct_to_device"
      BY <1>1, <1>6, <2>1, <2>2, <2>3, AppendMarkedAbsorbs DEF EnqueueMarkedEDU
    <2>4. CASE type # "m.direct_to_device"
      <3>1. type = "m.device_list_update"
        BY <2>1, <2>4 DEF DeviceKinds
      <3> QED
        BY <1>1, <1>6, <2>1, <2>2, <2>4, <3>1, AppendMarkedAbsorbs DEF EnqueueMarkedEDU
    <2> QED
      BY <2>3, <2>4
  <1>7. ASSUME NEW key \in Keys, EnqueueKeyedEDU(key)
        PROVE  /\ Post("m.typing", key, NoThread)
               /\ Absorbs(pendingEDUs', pendingEDUs, Update("m.typing", key, NoThread, v))
    <2>1. Post("m.typing", key, NoThread) /\ pendingEDUs' = ReplaceKeyed(pendingEDUs, key, v)
      BY <1>7 DEF EnqueueKeyedEDU, v
    <2> QED
      BY <1>1, <2>1, ReplaceKeyedAbsorbs
  <1>8. ASSUME NEW reader \in Readers, NEW thread \in Threads, EnqueueReceipt(reader, thread)
        PROVE  /\ Post("m.receipt", reader, thread)
               /\ Absorbs(pendingEDUs', pendingEDUs, Update("m.receipt", reader, thread, v))
    <2>1. Post("m.receipt", reader, thread)
          /\ pendingEDUs' = MergeReceipt(pendingEDUs, reader, thread, v)
      BY <1>8 DEF EnqueueReceipt, v
    <2> QED
      BY <1>1, <2>1, MergeReceiptAbsorbs
  <1>9. ASSUME NEW user \in Users, EnqueuePresence(user)
        PROVE  /\ Post("m.presence", user, NoThread)
               /\ Absorbs(pendingEDUs', pendingEDUs, Update("m.presence", user, NoThread, v))
    <2>1. Post("m.presence", user, NoThread) /\ pendingEDUs' = MergePresence(pendingEDUs, user, v)
      BY <1>9 DEF EnqueuePresence, v
    <2> QED
      BY <1>1, <2>1, MergePresenceAbsorbs
  <1>10. /\ \A type \in DeviceTypes : type \in EDUTypes
         /\ "m.typing" \in EDUTypes /\ "m.receipt" \in EDUTypes /\ "m.presence" \in EDUTypes
         /\ Outbox \in Slots /\ Keys \subseteq Slots /\ Readers \subseteq Slots
         /\ Users \subseteq Slots
    BY DEF EDUTypes, Slots
  <1>11. CASE \/ \E type \in DeviceTypes, last \in BOOLEAN : EnqueueMarkedEDU(type, last)
              \/ \E key \in Keys : EnqueueKeyedEDU(key)
              \/ \E reader \in Readers, thread \in Threads : EnqueueReceipt(reader, thread)
              \/ \E user \in Users : EnqueuePresence(user)
    <2>1. PICK type \in EDUTypes, slot \in Slots, thread \in Threads \cup {NoThread} :
            /\ Post(type, slot, thread)
            /\ Absorbs(pendingEDUs', pendingEDUs, Update(type, slot, thread, v))
      BY <1>6, <1>7, <1>8, <1>9, <1>10, <1>11
    <2> QED
      BY <1>5, <2>1 DEF v
  <1> QED
    BY <1>3, <1>11 DEF Enqueue

(* What lay behind a mark stays there, and what is appended is newer.      *)
LEMMA BehindKept ==
  ASSUME NEW q \in Seq(EDU), NEW r, NEW x, Extends(r, q), Absorbs(r, q, x),
         NEW m \in Nat, x.version \in Nat, m < x.version, NEW n \in Nat,
         NEW type \in DeviceKinds, Behind(q, n, type, m)
  PROVE  Behind(r, n, type, m)
  <1> SUFFICES ASSUME NEW i \in 1..Len(r), i > n, r[i].type = type
               PROVE  m < IdOf(r[i])
    BY DEF Behind
  <1>1. r \in Seq(EDU) /\ Len(q) \in Nat
    BY DEF Extends
  <1>2. CASE i \in 1..Len(q)
    <2>1. q[i].type = type
      BY <1>2 DEF Extends, SameUnit
    <2>2. r[i] = q[i]
      BY <1>2, <2>1 DEF Absorbs
    <2> QED
      BY <1>2, <2>1, <2>2 DEF Behind
  <1>3. CASE i > Len(q)
    BY <1>3 DEF Absorbs
  <1> QED
    BY <1>1, <1>2, <1>3

(* Producers.                                                              *)
LEMMA EDUEnqueue ==
  ASSUME TypeOK, TakenIsHead, EDUInv, Enqueue
  PROVE  EDUInv'
  <1>1. Extends(pendingEDUs', pendingEDUs) /\ UNCHANGED <<loop, batch, remote, stored>>
    BY EnqueueExtends DEF loopVars
  <1>2. CASE /\ UNCHANGED pendingEDUs /\ inputs'.updates = inputs.updates
             /\ posted'.facts = posted.facts
    BY <1>1, <1>2, EDUUntouched
  <1>3. ASSUME NEW x \in Fact, x.version = inputs.updates + 1,
               inputs'.updates = inputs.updates + 1, posted'.facts = posted.facts \cup {x},
               Absorbs(pendingEDUs', pendingEDUs, x)
        PROVE  EDUInv'
    <2>1. /\ inputs.updates \in Nat /\ x.version \in Nat /\ pendingEDUs \in Seq(EDU)
          /\ batch.edus \in Seq(EDU) /\ posted.facts \subseteq Fact
          /\ \A f \in Fact : f.version \in Nat
      BY <1>3 DEF TypeOK, InputsType, QueueType, BatchType, HistoryType, Fact
    <2>2. EDUsTidy'
      <3>1. Tidy(pendingEDUs') /\ Below(pendingEDUs', inputs'.updates)
        BY <1>3 DEF Absorbs
      <3>2. \A f \in posted'.facts : f.version <= inputs'.updates
        BY <1>3, <2>1 DEF EDUInv, EDUsTidy
      <3> QED
        BY <3>1, <3>2 DEF EDUsTidy
    <2>3. MarksBehind'
      <3> SUFFICES ASSUME NEW type \in DeviceKinds
                   PROVE  /\ Consumed(type)' <= inputs'.updates /\ MarkOf(batch', type) <= inputs'.updates
                          /\ Behind(pendingEDUs', 0, type, Consumed(type)')
                          /\ loop' \in {"send", "retry", "dequeue"} =>
                               Behind(pendingEDUs', Len(batch'.edus), type, MarkOf(batch', type))
                          /\ loop' = "marks" => Behind(pendingEDUs', 0, type, MarkOf(batch', type))
        BY DEF MarksBehind
      <3> DEFINE c == Consumed(type)
                 m == MarkOf(batch, type)
      <3>1. c \in Nat /\ m \in Nat /\ c' = c /\ MarkOf(batch', type) = m
        BY <1>1 DEF TypeOK, StoredType, BatchType, Consumed, MarkOf
      <3>2. c <= inputs.updates /\ m <= inputs.updates /\ Len(batch.edus) \in Nat
        BY <2>1 DEF EDUInv, MarksBehind
      <3>3. /\ Behind(pendingEDUs, 0, type, c)
            /\ loop \in {"send", "retry", "dequeue"} => Behind(pendingEDUs, Len(batch.edus), type, m)
            /\ loop = "marks" => Behind(pendingEDUs, 0, type, m)
        BY DEF EDUInv, MarksBehind
      <3> HIDE DEF c, m
      <3>4. c < x.version /\ m < x.version /\ c <= inputs'.updates /\ m <= inputs'.updates
        BY <1>3, <2>1, <3>1, <3>2
      <3>5. Behind(pendingEDUs', 0, type, c)
        BY <1>1, <1>3, <2>1, <3>1, <3>3, <3>4, BehindKept
      <3>6. loop \in {"send", "retry", "dequeue"} =>
              Behind(pendingEDUs', Len(batch.edus), type, m)
        BY <1>1, <1>3, <2>1, <3>1, <3>2, <3>3, <3>4, BehindKept
      <3>7. loop = "marks" => Behind(pendingEDUs', 0, type, m)
        BY <1>1, <1>3, <2>1, <3>1, <3>3, <3>4, BehindKept
      <3> QED
        BY <1>1, <3>1, <3>4, <3>5, <3>6, <3>7 DEF c, m
    <2>4. DeviceUnitsAsTaken'
      <3> SUFFICES ASSUME loop \in {"send", "retry", "dequeue"}, NEW i \in 1..Len(batch.edus)
                   PROVE  /\ DOMAIN batch.edus[i].body # {}
                          /\ batch.edus[i].type \in DeviceKinds => pendingEDUs'[i] = batch.edus[i]
        BY <1>1 DEF DeviceUnitsAsTaken
      <3>1. i \in 1..Len(pendingEDUs)
        BY <2>1 DEF TakenIsHead
      <3>2. /\ DOMAIN batch.edus[i].body # {}
            /\ batch.edus[i].type \in DeviceKinds => pendingEDUs[i] = batch.edus[i]
        BY DEF EDUInv, DeviceUnitsAsTaken
      <3> QED
        BY <1>3, <3>1, <3>2 DEF Absorbs
    <2>5. EDUsDelivered'
      BY <1>1 DEF EDUInv, EDUsDelivered
    <2> QED
      BY <2>2, <2>3, <2>4, <2>5 DEF EDUInv
  <1>4. EDUsTidy
    BY DEF EDUInv
  <1> QED
    BY <1>2, <1>3, <1>4, EnqueueAbsorbs

(* takeLocked: the mark of the transaction is the id of one of its units,  *)
(* and the units it leaves behind are newer.                               *)
LEMMA EDUTake ==
  ASSUME TypeOK, EDUInv, Take
  PROVE  EDUInv'
  <1>1. UNCHANGED <<pendingEDUs, stored, remote, posted, inputs>>
    BY DEF Take, history
  <1>2. CASE Holding
    BY <1>1, <1>2, EDUUntouched DEF Take
  <1>3. CASE ~Holding
    <2> DEFINE E == Prefix(pendingEDUs, MaxEDUs)
    <2>1. pendingEDUs \in Seq(EDU) /\ inputs.updates \in Nat /\ MaxEDUs \in Nat
      BY DestinationAssumption DEF TypeOK, QueueType, InputsType
    <2>2. /\ E \in Seq(EDU) /\ Len(E) <= Len(pendingEDUs)
          /\ \A i \in 1..Len(E) : E[i] = pendingEDUs[i]
      BY <2>1, PrefixIsHead
    <2>3. /\ batch'.edus = E /\ loop' \in {"recheck", "send"}
          /\ batch'.toDeviceUpTo = ToDeviceMark(E) /\ batch'.deviceListUpTo = DeviceListMark(E)
      BY <1>3 DEF Take
    <2> HIDE DEF E
    <2>4. \A i \in 1..Len(E) : i \in 1..Len(pendingEDUs) /\ UnitTidy(E[i])
      BY <2>1, <2>2 DEF EDUInv, EDUsTidy, Tidy
    <2>5. ASSUME NEW type \in DeviceKinds
          PROVE  LET m == MarkOf(batch', type)
                 IN  m \in Nat /\ (m # 0 => \E i \in 1..Len(E) : E[i].type = type /\ IdOf(E[i]) = m)
      <3> DEFINE m == MarkOf(batch', type)
      <3>1. m \in Nat /\ (m # 0 => \E i \in 1..Len(E) : MarkOf(E[i], type) = m)
        BY <2>2, <2>3, MarksAreNat DEF MarkOf
      <3> HIDE DEF m
      <3>2. \A i \in 1..Len(E) : MarkOf(E[i], type) # 0 => E[i].type = type /\ IdOf(E[i]) = MarkOf(E[i], type)
        BY <2>4 DEF UnitTidy
      <3> QED
        BY <3>1, <3>2 DEF m
    <2>6. MarksBehind'
      <3> SUFFICES ASSUME NEW type \in DeviceKinds
                   PROVE  /\ Consumed(type)' <= inputs'.updates /\ MarkOf(batch', type) <= inputs'.updates
                          /\ Behind(pendingEDUs', 0, type, Consumed(type)')
                          /\ Behind(pendingEDUs', Len(batch'.edus), type, MarkOf(batch', type))
        BY <2>3 DEF MarksBehind
      <3> DEFINE m == MarkOf(batch', type)
                 c == Consumed(type)
      <3>1. m \in Nat /\ (m # 0 => \E i \in 1..Len(E) : E[i].type = type /\ IdOf(E[i]) = m)
        BY <2>5
      <3>2. c' = c /\ c \in Nat /\ c <= inputs.updates /\ Behind(pendingEDUs, 0, type, c)
        BY <1>1 DEF Consumed, TypeOK, StoredType, EDUInv, MarksBehind
      <3> HIDE DEF m, c
      <3>3. \A i \in 1..Len(pendingEDUs) : pendingEDUs[i].type = type =>
              IdOf(pendingEDUs[i]) \in Nat /\ IdOf(pendingEDUs[i]) <= inputs.updates
        <4> SUFFICES ASSUME NEW i \in 1..Len(pendingEDUs), pendingEDUs[i].type = type
                     PROVE  IdOf(pendingEDUs[i]) \in Nat /\ IdOf(pendingEDUs[i]) <= inputs.updates
          OBVIOUS
        <4>1. pendingEDUs[i] \in EDU /\ Outbox \in DOMAIN pendingEDUs[i].body
          BY <2>1 DEF EDUInv, EDUsTidy, Tidy, UnitTidy
        <4>2. IdOf(pendingEDUs[i]) \in Nat
          BY <4>1 DEF EDU, Entry, IdOf
        <4> QED
          BY <4>1, <4>2 DEF EDUInv, EDUsTidy, Below, IdOf
      <3>4. m <= inputs.updates
        BY <2>1, <2>2, <2>4, <3>1, <3>3
      <3>5. Behind(pendingEDUs, Len(E), type, m)
        <4> SUFFICES ASSUME NEW j \in 1..Len(pendingEDUs), j > Len(E), pendingEDUs[j].type = type
                     PROVE  m < IdOf(pendingEDUs[j])
          BY DEF Behind
        <4>1. CASE m = 0
          <5>1. c < IdOf(pendingEDUs[j])
            BY <3>2 DEF Behind
          <5> QED
            BY <3>2, <3>3, <4>1, <5>1
        <4>2. CASE m # 0
          <5>1. PICK i \in 1..Len(E) : E[i].type = type /\ IdOf(E[i]) = m
            BY <3>1, <4>2
          <5>2. i \in 1..Len(pendingEDUs) /\ i < j /\ pendingEDUs[i] = E[i]
            BY <2>2, <2>4
          <5>3. PairTidy(pendingEDUs[i], pendingEDUs[j])
            BY <5>2 DEF EDUInv, EDUsTidy, Tidy
          <5> QED
            BY <5>1, <5>2, <5>3 DEF PairTidy
        <4> QED
          BY <4>1, <4>2
      <3> QED
        BY <1>1, <2>3, <3>2, <3>4, <3>5 DEF m, c
    <2>7. DeviceUnitsAsTaken'
      BY <1>1, <2>2, <2>3, <2>4 DEF DeviceUnitsAsTaken, UnitTidy
    <2>8. EDUsTidy' /\ EDUsDelivered'
      BY <1>1, <2>3 DEF EDUInv, EDUsTidy, EDUsDelivered
    <2> QED
      BY <2>6, <2>7, <2>8 DEF EDUInv
  <1> QED
    BY <1>2, <1>3

(* A step that shrinks the queue and keeps its order leaves the marks      *)
(* behind it.                                                              *)
LEMMA EDUShrinks ==
  ASSUME TypeOK, EDUInv, Tidy(pendingEDUs'), Below(pendingEDUs', inputs.updates),
         NEW n \in Nat,
         \A i \in 1..Len(pendingEDUs') :
           \E j \in 1..Len(pendingEDUs) : j > n /\ pendingEDUs'[i] = pendingEDUs[j],
         UNCHANGED <<batch, stored, posted, inputs>>,
         \/ loop' \in {"restart", "exit"}
         \/ loop' = "marks" /\ loop = "dequeue" /\ n = Len(batch.edus)
  PROVE  EDUInv'
  <1>1. EDUsTidy'
    BY DEF EDUInv, EDUsTidy
  <1>2. ASSUME NEW type \in DeviceKinds, NEW m, NEW k \in Nat, k <= n, Behind(pendingEDUs, k, type, m)
        PROVE  Behind(pendingEDUs', 0, type, m)
    <2> SUFFICES ASSUME NEW i \in 1..Len(pendingEDUs'), pendingEDUs'[i].type = type
                 PROVE  m < IdOf(pendingEDUs'[i])
      BY DEF Behind
    <2>1. PICK j \in 1..Len(pendingEDUs) : j > n /\ pendingEDUs'[i] = pendingEDUs[j]
      OBVIOUS
    <2>2. j > k
      BY <1>2, <2>1
    <2> QED
      BY <1>2, <2>1, <2>2 DEF Behind
  <1>3. MarksBehind'
    <2> SUFFICES ASSUME NEW type \in DeviceKinds
                 PROVE  /\ Consumed(type)' <= inputs'.updates /\ MarkOf(batch', type) <= inputs'.updates
                        /\ Behind(pendingEDUs', 0, type, Consumed(type)')
                        /\ loop' = "marks" => Behind(pendingEDUs', 0, type, MarkOf(batch', type))
      BY DEF MarksBehind
    <2>1. /\ Consumed(type) <= inputs.updates /\ MarkOf(batch, type) <= inputs.updates
          /\ Behind(pendingEDUs, 0, type, Consumed(type))
          /\ loop = "dequeue" => Behind(pendingEDUs, Len(batch.edus), type, MarkOf(batch, type))
      BY DEF EDUInv, MarksBehind
    <2>2. Consumed(type)' = Consumed(type)
      BY DEF Consumed
    <2>3. Behind(pendingEDUs', 0, type, Consumed(type))
      BY <1>2, <2>1
    <2>4. loop' = "marks" => Behind(pendingEDUs', 0, type, MarkOf(batch, type))
      BY <1>2, <2>1
    <2> QED
      BY <2>1, <2>2, <2>3, <2>4
  <1>4. DeviceUnitsAsTaken' /\ EDUsDelivered'
    BY DEF DeviceUnitsAsTaken, EDUsDelivered
  <1> QED
    BY <1>1, <1>3, <1>4 DEF EDUInv

(* A long outage sheds the ephemeral units.                                *)
LEMMA EDUOutage ==
  ASSUME TypeOK, EDUInv, Outage
  PROVE  EDUInv'
  <1>1. /\ pendingEDUs \in Seq(EDU) /\ inputs.updates \in Nat /\ Tidy(pendingEDUs)
        /\ Below(pendingEDUs, inputs.updates)
    BY DEF TypeOK, QueueType, InputsType, EDUInv, EDUsTidy
  <1>2. CASE LongBackoff
    <2>1. /\ pendingEDUs' = DropEphemeral(pendingEDUs) /\ loop' = "restart"
          /\ UNCHANGED <<batch, stored, posted, inputs>>
      BY <1>2 DEF Outage
    <2>2. Tidy(pendingEDUs') /\ Below(pendingEDUs', inputs.updates)
      BY <1>1, <2>1, DropEphemeralTidy
    <2>3. \A i \in 1..Len(pendingEDUs') :
            \E j \in 1..Len(pendingEDUs) : j > 0 /\ pendingEDUs'[i] = pendingEDUs[j]
      <3>1. \A i \in 1..Len(pendingEDUs') :
              \E j \in 1..Len(pendingEDUs) : pendingEDUs'[i] = pendingEDUs[j]
        BY <1>1, <2>1, DropEphemeralIsQueue
      <3>2. \A j \in 1..Len(pendingEDUs) : j > 0
        OBVIOUS
      <3> QED
        BY <3>1, <3>2
    <2> QED
      BY <2>1, <2>2, <2>3, EDUShrinks
  <1>3. CASE ~LongBackoff
    BY <1>3, EDUUntouched DEF Outage
  <1> QED
    BY <1>2, <1>3

(* dequeue.                                                                *)
LEMMA EDUDequeue ==
  ASSUME TypeOK, TakenIsHead, EDUInv, Dequeue
  PROVE  EDUInv'
  <1> DEFINE n == Len(batch.edus)
  <1>1. /\ pendingEDUs \in Seq(EDU) /\ inputs.updates \in Nat /\ Tidy(pendingEDUs)
        /\ Below(pendingEDUs, inputs.updates) /\ n \in 0..Len(pendingEDUs) /\ n \in Nat
    BY DEF TypeOK, QueueType, InputsType, BatchType, EDUInv, EDUsTidy, TakenIsHead, Dequeue
  <1>2. /\ pendingEDUs' = Rest(pendingEDUs, n) /\ loop' = "marks" /\ loop = "dequeue"
        /\ UNCHANGED <<batch, stored, posted, inputs>>
    BY DEF Dequeue, history
  <1>3. Tidy(pendingEDUs') /\ Below(pendingEDUs', inputs.updates)
    BY <1>1, <1>2, RestTidy
  <1>4. /\ pendingEDUs' \in Seq(EDU) /\ Len(pendingEDUs') = Len(pendingEDUs) - n
        /\ \A i \in 1..(Len(pendingEDUs) - n) : pendingEDUs'[i] = pendingEDUs[i + n]
    BY <1>1, <1>2, RestIsTail
  <1> HIDE DEF n
  <1>5. \A i \in 1..Len(pendingEDUs') :
          \E j \in 1..Len(pendingEDUs) : j > n /\ pendingEDUs'[i] = pendingEDUs[j]
    <2> SUFFICES ASSUME NEW i \in 1..Len(pendingEDUs')
                 PROVE  i + n \in 1..Len(pendingEDUs) /\ i + n > n
                        /\ pendingEDUs'[i] = pendingEDUs[i + n]
      OBVIOUS
    <2>1. i \in 1..(Len(pendingEDUs) - n)
      BY <1>4
    <2>2. pendingEDUs'[i] = pendingEDUs[i + n]
      BY <1>4, <2>1
    <2>3. Len(pendingEDUs) \in Nat
      BY <1>1
    <2>4. i + n \in 1..Len(pendingEDUs) /\ i + n > n
      BY <1>1, <2>1, <2>3
    <2> QED
      BY <2>2, <2>4
  <1> QED
    BY <1>1, <1>2, <1>3, <1>5, EDUShrinks DEF n

(* onEDUsSent: the rows up to the mark are deleted, or one write fails.    *)
LEMMA EDUReport ==
  ASSUME TypeOK, EDUInv, ReportMarks
  PROVE  EDUInv'
  <1>1. /\ loop = "marks" /\ loop' \in {"gate", "cursor"}
        /\ UNCHANGED <<pendingEDUs, batch, remote, posted, inputs>>
    BY DEF ReportMarks, queueVars, history
  <1>2. /\ stored'.toDevice \in {stored.toDevice, HigherOf(batch.toDeviceUpTo, stored.toDevice)}
        /\ stored'.deviceList \in {stored.deviceList, HigherOf(batch.deviceListUpTo, stored.deviceList)}
    BY DEF ReportMarks, TypeOK, StoredType
  <1>3. MarksBehind'
    <2> SUFFICES ASSUME NEW type \in DeviceKinds
                 PROVE  /\ Consumed(type)' <= inputs.updates /\ MarkOf(batch, type) <= inputs.updates
                        /\ Behind(pendingEDUs, 0, type, Consumed(type)')
      BY <1>1 DEF MarksBehind
    <2>1. /\ Consumed(type) <= inputs.updates /\ MarkOf(batch, type) <= inputs.updates
          /\ Behind(pendingEDUs, 0, type, Consumed(type))
          /\ Behind(pendingEDUs, 0, type, MarkOf(batch, type))
      BY <1>1 DEF EDUInv, MarksBehind
    <2>2. Consumed(type)' \in {Consumed(type), MarkOf(batch, type)}
      BY <1>2 DEF Consumed, MarkOf, HigherOf
    <2> QED
      BY <2>1, <2>2
  <1> QED
    BY <1>1, <1>3 DEF EDUInv, EDUsTidy, DeviceUnitsAsTaken, EDUsDelivered

(* The answer: only a delivery leads to dequeue.                           *)
LEMMA EDUSend ==
  ASSUME TypeOK, EDUInv, NEW outcome \in Outcomes, SendOutcome(outcome)
  PROVE  EDUInv'
  <1>1. /\ loop = "send" /\ loop' \in {"dequeue", "retry", "exit"}
        /\ UNCHANGED <<pendingEDUs, batch, stored, posted, inputs>>
    BY DEF SendOutcome, queueVars
  <1>2. loop' = "dequeue" => Facts(batch.edus) \subseteq remote'.facts
    BY DEF SendOutcome, Processed
  <1>3. MarksBehind'
    BY <1>1 DEF EDUInv, MarksBehind, Consumed
  <1> QED
    BY <1>1, <1>2, <1>3 DEF EDUInv, EDUsTidy, DeviceUnitsAsTaken, EDUsDelivered

(* Every step of every goroutine.                                          *)
LEMMA EDUStep ==
  ASSUME TypeOK, TakenIsHead, EDUInv, [Next]_vars
  PROVE  EDUInv'
  <1> USE DEF queueVars, loopVars, claimVars, history
  <1>a. /\ remote \in [pdus : SUBSET Orderings, facts : SUBSET Fact]
        /\ stored \in [known : BOOLEAN, cursor : Nat, toDevice : Nat, deviceList : Nat]
        /\ inputs \in [events : Nat, updates : Nat, catchUps : Nat, serverUps : Nat]
    BY DEF TypeOK, HistoryType, StoredType, InputsType
  <1>b. \A so : OnSuccess(so) =>
          stored'.toDevice = stored.toDevice /\ stored'.deviceList = stored.deviceList
    BY <1>a DEF OnSuccess
  <1>1. CASE Wake \/ Rewake \/ AcquireSlot \/ Release
    BY <1>1, EDUUntouched DEF Wake, Rewake, TryStart, AcquireSlot, Release, LoopTo
  <1>2. CASE Gate \/ Recheck \/ AdvanceCursor \/ ScheduleRetry
    BY <1>2, EDUUntouched DEF Gate, Recheck, LoopTo, AdvanceCursor, ScheduleRetry
  <1>3. CASE RestartCatchUp
    BY <1>3, EDUUntouched DEF RestartCatchUp
  <1>4. CASE PersistCursor
    BY <1>4, <1>b, EDUUntouched DEF PersistCursor
  <1>5. CASE Exit
    <2>1. /\ batch' = NoBatch /\ loop' = "idle"
          /\ UNCHANGED <<pendingEDUs, stored, remote, posted, inputs>>
      BY <1>5 DEF Exit
    <2>2. \A type \in DeviceKinds : MarkOf(batch', type) = 0
      BY <2>1 DEF MarkOf, NoBatch
    <2>3. 0 <= inputs'.updates
      BY <1>a, <2>1
    <2>4. MarksBehind'
      BY <2>1, <2>2, <2>3 DEF EDUInv, MarksBehind, Consumed
    <2> QED
      BY <2>1, <2>4 DEF EDUInv, EDUsTidy, DeviceUnitsAsTaken, EDUsDelivered
  <1>6. CASE Run
    BY <1>2, <1>3, <1>4, <1>5, <1>6, EDUTake, EDUOutage, EDUDequeue, EDUReport, EDUSend DEF Run
  <1>7. CASE \/ \E v \in Orderings \cup {0} : SetLastSuccessful(v)
             \/ FinishCatchUp \/ TakeCatchUpSkipped
    BY <1>7, EDUUntouched DEF SetLastSuccessful, FinishCatchUp, TakeCatchUpSkipped, CatchUpOnly
  <1>8. CASE inputs' = [inputs EXCEPT !.catchUps = @ + 1] /\ \E so \in Orderings : Claim(so)
    <2>1. inputs'.updates = inputs.updates
      BY <1>8, <1>a
    <2> QED
      BY <1>8, <2>1, EDUUntouched DEF Claim
  <1>9. ASSUME NEW outcome \in Outcomes, CatchUpOutcome(outcome) PROVE EDUInv'
    <2>1. remote.facts \subseteq remote'.facts
      BY <1>9, <1>a DEF CatchUpOutcome
    <2> QED
      BY <1>9, <2>1, EDUUntouched DEF CatchUpOutcome
  <1>10. CASE CatchUpAdvance \/ CatchUpPersist \/ ReleaseClaim
    BY <1>10, <1>b, EDUUntouched DEF CatchUpAdvance, CatchUpPersist, ReleaseClaim
  <1>11. CASE TimerFires \/ HoldRunsOut \/ TimePasses \/ Shutdown
    BY <1>11, EDUUntouched DEF TimerFires, HoldRunsOut, TimePasses, BackoffOnly, Shutdown
  <1>12. CASE RemoteServerUp
    <2>1. inputs'.updates = inputs.updates
      BY <1>12, <1>a DEF RemoteServerUp
    <2> QED
      BY <1>12, <2>1, EDUUntouched DEF RemoteServerUp
  <1>13. CASE UNCHANGED vars
    BY <1>13, EDUUntouched DEF vars
  <1> QED
    BY <1>1, <1>6, <1>7, <1>8, <1>9, <1>10, <1>11, <1>12, <1>13, EDUEnqueue DEF Next, SendCatchUp

(* The invariant behind the properties of the EDU queue.                   *)
LEMMA EDUInvariant == Spec => []EDUInv
  <1>1. Init => EDUInv
    <2> SUFFICES ASSUME Init PROVE EDUInv
      OBVIOUS
    <2>1. /\ pendingEDUs = <<>> /\ Len(pendingEDUs) = 0 /\ posted.facts = {} /\ inputs.updates = 0
          /\ loop = "idle" /\ stored.toDevice = 0 /\ stored.deviceList = 0
          /\ batch.toDeviceUpTo = 0 /\ batch.deviceListUpTo = 0
      BY DEF Init, NoBatch
    <2>2. EDUsTidy
      BY <2>1 DEF EDUsTidy, Tidy, Below
    <2>3. MarksBehind
      BY <2>1 DEF MarksBehind, Behind, Consumed, MarkOf
    <2> QED
      BY <2>1, <2>2, <2>3 DEF EDUInv, DeviceUnitsAsTaken, EDUsDelivered
  <1> QED
    BY <1>1, QueueInvariant, EDUStep, PTL DEF Spec

(* No two pending units of a destination carry an update of the same       *)
(* typing key, receipt thread or presence user, for any number of users,   *)
(* threads and units: EnqueueKeyedEDU, EnqueueReceipt and EnqueuePresence  *)
(* always find the unit that has it.                                       *)
THEOREM NoStaleDuplicateAlways == Spec => []NoStaleDuplicate
  <1>1. TypeOK /\ EDUInv => NoStaleDuplicate
    <2> SUFFICES ASSUME TypeOK, EDUInv, NEW i \in DOMAIN pendingEDUs, NEW j \in DOMAIN pendingEDUs,
                        i < j, NEW f \in FactsOf(pendingEDUs[i]), NEW g \in FactsOf(pendingEDUs[j]),
                        f.type = g.type, f.slot = g.slot, f.thread = g.thread
                 PROVE  f.slot = Outbox
      BY DEF NoStaleDuplicate
    <2>1. i \in 1..Len(pendingEDUs) /\ j \in 1..Len(pendingEDUs)
      BY DEF TypeOK, QueueType
    <2>2. PairTidy(pendingEDUs[i], pendingEDUs[j])
      BY <2>1 DEF EDUInv, EDUsTidy, Tidy
    <2> QED
      BY <2>2 DEF PairTidy, FactsOf
  <1> QED
    BY <1>1, EDUInvariant, QueueInvariant, PTL

-----------------------------------------------------------------------------
(* No device unit is lost, and no row deleted under a queued one.          *)

(* What has left the queue, one way or the other.                          *)
Gone == remote.facts \cup dropped.facts

(* Dequeueing removes device facts the remote has: their units are queued  *)
(* as they were taken.                                                     *)
LEMMA DequeueLosesNoDeviceUnit ==
  ASSUME TypeOK, TakenIsHead, EDUInv, Dequeue,
         NEW f \in Facts(pendingEDUs), f.type \in DeviceKinds
  PROVE  f \in Facts(pendingEDUs') \cup remote.facts
  <1> DEFINE n == Len(batch.edus)
  <1>1. /\ pendingEDUs \in Seq(EDU) /\ batch.edus \in Seq(EDU) /\ n \in 0..Len(pendingEDUs)
        /\ loop = "dequeue"
    BY DEF TypeOK, QueueType, BatchType, TakenIsHead, Dequeue
  <1>2. PICK i \in 1..Len(pendingEDUs) : f \in FactsOf(pendingEDUs[i])
    BY <1>1, FactsIn
  <1>3. pendingEDUs[i].type \in DeviceKinds
    BY <1>2 DEF FactsOf
  <1>4. CASE i <= n
    <2>1. i \in 1..Len(batch.edus) /\ i \in DOMAIN batch.edus
      BY <1>1, <1>4
    <2>2. batch.edus[i].type \in DeviceKinds
      BY <1>1, <1>3, <2>1 DEF TakenIsHead, SameUnit
    <2>3. pendingEDUs[i] = batch.edus[i]
      BY <1>1, <2>1, <2>2 DEF EDUInv, DeviceUnitsAsTaken
    <2>4. f \in Facts(batch.edus)
      BY <1>1, <1>2, <2>1, <2>3, FactsIn
    <2> QED
      BY <1>1, <2>4 DEF EDUInv, EDUsDelivered
  <1>5. CASE i > n
    <2>1. /\ pendingEDUs' \in Seq(EDU) /\ Len(pendingEDUs') = Len(pendingEDUs) - n
          /\ \A k \in 1..(Len(pendingEDUs) - n) : pendingEDUs'[k] = pendingEDUs[k + n]
      BY <1>1, RestIsTail DEF Dequeue
    <2> HIDE DEF n
    <2>2. i - n \in 1..Len(pendingEDUs') /\ pendingEDUs'[i - n] = pendingEDUs[i]
      <3>1. i - n \in 1..(Len(pendingEDUs) - n) /\ (i - n) + n = i
        BY <1>1, <1>5
      <3> QED
        BY <2>1, <3>1
    <2>3. f \in Facts(pendingEDUs')
      BY <1>2, <2>1, <2>2, FactsIn
    <2> QED
      BY <2>3
  <1> QED
    BY <1>1, <1>4, <1>5

(* A step keeps every device unit accounted for if it posts nothing and    *)
(* takes none out of the queue but for one of the two ledgers.             *)
LEMMA DeviceAccountKept ==
  ASSUME EveryDeviceUnitAccounted, posted'.facts = posted.facts,
         \A f \in Facts(pendingEDUs) : f.type \in DeviceKinds => f \in Facts(pendingEDUs') \cup Gone',
         Gone \subseteq Gone'
  PROVE  EveryDeviceUnitAccounted'
  BY DEF EveryDeviceUnitAccounted, DeviceFacts, DeviceKinds, Gone

(* What a step may do to the queue and to the ledgers, seen from outside   *)
(* the loop: nothing but an enqueue, a delivery, a dequeue and an outage   *)
(* touches them.                                                           *)
LEMMA EDUFootprint ==
  ASSUME TypeOK, [Next]_vars
  PROVE  \/ Enqueue
         \/ Dequeue
         \/ /\ posted'.facts = posted.facts /\ remote'.facts = remote.facts
            /\ dropped'.facts = dropped.facts \cup (Facts(pendingEDUs) \ Facts(pendingEDUs'))
         \/ /\ UNCHANGED pendingEDUs /\ posted'.facts = posted.facts
            /\ remote.facts \subseteq remote'.facts /\ dropped'.facts = dropped.facts
  <1> USE DEF queueVars, loopVars, claimVars, history
  <1>a. /\ remote \in [pdus : SUBSET Orderings, facts : SUBSET Fact]
        /\ dropped \in [pdus : SUBSET Orderings, facts : SUBSET Fact]
    BY DEF TypeOK, HistoryType
  <1>1. CASE Wake \/ Rewake \/ AcquireSlot \/ Release
    BY <1>1 DEF Wake, Rewake, TryStart, AcquireSlot, Release, LoopTo
  <1>2. CASE Gate \/ Recheck \/ AdvanceCursor \/ ScheduleRetry \/ PersistCursor \/ Exit
    BY <1>2 DEF Gate, Recheck, LoopTo, AdvanceCursor, ScheduleRetry, PersistCursor, Exit
  <1>3. CASE RestartCatchUp \/ Take \/ ReportMarks
    BY <1>3, <1>a DEF RestartCatchUp, Take, ReportMarks
  <1>4. CASE Outage
    <2>1. CASE LongBackoff
      BY <1>4, <1>a, <2>1 DEF Outage
    <2>2. CASE ~LongBackoff
      BY <1>4, <2>2 DEF Outage
    <2> QED
      BY <2>1, <2>2
  <1>5. ASSUME NEW outcome \in Outcomes, SendOutcome(outcome)
        PROVE  /\ UNCHANGED pendingEDUs /\ posted'.facts = posted.facts
               /\ remote.facts \subseteq remote'.facts /\ dropped'.facts = dropped.facts
    BY <1>5, <1>a DEF SendOutcome
  <1>6. CASE Run
    BY <1>2, <1>3, <1>4, <1>5, <1>6 DEF Run
  <1>7. CASE \/ \E v \in Orderings \cup {0} : SetLastSuccessful(v)
             \/ FinishCatchUp \/ TakeCatchUpSkipped
             \/ \E so \in Orderings : Claim(so)
    BY <1>7 DEF SetLastSuccessful, FinishCatchUp, TakeCatchUpSkipped, CatchUpOnly, Claim
  <1>8. ASSUME NEW outcome \in Outcomes, CatchUpOutcome(outcome)
        PROVE  /\ UNCHANGED pendingEDUs /\ posted'.facts = posted.facts
               /\ remote.facts \subseteq remote'.facts /\ dropped'.facts = dropped.facts
    BY <1>8, <1>a DEF CatchUpOutcome
  <1>9. CASE CatchUpAdvance \/ CatchUpPersist \/ ReleaseClaim
    BY <1>9 DEF CatchUpAdvance, CatchUpPersist, ReleaseClaim
  <1>10. CASE TimerFires \/ HoldRunsOut \/ TimePasses \/ RemoteServerUp \/ Shutdown
    BY <1>10 DEF TimerFires, HoldRunsOut, TimePasses, BackoffOnly, RemoteServerUp, Shutdown
  <1>11. CASE UNCHANGED vars
    BY <1>11 DEF vars
  <1> QED
    BY <1>1, <1>6, <1>7, <1>8, <1>9, <1>10, <1>11 DEF Next, SendCatchUp

(* A step leaves every device unit queued, processed or shed.              *)
LEMMA DeviceAccountStep ==
  ASSUME TypeOK, TakenIsHead, EDUInv, EveryDeviceUnitAccounted, [Next]_vars
  PROVE  EveryDeviceUnitAccounted'
  <1>1. CASE Enqueue
    <2>1. UNCHANGED remote /\ dropped'.facts = dropped.facts
      BY <1>1, EnqueueExtends, EnqueueAbsorbs DEF EDUInv
    <2>2. CASE UNCHANGED pendingEDUs /\ posted'.facts = posted.facts
      BY <2>1, <2>2 DEF EveryDeviceUnitAccounted, DeviceFacts
    <2>3. ASSUME NEW x \in Fact, x.version = inputs.updates + 1,
                 posted'.facts = posted.facts \cup {x},
                 Absorbs(pendingEDUs', pendingEDUs, x)
          PROVE  EveryDeviceUnitAccounted'
      <3>1. x \in Facts(pendingEDUs')
        BY <2>3 DEF Absorbs
      <3>2. ASSUME NEW f \in Facts(pendingEDUs), f.type \in DeviceKinds
            PROVE  f \in Facts(pendingEDUs')
        <4>1. pendingEDUs \in Seq(EDU) /\ Extends(pendingEDUs', pendingEDUs)
          BY <1>1, EnqueueExtends DEF TypeOK, QueueType
        <4>2. PICK i \in 1..Len(pendingEDUs) : f \in FactsOf(pendingEDUs[i])
          BY <4>1, FactsIn
        <4>3. pendingEDUs[i].type \in DeviceKinds
          BY <3>2, <4>2 DEF FactsOf
        <4>4. pendingEDUs'[i] = pendingEDUs[i]
          BY <2>3, <4>3 DEF Absorbs
        <4>5. pendingEDUs' \in Seq(EDU) /\ i \in 1..Len(pendingEDUs')
          BY <4>1 DEF Extends
        <4> QED
          BY <4>2, <4>4, <4>5, FactsIn
      <3> QED
        BY <2>1, <2>3, <3>1, <3>2 DEF EveryDeviceUnitAccounted, DeviceFacts, DeviceKinds
    <2> QED
      BY <1>1, <2>2, <2>3, EnqueueAbsorbs DEF EDUInv
  <1>2. CASE Dequeue
    BY <1>2, DequeueLosesNoDeviceUnit, DeviceAccountKept DEF Dequeue, history, Gone
  <1>3. CASE /\ posted'.facts = posted.facts /\ remote'.facts = remote.facts
             /\ dropped'.facts = dropped.facts \cup (Facts(pendingEDUs) \ Facts(pendingEDUs'))
    BY <1>3, DeviceAccountKept DEF Gone
  <1>4. CASE /\ UNCHANGED pendingEDUs /\ posted'.facts = posted.facts
             /\ remote.facts \subseteq remote'.facts /\ dropped'.facts = dropped.facts
    BY <1>4, DeviceAccountKept DEF Gone
  <1> QED
    BY <1>1, <1>2, <1>3, <1>4, EDUFootprint

(* Every to-device and device list unit handed to EnqueueMarkedEDU is      *)
(* queued, processed by the remote or shed by dropEphemeralEDUs: no merge, *)
(* no dequeue by number and no failed send loses one.                      *)
THEOREM EveryDeviceUnitAccountedAlways == Spec => []EveryDeviceUnitAccounted
  <1>1. Init => EveryDeviceUnitAccounted
    BY DEF Init, EveryDeviceUnitAccounted, DeviceFacts
  <1> QED
    BY <1>1, QueueInvariant, EDUInvariant, DeviceAccountStep, PTL DEF Spec

(* onEDUsSent deletes outbox rows up to the highest mark of a delivered    *)
(* transaction: a row it deletes belongs to no unit that is still queued,  *)
(* whatever was appended and merged while the transaction was out.         *)
THEOREM DeletedRowsLeftTheQueueAlways == Spec => []DeletedRowsLeftTheQueue
  <1>1. TypeOK /\ EDUInv /\ EveryDeviceUnitAccounted => DeletedRowsLeftTheQueue
    <2> SUFFICES ASSUME TypeOK, EDUInv, EveryDeviceUnitAccounted, NEW f \in DeviceFacts,
                        f.version <= Consumed(f.type), f \in Facts(pendingEDUs)
                 PROVE  FALSE
      BY DEF DeletedRowsLeftTheQueue, EveryDeviceUnitAccounted, Consumed
    <2>1. f.type \in DeviceKinds
      BY DEF DeviceFacts, DeviceKinds
    <2>2. PICK i \in 1..Len(pendingEDUs) : f \in FactsOf(pendingEDUs[i])
      BY FactsIn DEF TypeOK, QueueType
    <2>3. pendingEDUs[i] \in EDU /\ pendingEDUs[i].type = f.type
      BY <2>2 DEF TypeOK, QueueType, FactsOf
    <2>4. DOMAIN pendingEDUs[i].body = {Outbox}
      BY <2>1, <2>3 DEF EDUInv, EDUsTidy, Tidy, UnitTidy
    <2>5. f.version = IdOf(pendingEDUs[i]) /\ IdOf(pendingEDUs[i]) \in Nat
      BY <2>2, <2>3, <2>4 DEF FactsOf, IdOf, EDU, Entry
    <2>6. Consumed(f.type) < IdOf(pendingEDUs[i])
      BY <2>1, <2>3 DEF EDUInv, MarksBehind, Behind
    <2>7. Consumed(f.type) \in Nat
      BY DEF Consumed, TypeOK, StoredType
    <2> QED
      BY <2>5, <2>6, <2>7
  <1> QED
    BY <1>1, QueueInvariant, EDUInvariant, EveryDeviceUnitAccountedAlways, PTL

-----------------------------------------------------------------------------
(* What a merge takes out of the queue is older than what it puts in.      *)

(* Nothing accepted yet: what is dequeued holds no EDU.                    *)
LEMMA DequeueOfNothing ==
  ASSUME TypeOK, EDUInv, Dequeue, remote.facts = {}
  PROVE  Facts(pendingEDUs') = Facts(pendingEDUs)
  <1>1. /\ pendingEDUs \in Seq(EDU) /\ batch.edus \in Seq(EDU) /\ loop = "dequeue"
        /\ Facts(batch.edus) = {} /\ pendingEDUs' = Rest(pendingEDUs, Len(batch.edus))
    BY DEF TypeOK, QueueType, BatchType, EDUInv, EDUsDelivered, Dequeue
  <1>2. ASSUME 1 \in 1..Len(batch.edus)
        PROVE  FALSE
    <2>1. DOMAIN batch.edus[1].body # {}
      BY <1>1, <1>2 DEF EDUInv, DeviceUnitsAsTaken
    <2>2. FactsOf(batch.edus[1]) # {}
      BY <2>1 DEF FactsOf
    <2> QED
      BY <1>1, <1>2, <2>2, FactsIn
  <1>3. Len(batch.edus) = 0
    BY <1>1, <1>2
  <1>4. 0 \in 0..Len(pendingEDUs) /\ Len(pendingEDUs) \in Nat
    BY <1>1
  <1>5. /\ pendingEDUs' \in Seq(EDU) /\ Len(pendingEDUs') = Len(pendingEDUs)
        /\ \A k \in 1..Len(pendingEDUs) : pendingEDUs'[k] = pendingEDUs[k]
    BY <1>1, <1>3, <1>4 DEF Rest
  <1>6. \A f : f \in Facts(pendingEDUs') <=> f \in Facts(pendingEDUs)
    BY <1>1, <1>5, FactsIn
  <1> QED
    BY <1>6

(* A step keeps the newest update of every slot, for as long as the remote *)
(* server has processed none.                                              *)
LEMMA NewestStep ==
  ASSUME TypeOK, EDUInv, MergeKeepsNewest, [Next]_vars
  PROVE  MergeKeepsNewest'
  <1> SUFFICES ASSUME remote'.facts = {}, NEW f \in posted'.facts
               PROVE  \/ \E g \in posted'.facts : Later(f, g)
                      \/ f \in Facts(pendingEDUs') \cup dropped'.facts
    BY DEF MergeKeepsNewest
  <1>1. CASE Enqueue
    <2>1. UNCHANGED remote /\ dropped'.facts = dropped.facts
      BY <1>1, EnqueueExtends, EnqueueAbsorbs DEF EDUInv
    <2>2. CASE UNCHANGED pendingEDUs /\ posted'.facts = posted.facts
      BY <2>1, <2>2 DEF MergeKeepsNewest
    <2>3. ASSUME NEW x \in Fact, x.version = inputs.updates + 1,
                 posted'.facts = posted.facts \cup {x},
                 Absorbs(pendingEDUs', pendingEDUs, x)
          PROVE  \/ \E g \in posted'.facts : Later(f, g)
                 \/ f \in Facts(pendingEDUs') \cup dropped'.facts
      <3>1. CASE f = x
        BY <2>3, <3>1 DEF Absorbs
      <3>2. CASE f \in Facts(pendingEDUs) /\ f \in posted.facts /\ SameSlot(f, x)
        <4>1. f.version <= inputs.updates /\ f.version \in Nat /\ inputs.updates \in Nat
          BY <3>2 DEF EDUInv, EDUsTidy, TypeOK, HistoryType, InputsType, Fact
        <4>2. f.version < x.version
          BY <2>3, <4>1
        <4>3. Later(f, x)
          BY <3>2, <4>2 DEF Later, SameSlot
        <4> QED
          BY <2>3, <4>3
      <3>3. CASE f \in posted.facts /\ ~SameSlot(f, x)
        BY <2>1, <2>3, <3>3 DEF MergeKeepsNewest, Absorbs
      <3>4. CASE f \in posted.facts /\ f \notin Facts(pendingEDUs)
        BY <2>1, <2>3, <3>4 DEF MergeKeepsNewest
      <3> QED
        BY <2>3, <3>1, <3>2, <3>3, <3>4
    <2> QED
      BY <1>1, <2>2, <2>3, EnqueueAbsorbs DEF EDUInv
  <1>2. CASE Dequeue
    <2>1. UNCHANGED <<remote, posted, dropped>>
      BY <1>2 DEF Dequeue, history
    <2> QED
      BY <1>2, <2>1, DequeueOfNothing DEF MergeKeepsNewest
  <1>3. CASE /\ posted'.facts = posted.facts /\ remote'.facts = remote.facts
             /\ dropped'.facts = dropped.facts \cup (Facts(pendingEDUs) \ Facts(pendingEDUs'))
    BY <1>3 DEF MergeKeepsNewest
  <1>4. CASE /\ UNCHANGED pendingEDUs /\ posted'.facts = posted.facts
             /\ remote.facts \subseteq remote'.facts /\ dropped'.facts = dropped.facts
    BY <1>4 DEF MergeKeepsNewest
  <1> QED
    BY <1>1, <1>2, <1>3, <1>4, EDUFootprint

(* ReplaceKeyed, MergeReceipt and MergePresence take an update out of the  *)
(* queue only for a newer one of the same slot: until the remote processed *)
(* a first transaction the newest of every slot is queued or was shed.     *)
THEOREM MergeKeepsNewestAlways == Spec => []MergeKeepsNewest
  <1>1. Init => MergeKeepsNewest
    BY DEF Init, MergeKeepsNewest
  <1> QED
    BY <1>1, QueueInvariant, EDUInvariant, NewestStep, PTL DEF Spec

-----------------------------------------------------------------------------
(* Held presence.  SendCatchUp alone can close the gate on a hold, so all  *)
(* of this is about a destination no catch-up transaction was sent to.     *)

(* A hold is entered past an open gate, and nothing but an answer closes   *)
(* the gate again.                                                         *)
GateStaysOpen == heldSince # "zero" \/ loop = "take" => Due

(* No answer comes during a hold: Take ends it before it sends.            *)
HoldIsQuiet == heldSince # "zero" => loop \in {"idle", "slot", "gate", "take", "exit"}

(* What will flush it.  A loop on its way to Take counts.                  *)
HoldWillEnd ==
  heldSince # "zero" /\ ~stopping =>
    holdTimer # "none" \/ wakers > 0 \/ newData \/ loop \in {"slot", "gate", "take"}

HoldInv ==
  inputs.catchUps = 0 => claim = "none" /\ GateStaysOpen /\ HoldIsQuiet /\ HoldWillEnd

(* The steps that change neither the limiter nor a hold nor the loop: they *)
(* may only add a waker or set newData.                                    *)
LEMMA HoldUntouched ==
  ASSUME HoldInv, UNCHANGED <<holdTimer, heldSince, loop, claim, backoff>>,
         inputs'.catchUps = inputs.catchUps, wakers \in Nat, wakers' \in Nat,
         wakers <= wakers', newData => newData', stopping => stopping'
  PROVE  HoldInv'
  BY DEF HoldInv, GateStaysOpen, HoldIsQuiet, HoldWillEnd, Due

(* The producers.                                                          *)
LEMMA HoldEnqueue ==
  ASSUME TypeOK, HoldInv, Enqueue
  PROVE  HoldInv'
  <1>1. /\ inputs \in [events : Nat, updates : Nat, catchUps : Nat, serverUps : Nat]
        /\ wakers \in Nat /\ newData \in BOOLEAN
    BY DEF TypeOK, InputsType, StepType, FlagType
  <1>2. /\ UNCHANGED <<holdTimer, heldSince, loop, claim, backoff, stopping>>
        /\ wakers' = wakers + 1
    BY DEF Enqueue, EnqueuePDU, EnqueueMarkedEDU, EnqueueKeyedEDU, EnqueueReceipt,
           EnqueuePresence, Post, holdVars, loopVars, claimVars
  <1>3. newData => newData'
    BY DEF Enqueue, EnqueuePDU, EnqueueMarkedEDU, EnqueueKeyedEDU, EnqueueReceipt,
           EnqueuePresence, Post
  <1>4. inputs'.catchUps = inputs.catchUps
    BY <1>1 DEF Enqueue, EnqueuePDU, EnqueueMarkedEDU, EnqueueKeyedEDU, EnqueueReceipt,
           EnqueuePresence, Post
  <1> QED
    BY <1>1, <1>2, <1>3, <1>4, HoldUntouched

(* The limiter opens a gate of its own accord and on REMOTE_SERVER_UP; it  *)
(* never closes it.                                                        *)
LEMMA DueKept ==
  ASSUME backoff \in BackoffType, Due, WaitRunsOut \/ CooldownRunsOut \/ Recovered
  PROVE  Due'
  <1>1. CASE WaitRunsOut \/ CooldownRunsOut
    BY <1>1 DEF Due, WaitRunsOut, CooldownRunsOut, BackoffType
  <1>2. CASE Recovered
    <2>1. CASE UNCHANGED backoff
      BY <2>1 DEF Due
    <2>2. ASSUME NEW i, NEW w \in {backoff.waiting, FALSE}, NEW r,
                 backoff' = [interval |-> i, waiting |-> w, refused |-> r,
                             cooling |-> backoff.cooling]
          PROVE  Due'
      <3>1. backoff'.waiting = w /\ backoff'.cooling = backoff.cooling
        BY <2>2
      <3>2. ~w
        BY <2>2, Zenon DEF Due
      <3> QED
        BY <3>1, <3>2, Zenon DEF Due
    <2> QED
      BY <1>2, <2>1, <2>2 DEF Recovered
  <1> QED
    BY <1>1, <1>2

(* The loop's steps up to the send, and the wake-ups that start it.        *)
LEMMA HoldLoop ==
  ASSUME TypeOK, OneTransaction, HoldInv,
         Wake \/ AcquireSlot \/ Release \/ Gate \/ Take \/ Exit
  PROVE  HoldInv'
  <1> USE DEF HoldInv, GateStaysOpen, HoldIsQuiet, HoldWillEnd
  <1>0. UNCHANGED <<inputs, claim, backoff>> /\ Due' = Due
    BY DEF Wake, TryStart, AcquireSlot, Release, LoopTo, Gate, Take, Exit, claimVars, Due
  <1>1. CASE Wake
    <2>1. running => loop # "idle" \/ claim # "none"
      BY DEF OneTransaction
    <2>2. ~running => loop = "idle"
      BY DEF OneTransaction
    <2> QED
      BY <1>0, <1>1, <2>1, <2>2 DEF Wake, TryStart, holdVars
  <1>2. CASE AcquireSlot \/ Release
    BY <1>0, <1>2 DEF AcquireSlot, Release, LoopTo, holdVars, queueVars
  <1>3. CASE Gate
    BY <1>0, <1>3 DEF Gate, LoopTo, holdVars, queueVars
  <1>4. CASE Take
    BY <1>0, <1>4 DEF Take, ScheduleFlush
  <1>5. CASE Exit
    BY <1>0, <1>5 DEF Exit, holdVars
  <1> QED
    BY <1>1, <1>2, <1>3, <1>4, <1>5

(* Every other step of the loop is one no hold lives to see.               *)
LEMMA HoldOver ==
  ASSUME HoldInv, UNCHANGED <<heldSince, claim>>, inputs'.catchUps = inputs.catchUps,
         loop \notin {"idle", "slot", "gate", "take", "exit"}, loop' # "take"
  PROVE  HoldInv'
  BY DEF HoldInv, GateStaysOpen, HoldIsQuiet, HoldWillEnd

(* A step keeps what a hold rests on.                                      *)
LEMMA HoldStep ==
  ASSUME TypeOK, OneTransaction, HoldInv, [Next]_vars
  PROVE  HoldInv'
  <1> USE DEF holdVars, loopVars, claimVars
  <1>a. /\ inputs \in [events : Nat, updates : Nat, catchUps : Nat, serverUps : Nat]
        /\ wakers \in Nat /\ backoff \in BackoffType
    BY DEF TypeOK, InputsType, StepType
  <1>1. CASE Outage \/ RestartCatchUp \/ Recheck \/ ScheduleRetry \/ Dequeue
             \/ ReportMarks \/ AdvanceCursor \/ PersistCursor
    BY <1>1, HoldOver DEF Outage, RestartCatchUp, Recheck, LoopTo, ScheduleRetry,
       Dequeue, ReportMarks, AdvanceCursor, PersistCursor
  <1>2. CASE \E outcome \in Outcomes : SendOutcome(outcome)
    BY <1>2, HoldOver DEF SendOutcome
  <1>3. CASE Run
    BY <1>1, <1>2, <1>3, HoldLoop DEF Run
  <1>4. CASE \/ \E v \in Orderings \cup {0} : SetLastSuccessful(v)
             \/ FinishCatchUp \/ TakeCatchUpSkipped
    BY <1>4, <1>a, HoldUntouched DEF SetLastSuccessful, FinishCatchUp, TakeCatchUpSkipped,
       CatchUpOnly, queueVars
  <1>5. CASE inputs' = [inputs EXCEPT !.catchUps = @ + 1]
    <2>1. inputs'.catchUps # 0
      BY <1>5, <1>a
    <2> QED
      BY <2>1 DEF HoldInv
  <1>6. CASE SendCatchUp
    <2>1. claim # "none" /\ UNCHANGED inputs
      BY <1>6 DEF SendCatchUp, CatchUpOutcome, CatchUpAdvance, CatchUpPersist, ReleaseClaim,
         Rewake, TryStart
    <2> QED
      BY <2>1 DEF HoldInv
  <1>7. CASE TimerFires
    <2>1. wakers' > 0 /\ UNCHANGED <<heldSince, loop, claim, backoff, inputs>>
      BY <1>7, <1>a DEF TimerFires
    <2> QED
      BY <2>1 DEF HoldInv, GateStaysOpen, HoldIsQuiet, HoldWillEnd, Due
  <1>8. CASE HoldRunsOut
    BY <1>8 DEF HoldRunsOut, queueVars, HoldInv, GateStaysOpen, HoldIsQuiet, HoldWillEnd, Due
  <1>9. ASSUME UNCHANGED <<heldSince, holdTimer, loop, claim, newData, stopping>>,
               wakers' \in {wakers, wakers + 1}, inputs'.catchUps = inputs.catchUps,
               WaitRunsOut \/ CooldownRunsOut \/ Recovered
        PROVE  HoldInv'
    <2>1. Due => Due'
      BY <1>9, <1>a, DueKept
    <2>2. wakers > 0 => wakers' > 0
      BY <1>9, <1>a
    <2> QED
      BY <1>9, <2>1, <2>2 DEF HoldInv, GateStaysOpen, HoldIsQuiet, HoldWillEnd
  <1>10. CASE TimePasses
    BY <1>9, <1>10 DEF TimePasses, BackoffOnly, queueVars
  <1>11. CASE RemoteServerUp
    <2>1. inputs'.catchUps = inputs.catchUps
      BY <1>11, <1>a DEF RemoteServerUp
    <2> QED
      BY <1>9, <1>11, <2>1 DEF RemoteServerUp, queueVars
  <1>12. CASE Shutdown \/ UNCHANGED vars
    BY <1>12, <1>a, HoldUntouched DEF Shutdown, vars, queueVars
  <1> QED
    BY <1>3, <1>4, <1>5, <1>6, <1>7, <1>8, <1>10, <1>11, <1>12, HoldEnqueue, HoldLoop DEF Next

(* The flush timer serves the presence hold and the 429 retry, and only    *)
(* one is ever armed: held presence is still never without one, or without *)
(* a wake-up that is due or was handed to a leaving loop.                  *)
THEOREM HeldPresenceHasTimerAlways == Spec => []HeldPresenceHasTimer
  <1>1. Init => HoldInv
    BY DEF Init, HoldInv, GateStaysOpen, HoldIsQuiet, HoldWillEnd
  <1>2. OneTransaction /\ HoldInv => HeldPresenceHasTimer
    <2>1. OneTransaction /\ ~running => loop = "idle"
      BY DEF OneTransaction
    <2> QED
      BY <2>1 DEF HoldInv, HoldWillEnd, HeldPresenceHasTimer
  <1> QED
    BY <1>1, <1>2, QueueInvariant, OneTransactionAlways, HoldStep, PTL DEF Spec
=============================================================================
