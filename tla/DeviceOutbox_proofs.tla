------------------------ MODULE DeviceOutbox_proofs ------------------------
(* Proofs about DeviceOutbox.tla, for every number of users, goroutines,   *)
(* rows and failures and every size of batch and transaction: the cursor   *)
(* passes no row that is not queued, a deletion takes no row the server    *)
(* has not processed, and prev_id names an update sent before.             *)
EXTENDS DeviceOutbox, TLAPS, SequenceTheorems, FiniteSetTheorems, WellFoundedInduction

-----------------------------------------------------------------------------
(* The inductive invariant.                                                *)

(* What the server has, or need not get any more.                          *)
Done == [k \in Kinds |-> received[k] \cup excused[k]]

(* What it has or is about to be sent.                                     *)
Has == [k \in Kinds |-> Done[k] \cup Carried(queue, k)]

(* What the first n units carry.                                           *)
CarriedTo(units, n, k) == UNION {units[i].rows : i \in {j \in 1..n : units[j].kind = k}}

(* No row of our server among the first n of the table t is missing in S.  *)
Covered(t, n, S) == n <= Len(t) /\ \A id \in 1..n : t[id].mine => id \in S

(* A mark covers what is sent up to and with its own unit.                 *)
MarksIn(q, T, D) ==
  \A i \in 1..Len(q) :
    Covered(T[q[i].kind], q[i].upTo, D[q[i].kind] \cup CarriedTo(q, i, q[i].kind))

(* The units of a batch: the last one is marked with its end.              *)
Batch(units, k, next) ==
  \A i \in 1..Len(units) :
    units[i].kind = k /\ units[i].upTo = IF i = Len(units) THEN next ELSE 0

(* A goroutine goes on where the cursor c was, or is by now further, and   *)
(* covers the range up to next with what it has in hand.                   *)
Covers(d, t, c, S) ==
  /\ d.at \in {"cursor", "read"} => d.current <= Len(t)
  /\ d.at \in {"read", "build"} => d.last <= c
  /\ d.at = "build" => /\ d.kind = "deviceLists" /\ d.rows # {}
                       /\ d.rows \subseteq 1..Len(t)
                       /\ Covered(t, d.next, S \cup d.rows)
  /\ d.at = "queue" => /\ d.units # <<>> /\ Batch(d.units, d.kind, d.next)
                       /\ Covered(t, d.next, S \cup Carried(d.units, d.kind))
  /\ d.at = "set" => Covered(t, d.next, S)

(* Both tables fit the bound, and a poke is about a user.                  *)
TablesBounded ==
  /\ Len(table["toDevice"]) + Len(table["deviceLists"]) <= MaxRows
  /\ \A id \in 1..Len(table["deviceLists"]) : table["deviceLists"][id].user \in Users

CursorCovered == \A k \in Kinds : Covered(table[k], cursor[k], Has[k])

DeletingCovered == \A k \in Kinds : Covered(table[k], deleting[k], Done[k])

MarksCovered == MarksIn(queue, table, Done)

ReaderCovers(r) ==
  Covers(reader[r], table[reader[r].kind], cursor[reader[r].kind], Has[reader[r].kind])

ReadersCover == \A r \in Readers : ReaderCovers(r)

(* A unit's prev_id names a poke of its user in S.                         *)
Refers(e, t, S) ==
  e.prev # 0 => /\ e.kind = "deviceLists" /\ e.prev \in 1..Len(t)
                /\ t[e.prev].user = e.user /\ e.prev \in S

(* Each unit refers to S or to a unit in front of it.                      *)
RefersIn(units, t, S) ==
  \A i \in 1..Len(units) :
    Refers(units[i], t, S \cup CarriedTo(units, i - 1, "deviceLists"))

LastWasSent ==
  \A u \in Users : lastSuccess[u] # 0 =>
    /\ lastSuccess[u] \in 1..Len(table["deviceLists"])
    /\ table["deviceLists"][lastSuccess[u]].user = u
    /\ lastSuccess[u] \in Done["deviceLists"]

QueueRefers == RefersIn(queue, table["deviceLists"], Done["deviceLists"])

UnitsRefer ==
  \A r \in Readers : reader[r].at = "queue" =>
    RefersIn(reader[r].units, table["deviceLists"], Has["deviceLists"])

OutboxInv == /\ OutboxTypeOK /\ TablesBounded /\ DeletedWasReceived
             /\ CursorCovered /\ DeletingCovered /\ MarksCovered /\ ReadersCover
             /\ LastWasSent /\ QueueRefers /\ UnitsRefer

-----------------------------------------------------------------------------
(* Finite sets of row numbers, and sets as sequences.                      *)

(* A set of natural numbers that is not empty has a smallest element.      *)
LEMMA SmallestExists ==
  ASSUME NEW T \in SUBSET Nat, T # {}
  PROVE  \E x \in T : \A y \in T : x <= y
  <1>1. \E x \in T : \A y \in T : ~(<<y, x>> \in OpToRel(<, Nat))
    BY NatLessThanWellFounded, WFMin
  <1>2. PICK x \in T : \A y \in T : ~(<<y, x>> \in OpToRel(<, Nat))
    BY <1>1
  <1>3. ASSUME NEW y \in T PROVE x <= y
    <2>1. ~(y < x)
      BY <1>2 DEF OpToRel
    <2> QED
      BY <2>1
  <1> QED
    BY <1>3


(* The largest of a set of row numbers is one of them, and no other is     *)
(* larger.                                                                 *)
LEMMA MaxIsMember ==
  ASSUME NEW n \in Nat, NEW S \in SUBSET (0..n), S # {}
  PROVE  Max(S) \in S /\ \A k \in S : Max(S) >= k
  <1> DEFINE T == {n - j : j \in S}
  <1>1. T \in SUBSET Nat /\ T # {}
    <2>1. \A j \in S : n - j \in Nat
      OBVIOUS
    <2>2. T \in SUBSET Nat
      BY <2>1
    <2>3. PICK j \in S : TRUE
      OBVIOUS
    <2>4. n - j \in T
      BY <2>3
    <2> QED
      BY <2>2, <2>4
  <1>2. PICK x \in T : \A y \in T : x <= y
    BY <1>1, SmallestExists
  <1>3. PICK j \in S : x = n - j
    BY <1>2
  <1>4. ASSUME NEW k \in S PROVE j >= k
    <2>1. n - k \in T
      OBVIOUS
    <2>2. n - j <= n - k
      BY <1>2, <1>3, <2>1
    <2> QED
      BY <2>2
  <1> QED
    BY <1>4 DEF Max

(* A finite set as a sequence of its elements, each of them once.          *)
LEMMA SetToSeqIs ==
  ASSUME NEW S, IsFiniteSet(S)
  PROVE  /\ Cardinality(S) \in Nat
         /\ SetToSeq(S) \in [1..Cardinality(S) -> S]
         /\ \A i, j \in 1..Cardinality(S) : SetToSeq(S)[i] = SetToSeq(S)[j] => i = j
         /\ \A x \in S : \E i \in 1..Cardinality(S) : SetToSeq(S)[i] = x
  <1> DEFINE n == Cardinality(S)
             f == SetToSeq(S)
  <1>1. n \in Nat /\ ExistsBijection(1..n, S)
    BY FS_CardinalityType
  <1>2. \E g \in [1..n -> S] : IsInjective(g)
    BY <1>1 DEF ExistsBijection, Bijection, Injection, IsInjective
  <1>3. f \in [1..n -> S] /\ IsInjective(f)
    BY <1>1, <1>2 DEF SetToSeq
  <1> HIDE DEF f, n
  <1>4. \A i, j \in 1..n : f[i] = f[j] => i = j
    BY <1>3 DEF IsInjective
  <1>5. f \in Injection(1..n, S)
    BY <1>3 DEF Injection, IsInjective
  <1>6. Cardinality(1..n) = Cardinality(S)
    BY <1>1, FS_Interval DEF n
  <1>7. f \in Surjection(1..n, S)
    BY <1>5, <1>6, FS_Injection
  <1>8. \A x \in S : \E i \in 1..n : f[i] = x
    BY <1>7 DEF Surjection
  <1> QED
    BY <1>1, <1>3, <1>4, <1>8 DEF f, n


(* Every order of a finite set has each of its elements.                   *)
LEMMA SeqsAre ==
  ASSUME NEW S, IsFiniteSet(S), NEW f \in SetToSeqs(S)
  PROVE  /\ f \in Seq(S) /\ Len(f) = Cardinality(S) /\ DOMAIN f = 1..Len(f)
         /\ \A i \in 1..Len(f) : f[i] \in S
         /\ \A x \in S : \E i \in 1..Len(f) : f[i] = x
  <1> DEFINE n == Cardinality(S)
  <1>1. n \in Nat
    BY FS_CardinalityType
  <1>2. f \in [1..n -> S] /\ \A i, j \in 1..n : i # j => f[i] # f[j]
    BY DEF SetToSeqs
  <1> HIDE DEF n
  <1>3. f \in Injection(1..n, S)
    BY <1>2 DEF Injection, IsInjective
  <1>4. Cardinality(1..n) = n
    BY <1>1, FS_Interval
  <1>5. f \in Surjection(1..n, S)
    BY <1>3, <1>4, FS_Injection DEF n
  <1>6. f \in Seq(S) /\ Len(f) = n
    BY <1>1, <1>2
  <1>7. \A x \in S : \E i \in 1..n : f[i] = x
    BY <1>5 DEF Surjection
  <1> QED
    BY <1>2, <1>6, <1>7 DEF n

(* The first EDUsPerRead rows of a set: nothing is left out below one of   *)
(* them, and if they are fewer, nothing is left out.                       *)
LEMMA LimitedIs ==
  ASSUME NEW n \in Nat, NEW S \in SUBSET (1..n)
  PROVE  /\ Limited(S) \subseteq S
         /\ IsFiniteSet(S) /\ IsFiniteSet(Limited(S)) /\ Cardinality(Limited(S)) \in Nat
         /\ \A a \in S : \A b \in Limited(S) : a <= b => a \in Limited(S)
         /\ Cardinality(Limited(S)) < EDUsPerRead => Limited(S) = S
         /\ Limited(S) = {} => S = {}
  <1> DEFINE Below(x) == {j \in S : j < x}
             L == Limited(S)
  <1>0. S \subseteq Nat /\ \A x \in S : x \in Nat
    OBVIOUS
  <1>1. IsFiniteSet(S)
    <2>1. IsFiniteSet(1..n)
      BY FS_Interval
    <2> QED
      BY <2>1, FS_Subset
  <1>2. L \subseteq S
    BY DEF Limited
  <1>3. IsFiniteSet(L) /\ Cardinality(L) \in Nat
    BY <1>1, <1>2, FS_Subset, FS_CardinalityType
  <1>4. \A x : IsFiniteSet(Below(x)) /\ Cardinality(Below(x)) \in Nat
    BY <1>1, FS_Subset, FS_CardinalityType
  <1>5. \A x \in S : x \in L <=> Cardinality(Below(x)) < EDUsPerRead
    BY DEF Limited
  <1> HIDE DEF L
  <1>6. ASSUME NEW a \in S, NEW b \in L, a <= b PROVE a \in L
    <2>1. Below(a) \subseteq Below(b)
      <3>1. a \in Nat /\ b \in Nat
        BY <1>0, <1>2
      <3>2. \A j \in S : j < a => j < b
        BY <1>0, <1>6, <3>1
      <3> QED
        BY <3>2
    <2>2. Cardinality(Below(a)) <= Cardinality(Below(b))
      BY <1>4, <2>1, FS_Subset
    <2>3. Cardinality(Below(b)) < EDUsPerRead
      BY <1>2, <1>5
    <2>4. Cardinality(Below(a)) < EDUsPerRead
      BY <1>4, <2>2, <2>3, DeviceOutboxAssumption
    <2> QED
      BY <1>5, <2>4
  <1>7. ASSUME Cardinality(L) < EDUsPerRead PROVE L = S
    <2>1. SUFFICES ASSUME S \ L # {} PROVE FALSE
      BY <1>2
    <2>2. S \ L \in SUBSET Nat
      BY <1>0
    <2>3. PICK x \in S \ L : \A y \in S \ L : x <= y
      BY <2>1, <2>2, SmallestExists
    <2>4. Below(x) \subseteq L
      <3>1. \A j \in S : j < x => ~(x <= j)
        BY <1>0
      <3> QED
        BY <2>3, <3>1
    <2>5. Cardinality(Below(x)) <= Cardinality(L)
      BY <1>3, <2>4, FS_Subset
    <2>6. Cardinality(Below(x)) < EDUsPerRead
      BY <1>3, <1>4, <1>7, <2>5, DeviceOutboxAssumption
    <2> QED
      BY <1>5, <2>3, <2>6
  <1>8. ASSUME L = {} PROVE S = {}
    <2>1. Cardinality(L) < EDUsPerRead
      BY <1>8, FS_EmptySet, DeviceOutboxAssumption
    <2> QED
      BY <1>7, <1>8, <2>1
  <1> QED
    BY <1>1, <1>2, <1>3, <1>6, <1>7, <1>8 DEF L
(* The fields of rows, units and goroutines, for the provers.              *)
LEMMA RowFields ==
  ASSUME NEW w \in Rows
  PROVE  /\ w.state \in {"open", "in", "gone"} /\ w.mine \in BOOLEAN
         /\ w.user \in Users \cup {NoUser} /\ w.key \in BOOLEAN
  BY DEF Rows

LEMMA UnitFields ==
  ASSUME NEW e \in Units
  PROVE  /\ e.kind \in Kinds /\ e.rows \in SUBSET Ids /\ e.user \in Users \cup {NoUser}
         /\ e.prev \in 0..MaxRows /\ e.upTo \in 0..MaxRows
         /\ e.prev \in Nat /\ e.upTo \in Nat
  BY DeviceOutboxAssumption DEF Units

LEMMA ReaderFields ==
  ASSUME NEW d \in ReaderStates
  PROVE  /\ d.kind \in Kinds
         /\ d.at \in {"idle", "cursor", "read", "build", "queue", "set"}
         /\ d.current \in 0..MaxRows /\ d.last \in 0..MaxRows /\ d.next \in 0..MaxRows
         /\ d.current \in Nat /\ d.last \in Nat /\ d.next \in Nat
         /\ d.rows \in SUBSET Ids /\ d.units \in Seq(Units)
  BY DeviceOutboxAssumption DEF ReaderStates

LEMMA IdleIs == Idle \in ReaderStates /\ Idle.at = "idle" /\ Idle.units = <<>> /\ Idle.kind = "toDevice"
  BY DeviceOutboxAssumption DEF Idle, ReaderStates, Kinds, Ids

LEMMA KindsAre == "toDevice" \in Kinds /\ "deviceLists" \in Kinds
                  /\ \A k \in Kinds : k = "toDevice" \/ k = "deviceLists"
  BY DEF Kinds

-----------------------------------------------------------------------------
(* What units carry.                                                       *)

LEMMA CarriedIs ==
  ASSUME NEW q \in Seq(Units), NEW k, NEW id
  PROVE  id \in Carried(q, k) <=> \E i \in 1..Len(q) : q[i].kind = k /\ id \in q[i].rows
  <1>1. DOMAIN q = 1..Len(q)
    OBVIOUS
  <1> QED
    BY <1>1 DEF Carried

LEMMA CarriedToIs ==
  ASSUME NEW q, NEW n, NEW k, NEW id
  PROVE  id \in CarriedTo(q, n, k) <=> \E i \in 1..n : q[i].kind = k /\ id \in q[i].rows
  BY DEF CarriedTo

LEMMA CarriedToAll ==
  ASSUME NEW q \in Seq(Units), NEW k
  PROVE  CarriedTo(q, Len(q), k) = Carried(q, k)
  BY DEF CarriedTo, Carried

(* Units carry rows.                                                       *)
LEMMA CarriedTyped ==
  ASSUME NEW q \in Seq(Units), NEW k
  PROVE  Carried(q, k) \in SUBSET Ids
  <1>1. ASSUME NEW id \in Carried(q, k) PROVE id \in Ids
    <2>1. PICK i \in 1..Len(q) : id \in q[i].rows
      BY CarriedIs
    <2>2. q[i] \in Units
      OBVIOUS
    <2> QED
      BY <2>1, <2>2, UnitFields
  <1> QED
    BY <1>1

(* More units carry more.                                                  *)
LEMMA CarriedToGrows ==
  ASSUME NEW q, NEW i \in Nat, NEW j \in Nat, i <= j, NEW k
  PROVE  CarriedTo(q, i, k) \subseteq CarriedTo(q, j, k)
  <1>1. 1..i \subseteq 1..j
    OBVIOUS
  <1> QED
    BY <1>1 DEF CarriedTo

(* A unit at the end of the queue.                                         *)
LEMMA CarriedAppended ==
  ASSUME NEW q \in Seq(Units), NEW e \in Units
  PROVE  /\ Append(q, e) \in Seq(Units) /\ Len(Append(q, e)) = Len(q) + 1
         /\ Append(q, e)[Len(q) + 1] = e /\ \A i \in 1..Len(q) : Append(q, e)[i] = q[i]
         /\ \A k : Carried(q, k) \subseteq Carried(Append(q, e), k)
         /\ e.rows \subseteq Carried(Append(q, e), e.kind)
         /\ \A k : \A i \in 0..Len(q) : CarriedTo(Append(q, e), i, k) = CarriedTo(q, i, k)
         /\ CarriedTo(Append(q, e), Len(q) + 1, e.kind) = Carried(q, e.kind) \cup e.rows
  <1> DEFINE p == Append(q, e)
  <1>1. /\ p \in Seq(Units) /\ Len(p) = Len(q) + 1 /\ Len(q) \in Nat
        /\ p[Len(q) + 1] = e /\ \A i \in 1..Len(q) : p[i] = q[i]
    BY AppendProperties
  <1> HIDE DEF p
  <1>2. ASSUME NEW k, NEW id, NEW i \in 0..Len(q)
        PROVE  id \in CarriedTo(p, i, k) <=> id \in CarriedTo(q, i, k)
    <2>1. \A j \in 1..i : p[j] = q[j]
      BY <1>1
    <2> QED
      BY <2>1, CarriedToIs
  <1>3. ASSUME NEW k PROVE Carried(q, k) \subseteq Carried(p, k)
    <2>1. \A i \in 1..Len(q) : i \in 1..Len(p) /\ p[i] = q[i]
      BY <1>1
    <2> QED
      BY <1>1, <2>1, CarriedIs
  <1>4. e.rows \subseteq Carried(p, e.kind)
    <2>1. Len(q) + 1 \in 1..Len(p)
      BY <1>1
    <2> QED
      BY <1>1, <2>1, CarriedIs
  <1>5. Carried(p, e.kind) \subseteq Carried(q, e.kind) \cup e.rows
    <2> SUFFICES ASSUME NEW id \in Carried(p, e.kind), id \notin e.rows
                 PROVE  id \in Carried(q, e.kind)
      OBVIOUS
    <2>1. PICK i \in 1..Len(p) : p[i].kind = e.kind /\ id \in p[i].rows
      BY <1>1, CarriedIs
    <2>2. i \in 1..Len(q)
      BY <1>1, <2>1
    <2> QED
      BY <1>1, <2>1, <2>2, CarriedIs
  <1>6. CarriedTo(p, Len(q) + 1, e.kind) = Carried(p, e.kind)
    BY <1>1, CarriedToAll
  <1>7. \A k : \A i \in 0..Len(q) : CarriedTo(p, i, k) = CarriedTo(q, i, k)
    <2> SUFFICES ASSUME NEW k, NEW i \in 0..Len(q)
                 PROVE  CarriedTo(p, i, k) = CarriedTo(q, i, k)
      OBVIOUS
    <2>1. \A id : id \in CarriedTo(p, i, k) <=> id \in CarriedTo(q, i, k)
      BY <1>2
    <2> QED
      BY <2>1
  <1>8. \A k : Carried(q, k) \subseteq Carried(p, k)
    BY <1>3
  <1>9. Carried(p, e.kind) = Carried(q, e.kind) \cup e.rows
    BY <1>4, <1>5, <1>8
  <1> QED
    BY <1>1, <1>4, <1>6, <1>7, <1>8, <1>9 DEF p

(* The first unit, and the others.                                         *)
LEMMA CarriedHead ==
  ASSUME NEW q \in Seq(Units), q # <<>>, NEW k, q[1].kind = k
  PROVE  /\ Carried(q, k) \subseteq q[1].rows \cup Carried(Tail(q), k)
         /\ \A i \in 1..Len(Tail(q)) :
              CarriedTo(q, i, k) \subseteq q[1].rows \cup CarriedTo(Tail(q), i - 1, k)
  <1> DEFINE p == Tail(q)
  <1>1. Len(q) >= 1 /\ Len(q) \in Nat
    BY EmptySeq
  <1>2. /\ p \in Seq(Units) /\ Len(p) = Len(q) - 1
        /\ \A i \in 1..Len(p) : p[i] = q[i + 1]
    BY <1>1
  <1> HIDE DEF p
  <1>3. ASSUME NEW n \in 0..Len(p), NEW id \in CarriedTo(q, n + 1, k), id \notin q[1].rows
        PROVE  id \in CarriedTo(p, n, k)
    <2>1. PICK j \in 1..(n + 1) : q[j].kind = k /\ id \in q[j].rows
      BY CarriedToIs
    <2>2. j # 1
      BY <1>3, <2>1
    <2>3. j - 1 \in 1..n /\ j - 1 \in 1..Len(p) /\ (j - 1) + 1 = j
      BY <1>1, <1>2, <2>2
    <2>4. p[j - 1] = q[j]
      BY <1>2, <2>3
    <2> QED
      BY <2>1, <2>3, <2>4, CarriedToIs
  <1>4. Len(p) \in 0..Len(p) /\ Len(p) + 1 = Len(q)
    BY <1>1, <1>2
  <1>5. Carried(q, k) \subseteq q[1].rows \cup Carried(p, k)
    <2>1. Carried(q, k) = CarriedTo(q, Len(p) + 1, k) /\ Carried(p, k) = CarriedTo(p, Len(p), k)
      BY <1>2, <1>4, CarriedToAll
    <2> QED
      BY <1>3, <1>4, <2>1
  <1>6. ASSUME NEW i \in 1..Len(p)
        PROVE  CarriedTo(q, i, k) \subseteq q[1].rows \cup CarriedTo(p, i - 1, k)
    <2>1. i - 1 \in 0..Len(p) /\ (i - 1) + 1 = i
      BY <1>2
    <2> QED
      BY <1>3, <2>1
  <1> QED
    BY <1>5, <1>6 DEF p

(* The units a transaction takes, and those behind them.                   *)
LEMMA CarriedCut ==
  ASSUME NEW q \in Seq(Units), NEW n \in 0..Len(q), NEW k
  PROVE  LET a == SubSeq(q, 1, n)
             b == SubSeq(q, n + 1, Len(q))
         IN  /\ a \in Seq(Units) /\ Len(a) = n /\ \A i \in 1..n : a[i] = q[i]
             /\ b \in Seq(Units) /\ Len(b) = Len(q) - n
             /\ \A i \in 1..Len(b) : b[i] = q[n + i]
             /\ Carried(a, k) = CarriedTo(q, n, k)
             /\ Carried(q, k) \subseteq Carried(a, k) \cup Carried(b, k)
             /\ \A i \in 0..Len(b) :
                  CarriedTo(q, n + i, k) \subseteq Carried(a, k) \cup CarriedTo(b, i, k)
  <1> DEFINE a == SubSeq(q, 1, n)
             b == SubSeq(q, n + 1, Len(q))
  <1>1. Len(q) \in Nat /\ n \in Nat /\ n <= Len(q)
    OBVIOUS
  <1>2. a \in Seq(Units) /\ Len(a) = n /\ \A i \in 1..n : a[i] = q[i]
    BY <1>1
  <1>3. /\ b \in Seq(Units) /\ Len(b) = Len(q) - n
        /\ \A i \in 1..Len(b) : b[i] = q[n + i]
    BY <1>1
  <1> HIDE DEF a, b
  <1>4. Carried(a, k) = CarriedTo(q, n, k)
    <2>1. ASSUME NEW id PROVE id \in Carried(a, k) <=> id \in CarriedTo(q, n, k)
      BY <1>2, CarriedIs, CarriedToIs
    <2> QED
      BY <2>1
  <1>5. ASSUME NEW i \in 0..Len(b), NEW id \in CarriedTo(q, n + i, k), id \notin Carried(a, k)
        PROVE  id \in CarriedTo(b, i, k)
    <2>1. PICK j \in 1..(n + i) : q[j].kind = k /\ id \in q[j].rows
      BY CarriedToIs
    <2>2. ~(j \in 1..n)
      BY <1>4, <1>5, <2>1, CarriedToIs
    <2>3. j - n \in 1..i /\ j - n \in 1..Len(b) /\ n + (j - n) = j
      BY <1>1, <1>3, <2>2
    <2>4. b[j - n] = q[j]
      BY <1>3, <2>3
    <2> QED
      BY <2>1, <2>3, <2>4, CarriedToIs
  <1>6. Carried(q, k) \subseteq Carried(a, k) \cup Carried(b, k)
    <2>1. Len(b) \in 0..Len(b) /\ n + Len(b) = Len(q)
      BY <1>1, <1>3
    <2>2. Carried(q, k) = CarriedTo(q, n + Len(b), k) /\ Carried(b, k) = CarriedTo(b, Len(b), k)
      BY <1>3, <2>1, CarriedToAll
    <2> QED
      BY <1>5, <2>1, <2>2
  <1> QED
    BY <1>2, <1>3, <1>4, <1>5, <1>6 DEF a, b

(* What an outage keeps: of all that was queued up to a kept unit, what    *)
(* is no longer queued was carried by unmarked units.                      *)
LEMMA CarriedKept ==
  ASSUME queue \in Seq(Units), NEW kept \in InOrder(Marked),
         NEW D, NEW k,
         \A i \in 1..Len(queue) : i \notin Marked /\ queue[i].kind = k => queue[i].rows \subseteq D
  PROVE  LET q == [n \in DOMAIN kept |-> queue[kept[n]]]
         IN  /\ q \in Seq(Units)
             /\ \A n \in 1..Len(q) : kept[n] \in 1..Len(queue) /\ q[n] = queue[kept[n]]
             /\ Carried(queue, k) \subseteq D \cup Carried(q, k)
             /\ \A n \in 1..Len(q) :
                  /\ CarriedTo(queue, kept[n], k) \subseteq D \cup CarriedTo(q, n, k)
                  /\ CarriedTo(queue, kept[n] - 1, k) \subseteq D \cup CarriedTo(q, n - 1, k)
  <1> DEFINE q == [n \in DOMAIN kept |-> queue[kept[n]]]
  <1>1. Len(queue) \in Nat /\ DOMAIN queue = 1..Len(queue)
    OBVIOUS
  <1>2. Marked \subseteq 1..Len(queue)
    BY <1>1 DEF Marked
  <1>3. IsFiniteSet(Marked)
    <2>1. IsFiniteSet(1..Len(queue))
      BY <1>1, FS_Interval
    <2> QED
      BY <1>2, <2>1, FS_Subset
  <1>4. /\ kept \in SetToSeqs(Marked)
        /\ \A i, j \in DOMAIN kept : i < j => kept[i] < kept[j]
    BY DEF InOrder
  <1>5. /\ kept \in Seq(Marked) /\ DOMAIN kept = 1..Len(kept) /\ Len(kept) \in Nat
        /\ \A i \in 1..Len(kept) : kept[i] \in Marked
        /\ \A x \in Marked : \E i \in 1..Len(kept) : kept[i] = x
    BY <1>3, <1>4, SeqsAre
  <1> HIDE DEF Marked
  <1>6. \A n \in 1..Len(kept) : kept[n] \in 1..Len(queue)
    BY <1>2, <1>5
  <1>7. \A n \in 1..Len(kept) : queue[kept[n]] \in Units
    BY <1>6
  <1>8. /\ q \in Seq(Units) /\ Len(q) = Len(kept)
        /\ \A n \in 1..Len(kept) : q[n] = queue[kept[n]]
    BY <1>5, <1>7
  <1> HIDE DEF q
  <1>9. ASSUME NEW j \in 1..Len(queue), queue[j].kind = k, NEW id \in queue[j].rows, id \notin D
        PROVE  \E m \in 1..Len(q) : kept[m] = j /\ q[m].kind = k /\ id \in q[m].rows
    <2>1. j \in Marked
      BY <1>9
    <2>2. PICK m \in 1..Len(kept) : kept[m] = j
      BY <1>5, <2>1
    <2> QED
      BY <1>8, <1>9, <2>2
  <1>10. Carried(queue, k) \subseteq D \cup Carried(q, k)
    <2> SUFFICES ASSUME NEW id \in Carried(queue, k), id \notin D PROVE id \in Carried(q, k)
      OBVIOUS
    <2>1. PICK j \in 1..Len(queue) : queue[j].kind = k /\ id \in queue[j].rows
      BY CarriedIs
    <2> QED
      BY <1>8, <1>9, <2>1, CarriedIs
  <1>11. ASSUME NEW n \in 1..Len(q), NEW j \in 1..kept[n], queue[j].kind = k,
                NEW id \in queue[j].rows, id \notin D
         PROVE  \E m \in 1..n : kept[m] = j /\ q[m].kind = k /\ id \in q[m].rows
    <2>1. kept[n] \in 1..Len(queue) /\ j \in 1..Len(queue) /\ j <= kept[n]
      BY <1>1, <1>6, <1>8
    <2>2. PICK m \in 1..Len(q) : kept[m] = j /\ q[m].kind = k /\ id \in q[m].rows
      BY <1>9, <1>11, <2>1
    <2>3. ~(n < m)
      <3>1. n \in DOMAIN kept /\ m \in DOMAIN kept
        BY <1>5, <1>8
      <3>2. n < m => kept[n] < j
        BY <1>4, <2>2, <3>1
      <3> QED
        BY <2>1, <3>2
    <2>4. m \in 1..n
      BY <1>5, <1>8, <2>3
    <2> QED
      BY <2>2, <2>4
  <1>12. ASSUME NEW n \in 1..Len(q)
         PROVE  CarriedTo(queue, kept[n], k) \subseteq D \cup CarriedTo(q, n, k)
    <2> SUFFICES ASSUME NEW id \in CarriedTo(queue, kept[n], k), id \notin D
                 PROVE  id \in CarriedTo(q, n, k)
      OBVIOUS
    <2>1. PICK j \in 1..kept[n] : queue[j].kind = k /\ id \in queue[j].rows
      BY CarriedToIs
    <2>2. \E m \in 1..n : q[m].kind = k /\ id \in q[m].rows
      BY <1>11, <2>1
    <2> QED
      BY <2>2, CarriedToIs
  <1>13. ASSUME NEW n \in 1..Len(q)
         PROVE  CarriedTo(queue, kept[n] - 1, k) \subseteq D \cup CarriedTo(q, n - 1, k)
    <2> SUFFICES ASSUME NEW id \in CarriedTo(queue, kept[n] - 1, k), id \notin D
                 PROVE  id \in CarriedTo(q, n - 1, k)
      OBVIOUS
    <2>1. PICK j \in 1..(kept[n] - 1) : queue[j].kind = k /\ id \in queue[j].rows
      BY CarriedToIs
    <2>2. j \in 1..kept[n] /\ j # kept[n]
      <3>1. kept[n] \in Nat
        BY <1>6, <1>8
      <3> QED
        BY <3>1
    <2>3. PICK m \in 1..n : kept[m] = j /\ q[m].kind = k /\ id \in q[m].rows
      BY <1>11, <2>1, <2>2
    <2>4. m # n
      BY <2>2, <2>3
    <2>5. m \in 1..(n - 1)
      BY <1>5, <1>8, <2>4
    <2> QED
      BY <2>3, <2>5, CarriedToIs
  <1> QED
    BY <1>6, <1>8, <1>10, <1>12, <1>13 DEF q

-----------------------------------------------------------------------------
(* Tables grow, and what is covered stays covered.                         *)

(* The table t2 has the rows of t, for the same servers and users.         *)
Continues(t, t2) ==
  /\ Len(t) <= Len(t2)
  /\ \A id \in 1..Len(t) : t2[id].mine = t[id].mine /\ t2[id].user = t[id].user

LEMMA CoveredStays ==
  ASSUME NEW t \in Seq(Rows), NEW t2 \in Seq(Rows), Continues(t, t2), NEW n \in Nat,
         NEW S, NEW S2, S \subseteq S2, Covered(t, n, S)
  PROVE  Covered(t2, n, S2)
  <1>1. n <= Len(t2) /\ \A id \in 1..n : id \in 1..Len(t)
    BY DEF Covered, Continues
  <1> QED
    BY <1>1 DEF Covered, Continues

LEMMA NothingCovered ==
  ASSUME NEW t \in Seq(Rows), NEW S
  PROVE  Covered(t, 0, S)
  BY DEF Covered

LEMMA ContinuesSame ==
  ASSUME NEW t \in Seq(Rows)
  PROVE  Continues(t, t)
  BY DEF Continues

LEMMA CoversStays ==
  ASSUME NEW d \in ReaderStates, NEW t \in Seq(Rows), NEW t2 \in Seq(Rows), Continues(t, t2),
         NEW c \in Nat, NEW c2 \in Nat, c <= c2, NEW S, NEW S2, S \subseteq S2,
         Covers(d, t, c, S)
  PROVE  Covers(d, t2, c2, S2)
  <1>1. d.next \in Nat /\ d.current \in Nat /\ d.last \in Nat
    BY ReaderFields
  <1>2. Len(t) \in Nat /\ Len(t2) \in Nat /\ Len(t) <= Len(t2) /\ 1..Len(t) \subseteq 1..Len(t2)
    BY DEF Continues
  <1>3. \A A : S \cup A \subseteq S2 \cup A
    OBVIOUS
  <1>4. \A A : Covered(t, d.next, S \cup A) => Covered(t2, d.next, S2 \cup A)
    BY <1>1, <1>3, CoveredStays
  <1>5. Covered(t, d.next, S) => Covered(t2, d.next, S2)
    BY <1>1, CoveredStays
  <1>6. d.at \in {"cursor", "read"} => d.current <= Len(t2)
    BY <1>1, <1>2 DEF Covers
  <1>7. d.at \in {"read", "build"} => d.last <= c2
    BY <1>1 DEF Covers
  <1>8. d.at = "build" => /\ d.kind = "deviceLists" /\ d.rows # {}
                          /\ d.rows \subseteq 1..Len(t2)
                          /\ Covered(t2, d.next, S2 \cup d.rows)
    BY <1>2, <1>4 DEF Covers
  <1>9. d.at = "queue" => /\ d.units # <<>> /\ Batch(d.units, d.kind, d.next)
                          /\ Covered(t2, d.next, S2 \cup Carried(d.units, d.kind))
    BY <1>4 DEF Covers
  <1> QED
    BY <1>5, <1>6, <1>7, <1>8, <1>9 DEF Covers

LEMMA IdleCovers ==
  ASSUME NEW t, NEW c, NEW S
  PROVE  Covers(Idle, t, c, S)
  BY IdleIs DEF Covers

LEMMA RefersStays ==
  ASSUME NEW e \in Units, NEW t \in Seq(Rows), NEW t2 \in Seq(Rows), Continues(t, t2),
         NEW S, NEW S2, S \subseteq S2, Refers(e, t, S)
  PROVE  Refers(e, t2, S2)
  <1>1. 1..Len(t) \subseteq 1..Len(t2)
    BY DEF Continues
  <1> QED
    BY <1>1 DEF Refers, Continues

LEMMA RefersInStays ==
  ASSUME NEW q \in Seq(Units), NEW t \in Seq(Rows), NEW t2 \in Seq(Rows), Continues(t, t2),
         NEW S, NEW S2, S \subseteq S2, RefersIn(q, t, S)
  PROVE  RefersIn(q, t2, S2)
  <1>1. ASSUME NEW i \in 1..Len(q)
        PROVE  Refers(q[i], t2, S2 \cup CarriedTo(q, i - 1, "deviceLists"))
    <2>1. q[i] \in Units
      OBVIOUS
    <2>2. Refers(q[i], t, S \cup CarriedTo(q, i - 1, "deviceLists"))
      BY DEF RefersIn
    <2>3. S \cup CarriedTo(q, i - 1, "deviceLists") \subseteq S2 \cup CarriedTo(q, i - 1, "deviceLists")
      OBVIOUS
    <2> HIDE DEF CarriedTo
    <2> QED
      BY <2>1, <2>2, <2>3, RefersStays
  <1> QED
    BY <1>1 DEF RefersIn

-----------------------------------------------------------------------------
(* The units of a batch.                                                   *)

(* A sequence of units of one kind, not marked yet.                        *)
Unmarked(units, k) ==
  /\ units \in Seq(Units)
  /\ \A i \in 1..Len(units) : units[i].kind = k /\ units[i].upTo = 0

(* The mark makes a batch, and changes nothing else.                       *)
LEMMA MarkLastIs ==
  ASSUME NEW units, NEW k, Unmarked(units, k), units # <<>>, NEW next \in 0..MaxRows
  PROVE  LET p == MarkLast(units, next)
         IN  /\ p \in Seq(Units) /\ p # <<>> /\ Len(p) = Len(units)
             /\ Batch(p, k, next)
             /\ \A i \in 1..Len(p) : /\ p[i].kind = units[i].kind /\ p[i].rows = units[i].rows
                                     /\ p[i].prev = units[i].prev /\ p[i].user = units[i].user
             /\ Carried(p, k) = Carried(units, k)
             /\ \A n \in 0..Len(p) : CarriedTo(p, n, k) = CarriedTo(units, n, k)
  <1> DEFINE p == MarkLast(units, next)
             n == Len(units)
  <1>1. units \in Seq(Units) /\ n \in Nat /\ n >= 1 /\ DOMAIN units = 1..n
    BY EmptySeq DEF Unmarked
  <1>2. units[n] \in Units /\ n \in 1..n
    BY <1>1
  <1>3. [units[n] EXCEPT !.upTo = next] \in Units
    BY <1>2 DEF Units
  <1>4. p = [units EXCEPT ![n] = [units[n] EXCEPT !.upTo = next]]
    BY DEF MarkLast
  <1>5. p \in Seq(Units) /\ Len(p) = n
    BY <1>1, <1>2, <1>3, <1>4
  <1>6. \A i \in 1..n : p[i] = IF i = n THEN [units[n] EXCEPT !.upTo = next] ELSE units[i]
    BY <1>1, <1>4
  <1>7. \A i \in 1..n : units[i] \in Units
    BY <1>1
  <1> HIDE DEF p
  <1>8. ASSUME NEW i \in 1..n
        PROVE  /\ p[i].kind = units[i].kind /\ p[i].rows = units[i].rows
               /\ p[i].prev = units[i].prev /\ p[i].user = units[i].user
               /\ p[i].upTo = IF i = n THEN next ELSE 0
    <2>1. CASE i = n
      <3>1. p[i] = [units[n] EXCEPT !.upTo = next]
        BY <1>6, <2>1
      <3> QED
        BY <1>2, <2>1, <3>1 DEF Units
    <2>2. CASE i # n
      <3>1. p[i] = units[i]
        BY <1>6, <2>2
      <3> QED
        BY <2>2, <3>1 DEF Unmarked
    <2> QED
      BY <2>1, <2>2
  <1>9. Batch(p, k, next)
    BY <1>5, <1>8 DEF Batch, Unmarked
  <1>10. ASSUME NEW m \in 0..n PROVE CarriedTo(p, m, k) = CarriedTo(units, m, k)
    <2>1. \A i \in 1..m : i \in 1..n
      BY <1>1
    <2>2. \A id : id \in CarriedTo(p, m, k) <=> id \in CarriedTo(units, m, k)
      BY <1>8, <2>1, CarriedToIs
    <2> QED
      BY <2>2
  <1>11. Carried(p, k) = Carried(units, k)
    <2>1. n \in 0..n
      BY <1>1
    <2>2. CarriedTo(p, n, k) = Carried(p, k) /\ CarriedTo(units, n, k) = Carried(units, k)
      BY <1>1, <1>5, CarriedToAll
    <2> QED
      BY <1>10, <2>1, <2>2
  <1>12. p # <<>>
    BY <1>1, <1>5
  <1> QED
    BY <1>5, <1>8, <1>9, <1>10, <1>11, <1>12 DEF p, n

(* To-device messages.                                                     *)
LEMMA MessagesAre ==
  ASSUME NEW rows \in SUBSET Ids, rows # {}, NEW ids \in InOrder(rows)
  PROVE  LET units == [i \in DOMAIN ids |-> Message(ids[i])]
         IN  /\ Unmarked(units, "toDevice") /\ units # <<>>
             /\ rows \subseteq Carried(units, "toDevice")
             /\ \A i \in 1..Len(units) : units[i].prev = 0
  <1> DEFINE units == [i \in DOMAIN ids |-> Message(ids[i])]
  <1>1. IsFiniteSet(rows)
    <2>1. IsFiniteSet(Ids)
      BY FS_Interval, DeviceOutboxAssumption DEF Ids
    <2> QED
      BY <2>1, FS_Subset
  <1>2. ids \in SetToSeqs(rows)
    BY DEF InOrder
  <1>3. /\ ids \in Seq(rows) /\ DOMAIN ids = 1..Len(ids) /\ Len(ids) \in Nat
        /\ \A i \in 1..Len(ids) : ids[i] \in rows
        /\ \A x \in rows : \E i \in 1..Len(ids) : ids[i] = x
    BY <1>1, <1>2, SeqsAre
  <1>4. ASSUME NEW i \in 1..Len(ids)
        PROVE  /\ Message(ids[i]) \in Units /\ Message(ids[i]).kind = "toDevice"
               /\ Message(ids[i]).upTo = 0 /\ Message(ids[i]).prev = 0
               /\ Message(ids[i]).rows = {ids[i]}
    <2>1. ids[i] \in Ids
      BY <1>3
    <2> QED
      BY <2>1, DeviceOutboxAssumption DEF Message, Units, Kinds
  <1>5. /\ units \in Seq(Units) /\ Len(units) = Len(ids)
        /\ \A i \in 1..Len(units) : units[i] = Message(ids[i])
    BY <1>3, <1>4
  <1> HIDE DEF units
  <1>6. Unmarked(units, "toDevice")
    BY <1>4, <1>5 DEF Unmarked
  <1>7. \A i \in 1..Len(units) : units[i].prev = 0
    BY <1>4, <1>5
  <1>8. ASSUME NEW id \in rows PROVE id \in Carried(units, "toDevice")
    <2>1. PICK i \in 1..Len(ids) : ids[i] = id
      BY <1>3
    <2> QED
      BY <1>4, <1>5, <2>1, CarriedIs
  <1>9. units # <<>>
    <2>1. PICK id \in rows : TRUE
      OBVIOUS
    <2>2. PICK i \in 1..Len(ids) : ids[i] = id
      BY <1>3, <2>1
    <2> QED
      BY <1>3, <1>5, <2>2
  <1> QED
    BY <1>6, <1>7, <1>8, <1>9 DEF units

(* The tables.                                                             *)
LEMMA TablesTyped ==
  ASSUME OutboxTypeOK, TablesBounded, NEW k \in Kinds
  PROVE  /\ table[k] \in Seq(Rows) /\ Len(table[k]) \in Nat /\ Len(table[k]) <= MaxRows
         /\ DOMAIN table[k] = 1..Len(table[k]) /\ 1..Len(table[k]) \subseteq Ids
         /\ \A id \in 1..Len(table[k]) : table[k][id] \in Rows
  <1>1. table["toDevice"] \in Seq(Rows) /\ table["deviceLists"] \in Seq(Rows)
        /\ table[k] \in Seq(Rows)
    BY KindsAre DEF OutboxTypeOK
  <1>2. Len(table["toDevice"]) \in Nat /\ Len(table["deviceLists"]) \in Nat
    BY <1>1
  <1>3. Len(table["toDevice"]) + Len(table["deviceLists"]) <= MaxRows
    BY DEF TablesBounded
  <1>4. Len(table["toDevice"]) <= MaxRows /\ Len(table["deviceLists"]) <= MaxRows
    <2> DEFINE a == Len(table["toDevice"])
               b == Len(table["deviceLists"])
    <2>1. a \in Nat /\ b \in Nat /\ a + b <= MaxRows /\ MaxRows \in Nat
      BY <1>2, <1>3, DeviceOutboxAssumption
    <2> HIDE DEF a, b
    <2>2. a <= MaxRows /\ b <= MaxRows
      BY <2>1
    <2> QED
      BY <2>2 DEF a, b
  <1>5. Len(table[k]) <= MaxRows /\ Len(table[k]) \in Nat
    <2>1. k = "toDevice" \/ k = "deviceLists"
      BY KindsAre
    <2>2. CASE k = "toDevice"
      BY <1>2, <1>4, <2>2
    <2>3. CASE k = "deviceLists"
      BY <1>2, <1>4, <2>3
    <2> QED
      BY <2>1, <2>2, <2>3
  <1>6. 1..Len(table[k]) \subseteq Ids
    BY <1>5, DeviceOutboxAssumption DEF Ids
  <1> QED
    BY <1>1, <1>5, <1>6

(* The signing keys: every key is carried, twice, and nothing refers.      *)
LEMMA SigningUnitsAre ==
  ASSUME OutboxTypeOK, TablesBounded,
         NEW keys \in SUBSET (1..Len(table["deviceLists"]))
  PROVE  /\ Unmarked(SigningUnits(keys), "deviceLists")
         /\ keys \subseteq Carried(SigningUnits(keys), "deviceLists")
         /\ \A i \in 1..Len(SigningUnits(keys)) : SigningUnits(keys)[i].prev = 0
  <1> DEFINE t == table["deviceLists"]
             us == {t[id].user : id \in keys}
             signers == SetToSeq(us)
             n == Cardinality(us)
             Signing(u) == [kind |-> "deviceLists", rows |-> {id \in keys : t[id].user = u},
                            user |-> u, prev |-> 0, upTo |-> 0]
             units == [i \in 1..2 * Len(signers) |-> Signing(signers[(i + 1) \div 2])]
  <1>1. t \in Seq(Rows) /\ Len(t) \in Nat /\ Len(t) <= MaxRows
    BY TablesTyped, KindsAre
  <1>2. us \subseteq Users
    BY DEF TablesBounded
  <1>3. keys \subseteq Ids
    BY <1>1, DeviceOutboxAssumption DEF Ids
  <1>4. IsFiniteSet(us)
    <2> DEFINE f == [id \in keys |-> t[id].user]
    <2>1. IsFiniteSet(keys)
      <3>1. IsFiniteSet(1..Len(t))
        BY <1>1, FS_Interval
      <3> QED
        BY <3>1, FS_Subset
    <2>2. f \in Surjection(keys, us)
      BY DEF Surjection
    <2> HIDE DEF f, us
    <2> QED
      BY <2>1, <2>2, FS_Surjection
  <1>5. \A id \in keys : t[id].user \in us
    OBVIOUS
  <1>6. SigningUnits(keys) = units
    BY DEF SigningUnits
  <1>7. \A u \in us : /\ Signing(u) \in Units /\ Signing(u).kind = "deviceLists"
                      /\ Signing(u).upTo = 0 /\ Signing(u).prev = 0
                      /\ Signing(u).rows = {id \in keys : t[id].user = u}
    <2> SUFFICES ASSUME NEW u \in us
                 PROVE  /\ Signing(u) \in Units /\ Signing(u).kind = "deviceLists"
                        /\ Signing(u).upTo = 0 /\ Signing(u).prev = 0
                        /\ Signing(u).rows = {id \in keys : t[id].user = u}
      OBVIOUS
    <2>1. {id \in keys : t[id].user = u} \in SUBSET Ids /\ u \in Users
      BY <1>2, <1>3
    <2> HIDE DEF us, t
    <2> QED
      BY <2>1, DeviceOutboxAssumption DEF Units, Kinds
  <1> HIDE DEF us
  <1>8. /\ n \in Nat /\ signers \in [1..n -> us]
        /\ \A x \in us : \E i \in 1..n : signers[i] = x
    BY <1>4, SetToSeqIs
  <1>9. signers \in Seq(us) /\ Len(signers) = n
    BY <1>8
  <1> HIDE DEF n, signers
  <1>10. \A i \in 1..2 * n : (i + 1) \div 2 \in 1..n
    BY <1>8
  <1>11. \A i \in 1..2 * n : signers[(i + 1) \div 2] \in us
    BY <1>8, <1>10
  <1> HIDE DEF Signing
  <1>12. /\ units \in Seq(Units) /\ Len(units) = 2 * n
         /\ \A i \in 1..2 * n : units[i] = Signing(signers[(i + 1) \div 2])
    <2>1. \A i \in 1..2 * n : Signing(signers[(i + 1) \div 2]) \in Units
      BY <1>7, <1>11
    <2>2. units = [i \in 1..2 * n |-> Signing(signers[(i + 1) \div 2])]
      BY <1>9
    <2>3. 2 * n \in Nat
      BY <1>8
    <2> QED
      BY <2>1, <2>2, <2>3
  <1> HIDE DEF units
  <1>13. Unmarked(units, "deviceLists")
    BY <1>7, <1>11, <1>12 DEF Unmarked
  <1>14. \A i \in 1..Len(units) : units[i].prev = 0
    BY <1>7, <1>11, <1>12
  <1>15. ASSUME NEW id \in keys PROVE id \in Carried(units, "deviceLists")
    <2>1. PICK m \in 1..n : signers[m] = t[id].user
      BY <1>5, <1>8
    <2>2. 2 * m \in 1..2 * n /\ (2 * m + 1) \div 2 = m
      BY <1>8, <2>1
    <2>3. units[2 * m] = Signing(t[id].user)
      BY <1>12, <2>1, <2>2
    <2>4. id \in units[2 * m].rows /\ units[2 * m].kind = "deviceLists"
      BY <1>5, <1>7, <2>3
    <2> QED
      BY <1>12, <2>2, <2>4, CarriedIs
  <1> QED
    BY <1>6, <1>13, <1>14, <1>15

(* prev_id of an update: none, the last update that was delivered, or an   *)
(* earlier update of the batch by the same user.                           *)
LEMMA PrevIdIs ==
  ASSUME OutboxTypeOK, TablesBounded,
         NEW updates \in SUBSET (1..Len(table["deviceLists"])), NEW id \in updates,
         NEW keys, NEW from \in Nat
  PROVE  LET t == table["deviceLists"]
             p == PrevId(id, updates, keys, from)
         IN  /\ p \in 0..MaxRows
             /\ \/ p = 0
                \/ p = lastSuccess[t[id].user]
                \/ p \in updates /\ p < id /\ t[p].user = t[id].user
  <1> DEFINE t == table["deviceLists"]
             u == t[id].user
             before == {j \in updates : j < id /\ t[j].user = u}
  <1>1. t \in Seq(Rows) /\ Len(t) \in Nat /\ Len(t) <= MaxRows
    BY TablesTyped, KindsAre
  <1>2. u \in Users
    BY DEF TablesBounded
  <1>3. lastSuccess[u] \in 0..MaxRows
    BY <1>2 DEF OutboxTypeOK
  <1>4. PrevId(id, updates, keys, from) =
          IF before = {} THEN LastDelivered(u, from) ELSE Max(before)
    BY DEF PrevId
  <1>5. CASE before = {}
    BY <1>3, <1>4, <1>5, DeviceOutboxAssumption DEF LastDelivered
  <1>6. CASE before # {}
    <2>1. before \in SUBSET (0..Len(t))
      <3>1. \A j \in 1..Len(t) : j \in 0..Len(t)
        BY <1>1
      <3>2. \A j \in updates : j \in 0..Len(t)
        BY <3>1
      <3> HIDE DEF t
      <3> QED
        BY <3>2
    <2>2. Max(before) \in before
      BY <1>1, <1>6, <2>1, MaxIsMember
    <2>3. Max(before) \in 0..MaxRows
      <3>1. Max(before) \in 0..Len(t)
        BY <2>1, <2>2
      <3> HIDE DEF t, before
      <3> QED
        BY <1>1, <3>1, DeviceOutboxAssumption
    <2> QED
      BY <1>4, <1>6, <2>2, <2>3
  <1> QED
    BY <1>5, <1>6

(* A user's updates are in stream order.                                   *)
LEMMA UserByUserIs ==
  ASSUME OutboxTypeOK, TablesBounded,
         NEW rows \in SUBSET (1..Len(table["deviceLists"])), NEW updates \in SUBSET rows,
         NEW ids \in UserByUser(rows, updates)
  PROVE  /\ ids \in Seq(updates) /\ DOMAIN ids = 1..Len(ids) /\ Len(ids) \in Nat
         /\ \A i \in 1..Len(ids) : ids[i] \in updates
         /\ \A x \in updates : \E i \in 1..Len(ids) : ids[i] = x
         /\ \A i, j \in 1..Len(ids) :
              /\ table["deviceLists"][ids[i]].user = table["deviceLists"][ids[j]].user
              /\ ids[j] < ids[i]
              => j < i
  <1> DEFINE t == table["deviceLists"]
             User(x) == t[x].user
             FirstOf(x) == Min({j \in rows : User(j) = User(x)})
             Earlier(a, b) == FirstOf(a) < FirstOf(b) \/ (User(a) = User(b) /\ a < b)
  <1>1. Len(t) \in Nat /\ rows \subseteq Nat /\ updates \subseteq rows
    BY TablesTyped, KindsAre
  <1>2. IsFiniteSet(updates)
    <2>1. IsFiniteSet(1..Len(t))
      BY <1>1, FS_Interval
    <2>2. updates \in SUBSET (1..Len(t))
      OBVIOUS
    <2> QED
      BY <2>1, <2>2, FS_Subset
  <1>3. /\ ids \in SetToSeqs(updates)
        /\ \A i, j \in DOMAIN ids : i < j => Earlier(ids[i], ids[j])
    BY DEF UserByUser
  <1>4. /\ ids \in Seq(updates) /\ DOMAIN ids = 1..Len(ids) /\ Len(ids) \in Nat
        /\ \A i \in 1..Len(ids) : ids[i] \in updates
        /\ \A x \in updates : \E i \in 1..Len(ids) : ids[i] = x
    BY <1>2, <1>3, SeqsAre
  <1>5. ASSUME NEW x \in rows PROVE FirstOf(x) \in Nat
    <2> DEFINE S == {j \in rows : User(j) = User(x)}
    <2>1. S \in SUBSET Nat /\ S # {}
      BY <1>1
    <2>2. PICK m \in S : \A y \in S : m <= y
      BY <2>1, SmallestExists
    <2>3. Min(S) \in S
      BY <2>2 DEF Min
    <2> QED
      BY <2>1, <2>3
  <1>6. \A a, b : User(a) = User(b) => FirstOf(a) = FirstOf(b)
    OBVIOUS
  <1> HIDE DEF User, FirstOf
  <1>7. ASSUME NEW i \in 1..Len(ids), NEW j \in 1..Len(ids),
               User(ids[i]) = User(ids[j]), ids[j] < ids[i]
        PROVE  j < i
    <2>1. ids[i] \in Nat /\ ids[j] \in Nat /\ ids[i] \in rows /\ ids[j] \in rows
      BY <1>1, <1>4
    <2>2. i # j
      BY <1>7, <2>1
    <2>3. ~Earlier(ids[i], ids[j])
      <3>1. FirstOf(ids[i]) = FirstOf(ids[j]) /\ FirstOf(ids[i]) \in Nat
        BY <1>5, <1>6, <1>7, <2>1
      <3> QED
        BY <1>7, <2>1, <3>1
    <2>4. ~(i < j)
      BY <1>3, <1>4, <2>3
    <2> QED
      BY <1>4, <2>2, <2>4
  <1> QED
    BY <1>4, <1>7 DEF User

(* What buildDeviceListEDUs makes of a batch of pokes: all of them are     *)
(* carried, and each update refers to what was delivered or to an update   *)
(* in front of it.                                                         *)
LEMMA DeviceListUnitsAre ==
  ASSUME OutboxTypeOK, TablesBounded,
         NEW rows \in SUBSET (1..Len(table["deviceLists"])), rows # {}, NEW from \in Nat,
         NEW units \in DeviceListUnits(rows, from)
  PROVE  /\ Unmarked(units, "deviceLists") /\ units # <<>>
         /\ rows \subseteq Carried(units, "deviceLists")
         /\ LastWasSent => RefersIn(units, table["deviceLists"], Done["deviceLists"])
  <1> DEFINE t == table["deviceLists"]
             keys == CrossSigningKeys(rows)
             updates == rows \ keys
             Update(id) == [kind |-> "deviceLists", rows |-> {id}, user |-> t[id].user,
                            prev |-> PrevId(id, updates, keys, from), upTo |-> 0]
             sig == SigningUnits(keys)
  <1>1. /\ t \in Seq(Rows) /\ Len(t) \in Nat /\ 1..Len(t) \subseteq Ids
        /\ \A id \in 1..Len(t) : t[id] \in Rows
    BY TablesTyped, KindsAre
  <1>2. keys \in SUBSET (1..Len(t)) /\ updates \in SUBSET rows /\ updates \in SUBSET (1..Len(t))
        /\ rows = updates \cup keys
    BY DEF CrossSigningKeys
  <1>3. PICK ids \in UserByUser(rows, updates) :
          units = [i \in DOMAIN ids |-> Update(ids[i])] \o sig
    BY DEF DeviceListUnits
  <1> DEFINE ups == [i \in DOMAIN ids |-> Update(ids[i])]
  <1>4. /\ Unmarked(sig, "deviceLists") /\ keys \subseteq Carried(sig, "deviceLists")
        /\ \A i \in 1..Len(sig) : sig[i].prev = 0
    BY <1>2, SigningUnitsAre
  <1>5. ASSUME NEW id \in updates
        PROVE  /\ PrevId(id, updates, keys, from) \in 0..MaxRows
               /\ \/ PrevId(id, updates, keys, from) = 0
                  \/ PrevId(id, updates, keys, from) = lastSuccess[t[id].user]
                  \/ /\ PrevId(id, updates, keys, from) \in updates
                     /\ PrevId(id, updates, keys, from) < id
                     /\ t[PrevId(id, updates, keys, from)].user = t[id].user
    BY <1>2, PrevIdIs
  <1>6. \A id \in updates : t[id].user \in Users
    BY <1>2 DEF TablesBounded
  <1> HIDE DEF keys, updates, sig, t
  <1>7. ASSUME NEW id \in updates
        PROVE  /\ Update(id) \in Units /\ Update(id).kind = "deviceLists"
               /\ Update(id).upTo = 0 /\ Update(id).rows = {id} /\ Update(id).user = t[id].user
               /\ Update(id).prev = PrevId(id, updates, keys, from)
    <2>1. id \in Ids
      BY <1>1, <1>2
    <2> QED
      BY <1>5, <1>6, <2>1, DeviceOutboxAssumption DEF Units, Kinds
  <1>8. /\ ids \in Seq(updates) /\ DOMAIN ids = 1..Len(ids) /\ Len(ids) \in Nat
        /\ \A i \in 1..Len(ids) : ids[i] \in updates
        /\ \A x \in updates : \E i \in 1..Len(ids) : ids[i] = x
        /\ \A i, j \in 1..Len(ids) :
             t[ids[i]].user = t[ids[j]].user /\ ids[j] < ids[i] => j < i
    BY <1>2, UserByUserIs DEF t
  <1> HIDE DEF Update
  <1>9. /\ ups \in Seq(Units) /\ Len(ups) = Len(ids)
        /\ \A i \in 1..Len(ids) : ups[i] = Update(ids[i])
    BY <1>7, <1>8
  <1>10. units = ups \o sig
    BY <1>3
  <1> HIDE DEF ups
  <1>11. sig \in Seq(Units) /\ Len(sig) \in Nat
    BY <1>4 DEF Unmarked
  <1>12. /\ units \in Seq(Units) /\ Len(units) = Len(ups) + Len(sig)
         /\ \A i \in 1..Len(ups) : units[i] = ups[i]
         /\ \A i \in 1..Len(units) : i > Len(ups) =>
              i - Len(ups) \in 1..Len(sig) /\ units[i] = sig[i - Len(ups)]
    <2>1. Len(ups) \in Nat
      BY <1>8, <1>9
    <2>2. /\ units \in Seq(Units) /\ Len(units) = Len(ups) + Len(sig)
          /\ \A i \in 1..(Len(ups) + Len(sig)) :
               units[i] = IF i <= Len(ups) THEN ups[i] ELSE sig[i - Len(ups)]
      BY <1>9, <1>10, <1>11, ConcatProperties
    <2>3. \A i \in 1..Len(ups) : i \in 1..(Len(ups) + Len(sig)) /\ i <= Len(ups)
      BY <1>11, <2>1
    <2>4. \A i \in 1..(Len(ups) + Len(sig)) : i > Len(ups) =>
            i - Len(ups) \in 1..Len(sig) /\ ~(i <= Len(ups))
      BY <1>11, <2>1
    <2> QED
      BY <2>2, <2>3, <2>4
  <1>13. \A i \in 1..Len(units) : i \in 1..Len(ups) \/ i > Len(ups)
    BY <1>8, <1>9, <1>11, <1>12
  <1>14. ASSUME NEW i \in 1..Len(units)
         PROVE  units[i].kind = "deviceLists" /\ units[i].upTo = 0
    <2>1. CASE i \in 1..Len(ups)
      BY <1>7, <1>8, <1>9, <1>12, <2>1
    <2>2. CASE i > Len(ups)
      BY <1>4, <1>12, <2>2 DEF Unmarked
    <2> QED
      BY <1>13, <2>1, <2>2
  <1>15. Unmarked(units, "deviceLists")
    BY <1>12, <1>14 DEF Unmarked
  <1>16. ASSUME NEW id \in updates
         PROVE  \E i \in 1..Len(ups) : ids[i] = id /\ units[i].rows = {id}
                                        /\ i \in 1..Len(units) /\ units[i].kind = "deviceLists"
    <2>1. PICK i \in 1..Len(ids) : ids[i] = id
      BY <1>8
    <2>2. i \in 1..Len(ups) /\ i \in 1..Len(units)
      BY <1>8, <1>9, <1>11, <1>12
    <2> QED
      BY <1>7, <1>9, <1>12, <1>14, <2>1, <2>2
  <1>17. ASSUME NEW id \in rows PROVE id \in Carried(units, "deviceLists")
    <2>1. CASE id \in updates
      <3>1. PICK i \in 1..Len(units) : units[i].rows = {id} /\ units[i].kind = "deviceLists"
        BY <1>16, <2>1
      <3> QED
        BY <1>12, <3>1, CarriedIs
    <2>2. CASE id \in keys
      <3>1. PICK i \in 1..Len(sig) : sig[i].kind = "deviceLists" /\ id \in sig[i].rows
        BY <1>4, <1>11, <2>2, CarriedIs
      <3>2. Len(ups) + i \in 1..Len(units) /\ Len(ups) + i > Len(ups) /\ (Len(ups) + i) - Len(ups) = i
        BY <1>8, <1>9, <1>11, <1>12, <3>1
      <3>3. units[Len(ups) + i] = sig[i]
        BY <1>12, <3>2
      <3> QED
        BY <1>12, <3>1, <3>2, <3>3, CarriedIs
    <2> QED
      BY <1>2, <2>1, <2>2
  <1>18. units # <<>>
    <2>1. PICK id \in rows : TRUE
      OBVIOUS
    <2>2. \E i \in 1..Len(units) : TRUE
      BY <1>12, <1>17, CarriedIs
    <2> QED
      BY <2>2
  <1>19. ASSUME LastWasSent, NEW i \in 1..Len(units)
         PROVE  Refers(units[i], t, Done["deviceLists"] \cup CarriedTo(units, i - 1, "deviceLists"))
    <2> DEFINE D == Done["deviceLists"]
    <2>1. CASE i > Len(ups)
      <3>1. units[i].prev = 0
        BY <1>4, <1>12, <2>1
      <3> QED
        BY <3>1 DEF Refers
    <2>2. CASE i \in 1..Len(ups)
      <3> DEFINE id == ids[i]
                 p == PrevId(id, updates, keys, from)
      <3>1. id \in updates /\ i \in 1..Len(ids)
        BY <1>8, <1>9, <2>2
      <3>2. units[i].prev = p /\ units[i].user = t[id].user /\ units[i].kind = "deviceLists"
        BY <1>7, <1>9, <1>12, <1>14, <2>2, <3>1
      <3>3. CASE p = 0
        BY <3>2, <3>3 DEF Refers
      <3>4. CASE p # 0 /\ p = lastSuccess[t[id].user]
        <4>1. p \in 1..Len(t) /\ t[p].user = t[id].user /\ p \in D
          BY <1>6, <1>19, <3>1, <3>4 DEF LastWasSent, t
        <4> QED
          BY <3>2, <4>1 DEF Refers
      <3>5. CASE p \in updates /\ p < id /\ t[p].user = t[id].user
        <4>1. PICK m \in 1..Len(ups) : ids[m] = p /\ units[m].rows = {p}
                                        /\ m \in 1..Len(units) /\ units[m].kind = "deviceLists"
          BY <1>16, <3>5
        <4>2. m < i
          BY <1>8, <1>9, <3>1, <3>5, <4>1
        <4>3. m \in 1..(i - 1)
          BY <4>2
        <4>4. p \in CarriedTo(units, i - 1, "deviceLists")
          BY <4>1, <4>3, CarriedToIs
        <4>5. p \in 1..Len(t)
          BY <1>2, <3>5
        <4> QED
          BY <3>2, <3>5, <4>4, <4>5 DEF Refers
      <3> QED
        BY <1>5, <3>1, <3>3, <3>4, <3>5
    <2> QED
      BY <1>13, <2>1, <2>2
  <1>20. ASSUME LastWasSent PROVE RefersIn(units, t, Done["deviceLists"])
    BY <1>19, <1>20 DEF RefersIn
  <1> QED
    BY <1>15, <1>17, <1>18, <1>20 DEF t

-----------------------------------------------------------------------------
(* Every step but a crash keeps or adds.                                   *)

(* The parts of the state, for the provers.                                *)
LEMMA StateTyped ==
  ASSUME OutboxTypeOK
  PROVE  /\ \A k \in Kinds : /\ table[k] \in Seq(Rows)
                             /\ cursor[k] \in 0..MaxRows /\ cursor[k] \in Nat
                             /\ deleting[k] \in 0..MaxRows /\ deleting[k] \in Nat
                             /\ received[k] \in SUBSET Ids /\ excused[k] \in SUBSET Ids
         /\ \A r \in Readers : reader[r] \in ReaderStates /\ reader[r].kind \in Kinds
         /\ queue \in Seq(Units) /\ Len(queue) \in Nat
         /\ \A i \in 1..Len(queue) : /\ queue[i] \in Units /\ queue[i].kind \in Kinds
                                     /\ queue[i].upTo \in Nat
  <1>1. \A r \in Readers : reader[r] \in ReaderStates
    BY DEF OutboxTypeOK
  <1>2. queue \in Seq(Units)
    BY DEF OutboxTypeOK
  <1>3. \A i \in 1..Len(queue) : queue[i] \in Units
    BY <1>2
  <1>4. \A k \in Kinds : cursor[k] \in 0..MaxRows /\ deleting[k] \in 0..MaxRows
    BY DEF OutboxTypeOK
  <1>5. \A n \in 0..MaxRows : n \in Nat
    BY DeviceOutboxAssumption
  <1>6. \A k \in Kinds : table[k] \in Seq(Rows) /\ received[k] \in SUBSET Ids /\ excused[k] \in SUBSET Ids
    BY DEF OutboxTypeOK
  <1>7. \A r \in Readers : reader[r].kind \in Kinds
    BY <1>1, ReaderFields
  <1>8. \A i \in 1..Len(queue) : queue[i].kind \in Kinds /\ queue[i].upTo \in Nat
    BY <1>3, UnitFields
  <1> QED
    BY <1>1, <1>2, <1>3, <1>4, <1>5, <1>6, <1>7, <1>8

(* The same of the tables and cursors after a step.                        *)
LEMMA NextTyped ==
  ASSUME OutboxTypeOK'
  PROVE  \A k \in Kinds : /\ table'[k] \in Seq(Rows)
                           /\ cursor'[k] \in Nat /\ deleting'[k] \in Nat
  <1>1. \A k \in Kinds : cursor'[k] \in 0..MaxRows /\ deleting'[k] \in 0..MaxRows
    BY DEF OutboxTypeOK
  <1>2. \A n \in 0..MaxRows : n \in Nat
    BY DeviceOutboxAssumption
  <1>3. \A k \in Kinds : table'[k] \in Seq(Rows)
    BY DEF OutboxTypeOK
  <1> QED
    BY <1>1, <1>2, <1>3

(* What a step may change without more ado.                                *)
Onward ==
  /\ OutboxTypeOK'
  /\ \A k \in Kinds : /\ Continues(table[k], table'[k])
                      /\ Done[k] \subseteq Done'[k] /\ Has[k] \subseteq Has'[k]
                      /\ cursor[k] <= cursor'[k]

LEMMA CoverStays ==
  ASSUME OutboxInv, Onward,
         \A k \in Kinds : cursor'[k] = cursor[k] \/ Covered(table'[k], cursor'[k], Has'[k]),
         \A k \in Kinds : deleting'[k] \in {0, deleting[k]} \/ Covered(table'[k], deleting'[k], Done'[k]),
         queue' = queue \/ MarksCovered',
         \A r \in Readers : reader'[r] = reader[r] \/ ReaderCovers(r)'
  PROVE  CursorCovered' /\ DeletingCovered' /\ MarksCovered' /\ ReadersCover'
  <1>1. OutboxTypeOK /\ OutboxTypeOK'
    BY DEF OutboxInv, Onward
  <1>2. \A k \in Kinds : /\ table[k] \in Seq(Rows) /\ table'[k] \in Seq(Rows)
                         /\ cursor[k] \in Nat /\ cursor'[k] \in Nat
                         /\ deleting[k] \in Nat
    BY <1>1, StateTyped, NextTyped
  <1>3. ASSUME NEW k \in Kinds PROVE Covered(table'[k], cursor'[k], Has'[k])
    <2>1. CASE cursor'[k] = cursor[k]
      <3>1. Covered(table[k], cursor[k], Has[k])
        BY DEF OutboxInv, CursorCovered
      <3>2. Covered(table'[k], cursor[k], Has'[k])
        BY <1>2, <3>1, CoveredStays DEF Onward
      <3> QED
        BY <2>1, <3>2
    <2> QED
      BY <2>1
  <1>4. ASSUME NEW k \in Kinds PROVE Covered(table'[k], deleting'[k], Done'[k])
    <2>1. CASE deleting'[k] = deleting[k]
      <3>1. Covered(table[k], deleting[k], Done[k])
        BY DEF OutboxInv, DeletingCovered
      <3>2. Covered(table'[k], deleting[k], Done'[k])
        BY <1>2, <3>1, CoveredStays DEF Onward
      <3> QED
        BY <2>1, <3>2
    <2>2. CASE deleting'[k] = 0
      <3>1. Covered(table'[k], 0, Done'[k])
        BY <1>2, NothingCovered
      <3> QED
        BY <2>2, <3>1
    <2> QED
      BY <2>1, <2>2
  <1>5. MarksCovered'
    <2>1. CASE queue' = queue
      <3>1. ASSUME NEW i \in 1..Len(queue)
            PROVE  LET e == queue[i]
                   IN  Covered(table'[e.kind], e.upTo, Done'[e.kind] \cup CarriedTo(queue, i, e.kind))
        <4> DEFINE k == queue[i].kind
                   C == CarriedTo(queue, i, k)
        <4>1. k \in Kinds /\ queue[i].upTo \in Nat
          BY <1>1, StateTyped
        <4>2. Covered(table[k], queue[i].upTo, Done[k] \cup C)
          BY DEF OutboxInv, MarksCovered, MarksIn
        <4> HIDE DEF C, k
        <4>3. Done[k] \cup C \subseteq Done'[k] \cup C /\ Continues(table[k], table'[k])
          BY <4>1 DEF Onward
        <4>4. Covered(table'[k], queue[i].upTo, Done'[k] \cup C)
          BY <1>2, <4>1, <4>2, <4>3, CoveredStays
        <4> QED
          BY <4>4 DEF C, k
      <3>2. MarksIn(queue, table', Done')
        BY <3>1 DEF MarksIn
      <3> QED
        BY <2>1, <3>2 DEF MarksCovered
    <2> QED
      BY <2>1
  <1>6. ASSUME NEW r \in Readers PROVE ReaderCovers(r)'
    <2>1. CASE reader'[r] = reader[r]
      <3> DEFINE d == reader[r]
                 k == reader[r].kind
      <3>1. d \in ReaderStates /\ k \in Kinds
        BY <1>1, StateTyped
      <3>2. Covers(d, table[k], cursor[k], Has[k])
        BY DEF OutboxInv, ReadersCover, ReaderCovers
      <3> HIDE DEF d, k
      <3>3. Covers(d, table'[k], cursor'[k], Has'[k])
        BY <1>2, <3>1, <3>2, CoversStays DEF Onward
      <3> QED
        BY <2>1, <3>3 DEF d, k, ReaderCovers
    <2> QED
      BY <2>1
  <1> QED
    BY <1>3, <1>4, <1>5, <1>6 DEF CursorCovered, DeletingCovered, ReadersCover

LEMMA ReferenceStays ==
  ASSUME OutboxInv, Onward,
         lastSuccess' = lastSuccess \/ LastWasSent',
         queue' = queue \/ QueueRefers',
         \A r \in Readers : \/ reader'[r] = reader[r]
                            \/ reader'[r].at # "queue"
                            \/ RefersIn(reader'[r].units, table'["deviceLists"], Has'["deviceLists"])
  PROVE  LastWasSent' /\ QueueRefers' /\ UnitsRefer'
  <1> DEFINE k == "deviceLists"
  <1>1. OutboxTypeOK /\ OutboxTypeOK'
    BY DEF OutboxInv, Onward
  <1>2. /\ table[k] \in Seq(Rows) /\ table'[k] \in Seq(Rows) /\ Continues(table[k], table'[k])
        /\ Done[k] \subseteq Done'[k] /\ Has[k] \subseteq Has'[k]
    BY <1>1, StateTyped, NextTyped, KindsAre DEF Onward
  <1>3. LastWasSent'
    <2>1. CASE lastSuccess' = lastSuccess
      <3>1. 1..Len(table[k]) \subseteq 1..Len(table'[k])
        BY <1>2 DEF Continues
      <3>2. ASSUME NEW u \in Users, lastSuccess[u] # 0
            PROVE  /\ lastSuccess[u] \in 1..Len(table'[k])
                   /\ table'[k][lastSuccess[u]].user = u
                   /\ lastSuccess[u] \in Done'[k]
        <4>1. /\ lastSuccess[u] \in 1..Len(table[k]) /\ table[k][lastSuccess[u]].user = u
              /\ lastSuccess[u] \in Done[k]
          BY <3>2 DEF OutboxInv, LastWasSent
        <4>2. table'[k][lastSuccess[u]].user = table[k][lastSuccess[u]].user
          BY <1>2, <4>1 DEF Continues
        <4> QED
          BY <1>2, <3>1, <4>1, <4>2
      <3> QED
        BY <2>1, <3>2 DEF LastWasSent
    <2> QED
      BY <2>1
  <1>4. QueueRefers'
    <2>1. CASE queue' = queue
      <3>1. queue \in Seq(Units) /\ RefersIn(queue, table[k], Done[k])
        BY <1>1, StateTyped DEF OutboxInv, QueueRefers
      <3>2. RefersIn(queue, table'[k], Done'[k])
        BY <1>2, <3>1, RefersInStays
      <3> QED
        BY <2>1, <3>2 DEF QueueRefers
    <2> QED
      BY <2>1
  <1>5. ASSUME NEW r \in Readers, reader'[r].at = "queue"
        PROVE  RefersIn(reader'[r].units, table'[k], Has'[k])
    <2>1. CASE reader'[r] = reader[r]
      <3>1. reader[r].units \in Seq(Units)
        BY <1>1, StateTyped, ReaderFields
      <3>2. RefersIn(reader[r].units, table[k], Has[k])
        BY <1>5, <2>1 DEF OutboxInv, UnitsRefer
      <3>3. RefersIn(reader[r].units, table'[k], Has'[k])
        BY <1>2, <3>1, <3>2, RefersInStays
      <3> QED
        BY <2>1, <3>3
    <2> QED
      BY <1>5, <2>1
  <1> QED
    BY <1>3, <1>4, <1>5 DEF UnitsRefer

(* Nothing received or excused is forgotten, and the queue stays.          *)
LEMMA HasStays ==
  ASSUME queue' = queue, \A k \in Kinds : received[k] \subseteq received'[k] /\ excused[k] \subseteq excused'[k]
  PROVE  \A k \in Kinds : Done[k] \subseteq Done'[k] /\ Has[k] \subseteq Has'[k]
  <1> SUFFICES ASSUME NEW k \in Kinds
               PROVE  Done[k] \subseteq Done'[k] /\ Has[k] \subseteq Has'[k]
    OBVIOUS
  <1>1. Done[k] = received[k] \cup excused[k] /\ Done'[k] = received'[k] \cup excused'[k]
    BY DEF Done
  <1>2. Has[k] = Done[k] \cup Carried(queue, k) /\ Has'[k] = Done'[k] \cup Carried(queue, k)
    BY DEF Has
  <1> QED
    BY <1>1, <1>2

(* A deletion is the only step that makes a row go.                        *)
LEMMA DeletedStays ==
  ASSUME OutboxInv, Onward, table' = table
  PROVE  TablesBounded' /\ DeletedWasReceived'
  <1>1. TablesBounded'
    BY DEF OutboxInv, TablesBounded
  <1>2. ASSUME NEW k \in Kinds, NEW id \in DOMAIN table[k], table[k][id].state = "gone"
        PROVE  id \in received'[k] \cup excused'[k]
    <2>1. id \in Done[k]
      BY <1>2 DEF OutboxInv, DeletedWasReceived, Done
    <2>2. id \in Done'[k]
      BY <2>1 DEF Onward
    <2> QED
      BY <2>2 DEF Done
  <1> QED
    BY <1>1, <1>2 DEF DeletedWasReceived

-----------------------------------------------------------------------------
(* Each action keeps the invariant.                                        *)

LEMMA OutboxInvInit == OutboxInit => OutboxInv
  <1> SUFFICES ASSUME OutboxInit PROVE OutboxInv
    OBVIOUS
  <1>0. <<>> \in Seq(Rows) /\ <<>> \in Seq(Units) /\ Len(<<>>) = 0 /\ DOMAIN <<>> = {}
    OBVIOUS
  <1>1. OutboxTypeOK
    <2>1. 0 \in 0..MaxRows /\ 0 \in 0..MaxFaults
      BY DeviceOutboxAssumption
    <2> QED
      BY <1>0, <2>1, IdleIs DEF OutboxInit, OutboxTypeOK
  <1>2. \A k \in Kinds : table[k] = <<>> /\ cursor[k] = 0 /\ deleting[k] = 0
    BY DEF OutboxInit
  <1>3. \A k \in Kinds : \A S : Covered(table[k], 0, S)
    BY <1>0, <1>2, NothingCovered
  <1>4. TablesBounded
    <2>1. Len(table["toDevice"]) = 0 /\ Len(table["deviceLists"]) = 0
      BY <1>0, <1>2, KindsAre
    <2>2. 0 + 0 <= MaxRows
      BY DeviceOutboxAssumption
    <2> QED
      BY <2>1, <2>2 DEF TablesBounded
  <1>5. DeletedWasReceived
    BY <1>0, <1>2 DEF DeletedWasReceived
  <1>6. CursorCovered /\ DeletingCovered
    BY <1>2, <1>3 DEF CursorCovered, DeletingCovered
  <1>7. queue = <<>> /\ Len(queue) = 0
    BY <1>0 DEF OutboxInit
  <1>8. MarksCovered /\ QueueRefers
    BY <1>7 DEF MarksCovered, MarksIn, QueueRefers, RefersIn
  <1>9. \A r \in Readers : reader[r] = Idle
    BY DEF OutboxInit
  <1>10. ReadersCover
    BY <1>9, IdleCovers DEF ReadersCover, ReaderCovers
  <1>11. UnitsRefer
    BY <1>9, IdleIs DEF UnitsRefer
  <1>12. LastWasSent
    BY DEF OutboxInit, LastWasSent
  <1> QED
    BY <1>1, <1>4, <1>5, <1>6, <1>8, <1>10, <1>11, <1>12 DEF OutboxInv

(* A step of the tables: rows are added or change state, and what goes was *)
(* received.                                                               *)
LEMMA TableStep ==
  ASSUME OutboxInv, OutboxTypeOK', TablesBounded', DeletedWasReceived',
         \A k \in Kinds : Continues(table[k], table'[k]),
         \A k \in Kinds : deleting'[k] \in {0, deleting[k]},
         lastSuccess' = lastSuccess \/ LastWasSent',
         UNCHANGED <<cursor, reader, queue, received, excused>>
  PROVE  OutboxInv'
  <1>1. \A k \in Kinds : Done[k] \subseteq Done'[k] /\ Has[k] \subseteq Has'[k]
    BY HasStays
  <1>2. Onward
    <2>1. \A k \in Kinds : cursor[k] <= cursor'[k]
      BY StateTyped DEF OutboxInv
    <2> QED
      BY <1>1, <2>1 DEF Onward
  <1>3. CursorCovered' /\ DeletingCovered' /\ MarksCovered' /\ ReadersCover'
    BY <1>2, CoverStays
  <1>4. LastWasSent' /\ QueueRefers' /\ UnitsRefer'
    BY <1>2, ReferenceStays
  <1> QED
    BY <1>3, <1>4 DEF OutboxInv

LEMMA AllocateKeeps ==
  ASSUME OutboxInv, NEW k \in Kinds, NEW row \in Rows, row.state # "gone",
         k = "deviceLists" => row.user \in Users, Allocate(k, row)
  PROVE  OutboxInv'
  <1>1. /\ Len(table["toDevice"]) + Len(table["deviceLists"]) < MaxRows
        /\ table' = [table EXCEPT ![k] = Append(@, row)]
        /\ UNCHANGED <<lastSuccess, cursor, announced, reader, queue, deleting, received, excused, faults>>
    BY DEF Allocate, workerVars
  <1>2. OutboxTypeOK /\ TablesBounded
    BY DEF OutboxInv
  <1>3. \A j \in Kinds : table[j] \in Seq(Rows) /\ Len(table[j]) \in Nat /\ DOMAIN table[j] = 1..Len(table[j])
    BY <1>2, TablesTyped
  <1>4. table'[k] = Append(table[k], row) /\ \A j \in Kinds \ {k} : table'[j] = table[j]
    BY <1>1, <1>2 DEF OutboxTypeOK
  <1>5. /\ table'[k] \in Seq(Rows) /\ Len(table'[k]) = Len(table[k]) + 1
        /\ DOMAIN table'[k] = 1..Len(table'[k])
        /\ table'[k][Len(table[k]) + 1] = row
        /\ \A id \in 1..Len(table[k]) : table'[k][id] = table[k][id]
    BY <1>3, <1>4, AppendProperties
  <1>6. ASSUME NEW j \in Kinds
        PROVE  /\ Continues(table[j], table'[j]) /\ table'[j] \in Seq(Rows)
               /\ DOMAIN table'[j] = 1..Len(table'[j])
               /\ \A id \in 1..Len(table'[j]) :
                    \/ id \in 1..Len(table[j]) /\ table'[j][id] = table[j][id]
                    \/ j = k /\ table'[j][id] = row
    <2>1. CASE j = k
      <3>1. \A id \in 1..Len(table'[k]) : id \in 1..Len(table[k]) \/ id = Len(table[k]) + 1
        BY <1>3, <1>5
      <3>2. Len(table[k]) <= Len(table'[k])
        BY <1>3, <1>5
      <3> QED
        BY <1>5, <2>1, <3>1, <3>2 DEF Continues
    <2>2. CASE j # k
      <3>1. table'[j] = table[j]
        BY <1>4, <2>2
      <3> QED
        BY <1>3, <3>1, ContinuesSame
    <2> QED
      BY <2>1, <2>2
  <1>7. OutboxTypeOK'
    <2>1. table' \in [Kinds -> Seq(Rows)]
      <3>1. Append(table[k], row) \in Seq(Rows)
        BY <1>4, <1>5
      <3> QED
        BY <1>1, <1>2, <3>1 DEF OutboxTypeOK
    <2> QED
      BY <1>1, <1>2, <2>1 DEF OutboxTypeOK
  <1>8. TablesBounded'
    <2>1. Len(table'["toDevice"]) + Len(table'["deviceLists"]) <= MaxRows
      <3> DEFINE a == Len(table["toDevice"])
                 b == Len(table["deviceLists"])
                 a2 == Len(table'["toDevice"])
                 b2 == Len(table'["deviceLists"])
      <3>1. a \in Nat /\ b \in Nat /\ a + b < MaxRows /\ MaxRows \in Nat
        BY <1>1, <1>3, KindsAre, DeviceOutboxAssumption
      <3>2. (a2 = a + 1 /\ b2 = b) \/ (a2 = a /\ b2 = b + 1)
        <4>1. CASE k = "toDevice"
          BY <1>4, <1>5, <4>1, KindsAre
        <4>2. CASE k = "deviceLists"
          BY <1>4, <1>5, <4>2, KindsAre
        <4> QED
          BY <4>1, <4>2, KindsAre
      <3> HIDE DEF a, b, a2, b2
      <3>3. a2 + b2 <= MaxRows
        BY <3>1, <3>2
      <3> QED
        BY <3>3 DEF a2, b2
    <2>2. \A id \in 1..Len(table'["deviceLists"]) : table'["deviceLists"][id].user \in Users
      BY <1>2, <1>6, KindsAre DEF TablesBounded
    <2> QED
      BY <2>1, <2>2 DEF TablesBounded
  <1>9. DeletedWasReceived'
    <2>1. ASSUME NEW j \in Kinds, NEW id \in DOMAIN table'[j], table'[j][id].state = "gone"
          PROVE  id \in received[j] \cup excused[j]
      <3>1. id \in 1..Len(table[j]) /\ table[j][id].state = "gone"
        BY <1>6, <2>1
      <3> QED
        BY <1>3, <3>1 DEF OutboxInv, DeletedWasReceived
    <2> QED
      BY <1>1, <2>1 DEF DeletedWasReceived
  <1> QED
    BY <1>1, <1>6, <1>7, <1>8, <1>9, TableStep

LEMMA CommitKeeps ==
  ASSUME OutboxInv, NEW k \in Kinds, NEW id \in Ids, Commit(k, id)
  PROVE  OutboxInv'
  <1>1. /\ id \in DOMAIN table[k]
        /\ table' = [table EXCEPT ![k] = [table[k] EXCEPT ![id] = [table[k][id] EXCEPT !.state = "in"]]]
        /\ UNCHANGED <<lastSuccess, cursor, announced, reader, queue, deleting, received, excused, faults>>
    BY DEF Commit, workerVars
  <1>2. OutboxTypeOK /\ TablesBounded
    BY DEF OutboxInv
  <1>3. \A j \in Kinds : /\ table[j] \in Seq(Rows) /\ Len(table[j]) \in Nat
                         /\ DOMAIN table[j] = 1..Len(table[j])
                         /\ \A i \in 1..Len(table[j]) : table[j][i] \in Rows
    BY <1>2, TablesTyped
  <1> DEFINE row == [table[k][id] EXCEPT !.state = "in"]
  <1>4. /\ row \in Rows /\ row.state = "in" /\ row.mine = table[k][id].mine
        /\ row.user = table[k][id].user
    <2>1. table[k][id] \in Rows
      BY <1>1, <1>3
    <2> QED
      BY <2>1 DEF Rows
  <1>5. /\ table'[k] = [table[k] EXCEPT ![id] = row]
        /\ \A j \in Kinds \ {k} : table'[j] = table[j]
    BY <1>1, <1>2 DEF OutboxTypeOK
  <1> HIDE DEF row
  <1>6. /\ table'[k] \in Seq(Rows) /\ Len(table'[k]) = Len(table[k])
        /\ \A i \in 1..Len(table[k]) : table'[k][i] = IF i = id THEN row ELSE table[k][i]
    <2> DEFINE t == table[k]
    <2>1. t \in Seq(Rows) /\ Len(t) \in Nat /\ DOMAIN t = 1..Len(t) /\ id \in 1..Len(t)
      BY <1>1, <1>3
    <2> HIDE DEF t
    <2>2. \A i \in 1..Len(t) : [t EXCEPT ![id] = row][i] = IF i = id THEN row ELSE t[i]
      BY <2>1
    <2>3. [t EXCEPT ![id] = row] \in Seq(Rows) /\ Len([t EXCEPT ![id] = row]) = Len(t)
      BY <1>4, <2>1
    <2> QED
      BY <1>5, <2>2, <2>3 DEF t
  <1>7. ASSUME NEW j \in Kinds
        PROVE  /\ Continues(table[j], table'[j]) /\ table'[j] \in Seq(Rows)
               /\ Len(table'[j]) = Len(table[j])
               /\ \A i \in 1..Len(table[j]) :
                    /\ table'[j][i].user = table[j][i].user
                    /\ table'[j][i].state = "gone" => table[j][i].state = "gone"
    <2>1. CASE j = k
      <3>1. ASSUME NEW i \in 1..Len(table[k])
            PROVE  /\ table'[k][i].user = table[k][i].user /\ table'[k][i].mine = table[k][i].mine
                   /\ table'[k][i].state = "gone" => table[k][i].state = "gone"
        <4>1. CASE i = id
          BY <1>4, <1>6, <4>1
        <4>2. CASE i # id
          BY <1>6, <4>2
        <4> QED
          BY <4>1, <4>2
      <3>2. Len(table[k]) <= Len(table'[k])
        BY <1>3, <1>6
      <3> QED
        BY <1>6, <2>1, <3>1, <3>2 DEF Continues
    <2>2. CASE j # k
      <3>1. table'[j] = table[j]
        BY <1>5, <2>2
      <3> QED
        BY <1>3, <3>1, ContinuesSame
    <2> QED
      BY <2>1, <2>2
  <1>8. OutboxTypeOK'
    <2>1. table' \in [Kinds -> Seq(Rows)]
      <3>1. DOMAIN table' = Kinds /\ table' = [j \in Kinds |-> table'[j]]
        BY <1>1, <1>2 DEF OutboxTypeOK
      <3> QED
        BY <1>7, <3>1
    <2> QED
      BY <1>1, <1>2, <2>1 DEF OutboxTypeOK
  <1>9. TablesBounded'
    BY <1>2, <1>7, KindsAre DEF TablesBounded
  <1>10. DeletedWasReceived'
    <2>1. ASSUME NEW j \in Kinds, NEW i \in DOMAIN table'[j], table'[j][i].state = "gone"
          PROVE  i \in received[j] \cup excused[j]
      <3>1. i \in 1..Len(table[j]) /\ table[j][i].state = "gone"
        BY <1>3, <1>7, <2>1
      <3> QED
        BY <1>3, <3>1 DEF OutboxInv, DeletedWasReceived
    <2> QED
      BY <1>1, <2>1 DEF DeletedWasReceived
  <1> QED
    BY <1>1, <1>7, <1>8, <1>9, <1>10, TableStep

(* A step of one goroutine, which may also excuse rows and move a cursor   *)
(* over rows that are covered.                                             *)
LEMMA ReaderStep ==
  ASSUME OutboxInv, NEW r \in Readers, NEW to \in ReaderStates, Goes(r, to),
         UNCHANGED <<table, lastSuccess, queue, deleting, received>>,
         excused' \in [Kinds -> SUBSET Ids], \A k \in Kinds : excused[k] \subseteq excused'[k],
         cursor' \in [Kinds -> 0..MaxRows], \A k \in Kinds : cursor[k] <= cursor'[k],
         \A k \in Kinds : cursor'[k] = cursor[k] \/ Covered(table[k], cursor'[k], Has[k]),
         announced' \in [Kinds -> SUBSET Ids], faults' \in 0..MaxFaults,
         Covers(to, table[to.kind], cursor'[to.kind], Has'[to.kind]),
         to.at = "queue" => RefersIn(to.units, table["deviceLists"], Has'["deviceLists"])
  PROVE  OutboxInv'
  <1>1. OutboxTypeOK
    BY DEF OutboxInv
  <1>2. /\ reader' = [reader EXCEPT ![r] = to] /\ reader'[r] = to
        /\ \A r2 \in Readers : r2 # r => reader'[r2] = reader[r2]
    BY <1>1 DEF Goes, OutboxTypeOK
  <1>3. OutboxTypeOK'
    BY <1>1, <1>2 DEF OutboxTypeOK
  <1>4. \A k \in Kinds : Done[k] \subseteq Done'[k] /\ Has[k] \subseteq Has'[k]
    BY HasStays
  <1>5. \A k \in Kinds : Continues(table[k], table'[k])
    BY <1>1, StateTyped, ContinuesSame
  <1>6. Onward
    BY <1>3, <1>4, <1>5 DEF Onward
  <1>7. ASSUME NEW k \in Kinds
        PROVE  cursor'[k] = cursor[k] \/ Covered(table'[k], cursor'[k], Has'[k])
    <2>1. table[k] \in Seq(Rows) /\ cursor'[k] \in Nat
      BY <1>1, <1>3, StateTyped, NextTyped
    <2>2. Covered(table[k], cursor'[k], Has[k]) => Covered(table'[k], cursor'[k], Has'[k])
      BY <1>4, <1>5, <2>1, CoveredStays
    <2> QED
      BY <2>2
  <1>8. ReaderCovers(r)'
    BY <1>2 DEF ReaderCovers
  <1>9. \A r2 \in Readers : reader'[r2] = reader[r2] \/ ReaderCovers(r2)'
    BY <1>2, <1>8
  <1>10. CursorCovered' /\ DeletingCovered' /\ MarksCovered' /\ ReadersCover'
    BY <1>6, <1>7, <1>9, CoverStays
  <1>11. LastWasSent' /\ QueueRefers' /\ UnitsRefer'
    BY <1>2, <1>6, ReferenceStays
  <1>12. TablesBounded' /\ DeletedWasReceived'
    BY <1>6, DeletedStays
  <1> QED
    BY <1>3, <1>10, <1>11, <1>12 DEF OutboxInv

(* The same where only the goroutine and the announcements change.         *)
LEMMA OnlyReaderStep ==
  ASSUME OutboxInv, NEW r \in Readers, NEW to \in ReaderStates, Goes(r, to),
         UNCHANGED <<table, lastSuccess, queue, deleting, received, excused, cursor>>,
         announced' \in [Kinds -> SUBSET Ids], faults' \in 0..MaxFaults,
         Covers(to, table[to.kind], cursor[to.kind], Has[to.kind]),
         to.at = "queue" => RefersIn(to.units, table["deviceLists"], Has["deviceLists"])
  PROVE  OutboxInv'
  <1>1. OutboxTypeOK
    BY DEF OutboxInv
  <1>2. Has' = Has
    BY DEF Has, Done
  <1>3. excused' \in [Kinds -> SUBSET Ids] /\ cursor' \in [Kinds -> 0..MaxRows]
    BY <1>1 DEF OutboxTypeOK
  <1>4. \A k \in Kinds : cursor[k] <= cursor'[k]
    BY <1>1, StateTyped
  <1>5. \A k \in Kinds : cursor'[k] = cursor[k] /\ excused[k] \subseteq excused'[k]
    OBVIOUS
  <1>6. Covers(to, table[to.kind], cursor'[to.kind], Has'[to.kind])
    BY <1>2
  <1>7. to.at = "queue" => RefersIn(to.units, table["deviceLists"], Has'["deviceLists"])
    BY <1>2
  <1> QED
    BY <1>3, <1>4, <1>5, <1>6, <1>7, ReaderStep

LEMMA MaxStreamIDIs ==
  ASSUME OutboxTypeOK, TablesBounded, NEW k \in Kinds
  PROVE  MaxStreamID(k) \in 0..Len(table[k]) /\ MaxStreamID(k) \in 0..MaxRows
  <1>1. Len(table[k]) \in Nat /\ Len(table[k]) <= MaxRows /\ DOMAIN table[k] = 1..Len(table[k])
    BY TablesTyped
  <1>2. {0} \cup Held(k) \in SUBSET (0..Len(table[k]))
    <2>1. \A id \in 1..Len(table[k]) : id \in 0..Len(table[k])
      BY <1>1
    <2>2. 0 \in 0..Len(table[k])
      BY <1>1
    <2> QED
      BY <1>1, <2>1, <2>2 DEF Held
  <1>3. MaxStreamID(k) \in 0..Len(table[k])
    <2> DEFINE S == {0} \cup Held(k)
    <2>1. S # {} /\ S \in SUBSET (0..Len(table[k]))
      BY <1>2
    <2> HIDE DEF S
    <2>2. Max(S) \in S
      BY <1>1, <2>1, MaxIsMember
    <2> QED
      BY <2>1, <2>2 DEF S, MaxStreamID
  <1> QED
    BY <1>1, <1>3, DeviceOutboxAssumption

LEMMA StartReaderKeeps ==
  ASSUME OutboxInv, NEW r \in Readers, NEW k \in Kinds, NEW id \in Ids, StartReader(r, k, id)
  PROVE  OutboxInv'
  <1> DEFINE to == [Idle EXCEPT !.kind = k, !.at = "cursor", !.current = MaxStreamID(k)]
  <1>1. OutboxTypeOK /\ TablesBounded
    BY DEF OutboxInv
  <1>2. MaxStreamID(k) \in 0..Len(table[k]) /\ MaxStreamID(k) \in 0..MaxRows
    BY <1>1, MaxStreamIDIs
  <1>3. /\ Goes(r, to) /\ announced' = [announced EXCEPT ![k] = @ \cup {id}]
        /\ UNCHANGED <<table, lastSuccess, cursor, queue, deleting, received, excused, faults>>
    BY DEF StartReader, synapseVars
  <1>4. to \in ReaderStates /\ to.kind = k /\ to.at = "cursor" /\ to.current = MaxStreamID(k)
    <2> DEFINE m == MaxStreamID(k)
    <2>1. m \in 0..MaxRows
      BY <1>2
    <2> HIDE DEF m
    <2>2. /\ [Idle EXCEPT !.kind = k, !.at = "cursor", !.current = m] \in ReaderStates
          /\ [Idle EXCEPT !.kind = k, !.at = "cursor", !.current = m].kind = k
          /\ [Idle EXCEPT !.kind = k, !.at = "cursor", !.current = m].at = "cursor"
          /\ [Idle EXCEPT !.kind = k, !.at = "cursor", !.current = m].current = m
      BY <2>1, IdleIs DEF ReaderStates
    <2> QED
      BY <2>2 DEF m
  <1> HIDE DEF to
  <1>5. MaxStreamID(k) <= Len(table[k])
    BY <1>1, <1>2, TablesTyped
  <1>6. Covers(to, table[to.kind], cursor[to.kind], Has[to.kind])
    BY <1>4, <1>5 DEF Covers
  <1>7. announced' \in [Kinds -> SUBSET Ids] /\ faults' \in 0..MaxFaults
    BY <1>1, <1>3 DEF OutboxTypeOK
  <1> QED
    BY <1>3, <1>4, <1>6, <1>7, OnlyReaderStep

LEMMA ReadCursorKeeps ==
  ASSUME OutboxInv, NEW r \in Readers, ReadCursor(r)
  PROVE  OutboxInv'
  <1> DEFINE d == reader[r]
             to == [d EXCEPT !.at = "read", !.last = cursor[d.kind]]
  <1>1. OutboxTypeOK
    BY DEF OutboxInv
  <1>2. d \in ReaderStates /\ d.kind \in Kinds /\ cursor[d.kind] \in 0..MaxRows /\ cursor[d.kind] \in Nat
    BY <1>1, StateTyped
  <1>3. /\ d.at = "cursor" /\ Goes(r, to)
        /\ UNCHANGED <<table, lastSuccess, cursor, announced, queue, deleting, received, excused, faults>>
    BY DEF ReadCursor, synapseVars
  <1>4. /\ to \in ReaderStates /\ to.kind = d.kind /\ to.at = "read" /\ to.current = d.current
        /\ to.last = cursor[d.kind]
    BY <1>2 DEF ReaderStates
  <1>5. d.current <= Len(table[d.kind])
    BY <1>3 DEF OutboxInv, ReadersCover, ReaderCovers, Covers
  <1> HIDE DEF to, d
  <1>6. Covers(to, table[to.kind], cursor[to.kind], Has[to.kind])
    BY <1>2, <1>4, <1>5 DEF Covers
  <1>7. announced' \in [Kinds -> SUBSET Ids] /\ faults' \in 0..MaxFaults
    BY <1>1, <1>3 DEF OutboxTypeOK
  <1> QED
    BY <1>3, <1>4, <1>6, <1>7, OnlyReaderStep

LEMMA ReaderFailsKeeps ==
  ASSUME OutboxInv, NEW r \in Readers, ReaderFails(r)
  PROVE  OutboxInv'
  <1>1. /\ Goes(r, Idle)
        /\ UNCHANGED <<table, lastSuccess, cursor, announced, queue, deleting, received, excused, faults>>
    BY DEF ReaderFails, synapseVars
  <1>2. announced' \in [Kinds -> SUBSET Ids] /\ faults' \in 0..MaxFaults
    BY <1>1 DEF OutboxInv, OutboxTypeOK
  <1>3. Covers(Idle, table[Idle.kind], cursor[Idle.kind], Has[Idle.kind])
    BY IdleCovers
  <1> QED
    BY <1>1, <1>2, <1>3, IdleIs, OnlyReaderStep

LEMMA SetCursorKeeps ==
  ASSUME OutboxInv, NEW r \in Readers, SetCursor(r)
  PROVE  OutboxInv'
  <1> DEFINE d == reader[r]
             k == reader[r].kind
  <1>1. OutboxTypeOK
    BY DEF OutboxInv
  <1>2. /\ d \in ReaderStates /\ k \in Kinds /\ cursor[k] \in 0..MaxRows /\ cursor[k] \in Nat
        /\ d.next \in 0..MaxRows /\ d.next \in Nat
    BY <1>1, StateTyped, ReaderFields
  <1>3. /\ d.at = "set" /\ Goes(r, Idle)
        /\ UNCHANGED <<table, lastSuccess, announced, queue, deleting, received, excused>>
    BY DEF SetCursor, synapseVars
  <1>4. Covered(table[k], d.next, Has[k])
    BY <1>3 DEF OutboxInv, ReadersCover, ReaderCovers, Covers
  <1>5. \/ cursor' = [cursor EXCEPT ![k] = Advanced(k, d.next)] /\ UNCHANGED faults
        \/ faults' \in 0..MaxFaults /\ UNCHANGED cursor
    <2>1. Fault => faults' \in 0..MaxFaults
      BY <1>1, DeviceOutboxAssumption DEF Fault, OutboxTypeOK
    <2> QED
      BY <2>1 DEF SetCursor
  <1>6. faults' \in 0..MaxFaults /\ announced' \in [Kinds -> SUBSET Ids] /\ excused' \in [Kinds -> SUBSET Ids]
    BY <1>1, <1>3, <1>5 DEF OutboxTypeOK
  <1>7. Covers(Idle, table[Idle.kind], cursor'[Idle.kind], Has'[Idle.kind])
    BY IdleCovers
  <1> HIDE DEF d, k
  <1>8. /\ Advanced(k, d.next) \in 0..MaxRows /\ cursor[k] <= Advanced(k, d.next)
        /\ Advanced(k, d.next) = cursor[k] \/ Advanced(k, d.next) = d.next
    BY <1>2 DEF Advanced
  <1>9. /\ cursor' \in [Kinds -> 0..MaxRows]
        /\ \A j \in Kinds : \/ cursor'[j] = cursor[j]
                            \/ j = k /\ cursor'[j] = d.next /\ cursor[j] <= cursor'[j]
    <2>1. CASE UNCHANGED cursor
      BY <1>1, <2>1 DEF OutboxTypeOK
    <2>2. CASE cursor' = [cursor EXCEPT ![k] = Advanced(k, d.next)]
      <3>1. cursor \in [Kinds -> 0..MaxRows]
        BY <1>1 DEF OutboxTypeOK
      <3> QED
        BY <1>2, <1>8, <2>2, <3>1
    <2> QED
      BY <1>5, <2>1, <2>2
  <1>10. \A j \in Kinds : cursor[j] <= cursor'[j]
    <2>1. \A j \in Kinds : cursor[j] \in Nat
      BY <1>1, StateTyped
    <2>2. \A j \in Kinds : cursor[j] <= cursor[j]
      BY <2>1
    <2> QED
      BY <1>9, <2>2
  <1>11. \A j \in Kinds : cursor'[j] = cursor[j] \/ Covered(table[j], cursor'[j], Has[j])
    BY <1>4, <1>9
  <1>12. \A j \in Kinds : excused[j] \subseteq excused'[j]
    BY <1>3
  <1> QED
    BY <1>3, <1>6, <1>7, <1>9, <1>10, <1>11, <1>12, IdleIs, ReaderStep

(* A goroutine that has its units covers the range it read.                *)
LEMMA BatchCovers ==
  ASSUME NEW k \in Kinds, NEW rows, NEW units, Unmarked(units, k), units # <<>>,
         rows \subseteq Carried(units, k), NEW next \in 0..MaxRows,
         NEW t \in Seq(Rows), NEW S, Covered(t, next, S \cup rows), NEW c,
         NEW d \in ReaderStates, d.at = "queue", d.kind = k, d.next = next,
         d.units = MarkLast(units, next)
  PROVE  Covers(d, t, c, S)
  <1>1. /\ d.units # <<>> /\ Batch(d.units, k, next)
        /\ Carried(d.units, k) = Carried(units, k)
    BY MarkLastIs
  <1>2. S \cup rows \subseteq S \cup Carried(d.units, k)
    BY <1>1
  <1>3. next \in Nat
    BY DeviceOutboxAssumption
  <1>4. Covered(t, next, S \cup Carried(d.units, k))
    BY <1>2, <1>3, CoveredStays, ContinuesSame
  <1> QED
    BY <1>1, <1>4 DEF Covers

LEMMA BuildKeeps ==
  ASSUME OutboxInv, NEW r \in Readers, Build(r)
  PROVE  OutboxInv'
  <1> DEFINE d == reader[r]
             k == "deviceLists"
  <1>1. OutboxTypeOK /\ TablesBounded /\ LastWasSent
    BY DEF OutboxInv
  <1>2. d \in ReaderStates /\ d.next \in 0..MaxRows /\ d.last \in Nat
    BY <1>1, StateTyped, ReaderFields
  <1>3. PICK units \in DeviceListUnits(d.rows, d.last) :
          Goes(r, [d EXCEPT !.at = "queue", !.rows = {}, !.last = 0,
                     !.units = MarkLast(units, d.next)])
    BY DEF Build
  <1> DEFINE to == [d EXCEPT !.at = "queue", !.rows = {}, !.last = 0,
                      !.units = MarkLast(units, d.next)]
  <1>4. /\ d.at = "build"
        /\ UNCHANGED <<table, lastSuccess, cursor, announced, queue, deleting, received, excused, faults>>
    BY DEF Build, synapseVars
  <1>5. /\ d.kind = k /\ d.rows # {} /\ d.rows \in SUBSET (1..Len(table[k]))
        /\ Covered(table[k], d.next, Has[k] \cup d.rows)
    <2>1. ReaderCovers(r)
      BY DEF OutboxInv, ReadersCover
    <2> QED
      BY <1>4, <2>1 DEF ReaderCovers, Covers
  <1>6. /\ Unmarked(units, k) /\ units # <<>> /\ d.rows \subseteq Carried(units, k)
        /\ RefersIn(units, table[k], Done[k])
    BY <1>1, <1>2, <1>3, <1>5, DeviceListUnitsAre
  <1> DEFINE p == MarkLast(units, d.next)
  <1>7. /\ p \in Seq(Units) /\ Len(p) = Len(units)
        /\ \A i \in 1..Len(p) : /\ p[i].kind = units[i].kind /\ p[i].rows = units[i].rows
                                /\ p[i].prev = units[i].prev /\ p[i].user = units[i].user
        /\ \A n \in 0..Len(p) : CarriedTo(p, n, k) = CarriedTo(units, n, k)
    BY <1>2, <1>6, MarkLastIs
  <1> HIDE DEF p
  <1>8. /\ to \in ReaderStates /\ to.kind = d.kind /\ to.at = "queue" /\ to.next = d.next
        /\ to.units = p
    <2>1. 0 \in 0..MaxRows
      BY DeviceOutboxAssumption
    <2>2. to = [d EXCEPT !.at = "queue", !.rows = {}, !.last = 0, !.units = p]
      BY DEF p
    <2> HIDE DEF to, d
    <2> QED
      BY <1>2, <1>7, <2>1, <2>2 DEF ReaderStates
  <1>9. table[k] \in Seq(Rows)
    BY <1>1, StateTyped, KindsAre
  <1>10. Goes(r, to)
    BY <1>3
  <1> HIDE DEF to, d
  <1>11. Covers(to, table[to.kind], cursor[to.kind], Has[to.kind])
    BY <1>2, <1>5, <1>6, <1>8, <1>9, BatchCovers, KindsAre DEF p
  <1>12. RefersIn(p, table[k], Has[k])
    <2>1. Done[k] \subseteq Has[k]
      BY KindsAre DEF Has
    <2>2. ASSUME NEW i \in 1..Len(p)
          PROVE  Refers(p[i], table[k], Has[k] \cup CarriedTo(p, i - 1, k))
      <3>1. i \in 1..Len(units) /\ i - 1 \in 0..Len(p)
        BY <1>7
      <3>2. Refers(units[i], table[k], Done[k] \cup CarriedTo(units, i - 1, k))
        BY <1>6, <3>1 DEF RefersIn
      <3>3. CarriedTo(p, i - 1, k) = CarriedTo(units, i - 1, k)
        BY <1>7, <3>1
      <3> QED
        BY <1>7, <2>1, <3>2, <3>3 DEF Refers
    <2> QED
      BY <2>2 DEF RefersIn
  <1>13. announced' \in [Kinds -> SUBSET Ids] /\ faults' \in 0..MaxFaults
    BY <1>1, <1>4 DEF OutboxTypeOK
  <1> QED
    BY <1>4, <1>8, <1>10, <1>11, <1>12, <1>13, OnlyReaderStep

(* What a query finds, and where the next one resumes: below that, a row   *)
(* of ours that is in the table was found, or is not above last.           *)
LEMMA RangeRead ==
  ASSUME OutboxTypeOK, TablesBounded, NEW k \in Kinds, NEW last \in Nat,
         NEW current \in 0..MaxRows, current <= Len(table[k]),
         NEW rows, rows = Limited({id \in Ours(k) : last < id /\ id <= current}),
         NEW next, next = ResumeFrom(k, rows, current)
  PROVE  /\ rows \in SUBSET (1..Len(table[k])) /\ rows \in SUBSET Ids
         /\ next \in 0..MaxRows /\ next <= Len(table[k])
         /\ \A id \in Ours(k) : id <= next => id \in rows \/ id <= last
  <1> DEFINE S == {id \in Ours(k) : last < id /\ id <= current}
             n == Len(table[k])
  <1>1. n \in Nat /\ n <= MaxRows /\ DOMAIN table[k] = 1..n /\ 1..n \subseteq Ids
    BY TablesTyped
  <1>2. Ours(k) \subseteq 1..n
    BY <1>1 DEF Ours, Held
  <1>3. S \in SUBSET (1..n)
    BY <1>2
  <1>4. /\ rows \subseteq S /\ Cardinality(rows) \in Nat
        /\ \A a \in S : \A b \in rows : a <= b => a \in rows
        /\ Cardinality(rows) < EDUsPerRead => rows = S
        /\ rows = {} => S = {}
    BY <1>1, <1>3, LimitedIs
  <1>5. rows \in SUBSET (0..n)
    <2>1. \A id \in 1..n : id \in 0..n
      BY <1>1
    <2>2. rows \subseteq 1..n
      BY <1>3, <1>4
    <2> HIDE DEF n, S
    <2> QED
      BY <2>1, <2>2
  <1>6. rows # {} => Max(rows) \in rows /\ \A b \in rows : Max(rows) >= b
    BY <1>1, <1>5, MaxIsMember
  <1>7. /\ current \in Nat /\ \A id \in Ours(k) : id \in Nat
    BY <1>1, <1>2, DeviceOutboxAssumption
  <1>8. rows \in SUBSET (1..n)
    BY <1>3, <1>4
  <1> HIDE DEF n
  <1>9. CASE rows = {} \/ (k = "toDevice" /\ Cardinality(rows) < EDUsPerRead)
    <2>1. next = current /\ rows = S
      BY <1>4, <1>9 DEF ResumeFrom
    <2>2. ASSUME NEW id \in Ours(k), id <= next PROVE id \in rows \/ id <= last
      BY <1>7, <2>1, <2>2
    <2> QED
      BY <1>1, <1>8, <2>1, <2>2 DEF n
  <1>10. CASE ~(rows = {} \/ (k = "toDevice" /\ Cardinality(rows) < EDUsPerRead))
    <2>1. next = Max(rows) /\ next \in rows
      BY <1>6, <1>10 DEF ResumeFrom
    <2>2. next \in Ours(k) /\ next <= current /\ next \in Nat
      BY <1>4, <1>7, <2>1
    <2>3. ASSUME NEW id \in Ours(k), id <= next PROVE id \in rows \/ id <= last
      <3>1. id <= current
        BY <1>7, <2>2, <2>3
      <3>2. id \in S \/ id <= last
        BY <1>7, <3>1
      <3> QED
        BY <1>4, <2>1, <2>3, <3>2
    <2>4. next \in 0..MaxRows /\ next <= n
      BY <1>1, <1>2, <2>2, DeviceOutboxAssumption
    <2> QED
      BY <1>1, <1>8, <2>3, <2>4 DEF n
  <1> QED
    BY <1>9, <1>10

LEMMA ReadRowsKeeps ==
  ASSUME OutboxInv, NEW r \in Readers, ReadRows(r)
  PROVE  OutboxInv'
  <1> DEFINE d == reader[r]
             k == reader[r].kind
             rows == Limited({id \in Ours(k) : d.last < id /\ id <= d.current})
             next == ResumeFrom(k, rows, d.current)
             read == [d EXCEPT !.next = next, !.current = 0]
             open == {id \in DOMAIN table[k] : table[k][id].state = "open" /\ id <= next}
             toSet == [read EXCEPT !.at = "set", !.last = 0]
             toBuild == [read EXCEPT !.at = "build", !.rows = rows]
             Messages(ids) == [i \in DOMAIN ids |-> Message(ids[i])]
             ToQueue(ids) == [read EXCEPT !.at = "queue", !.last = 0,
                                !.units = MarkLast(Messages(ids), next)]
  <1>1. OutboxTypeOK /\ TablesBounded /\ DeletedWasReceived
    BY DEF OutboxInv
  <1>2. /\ d \in ReaderStates /\ k \in Kinds /\ d.current \in 0..MaxRows
        /\ d.last \in Nat /\ d.last \in 0..MaxRows /\ d.kind = k
    BY <1>1, StateTyped, ReaderFields
  <1>3. /\ d.at = "read" /\ excused' = [excused EXCEPT ![k] = @ \cup open]
        /\ UNCHANGED <<table, lastSuccess, cursor, announced, queue, deleting, received, faults>>
        /\ \/ rows = {} /\ Goes(r, toSet)
           \/ rows # {} /\ k = "toDevice" /\ \E ids \in InOrder(rows) : Goes(r, ToQueue(ids))
           \/ rows # {} /\ k = "deviceLists" /\ Goes(r, toBuild)
    BY DEF ReadRows, synapseVars
  <1>4. d.current <= Len(table[k]) /\ d.last <= cursor[k]
    <2>1. ReaderCovers(r)
      BY DEF OutboxInv, ReadersCover
    <2> QED
      BY <1>3, <2>1 DEF ReaderCovers, Covers
  <1>5. /\ rows \in SUBSET (1..Len(table[k])) /\ rows \in SUBSET Ids
        /\ next \in 0..MaxRows /\ next <= Len(table[k])
        /\ \A id \in Ours(k) : id <= next => id \in rows \/ id <= d.last
    BY <1>1, <1>2, <1>4, RangeRead
  <1>6. /\ table[k] \in Seq(Rows) /\ Len(table[k]) \in Nat /\ DOMAIN table[k] = 1..Len(table[k])
        /\ 1..Len(table[k]) \subseteq Ids /\ \A id \in 1..Len(table[k]) : table[k][id] \in Rows
    BY <1>1, <1>2, TablesTyped
  <1>7. cursor[k] \in Nat /\ cursor[k] \in 0..MaxRows /\ next \in Nat
    BY <1>1, <1>2, <1>5, StateTyped, DeviceOutboxAssumption
  <1> HIDE DEF rows, next, d, k
  <1>8. /\ excused' \in [Kinds -> SUBSET Ids] /\ \A j \in Kinds : excused[j] \subseteq excused'[j]
        /\ open \subseteq excused'[k]
    <2>1. excused \in [Kinds -> SUBSET Ids] /\ open \in SUBSET Ids
      BY <1>1, <1>6 DEF OutboxTypeOK
    <2> HIDE DEF open
    <2> QED
      BY <1>2, <1>3, <2>1
  <1>9. \A j \in Kinds : Done[j] \subseteq Done'[j] /\ Has[j] \subseteq Has'[j]
    BY <1>3, <1>8, HasStays
  <1>10. open \subseteq Has'[k]
    BY <1>2, <1>8 DEF Has, Done
  <1>11. ASSUME NEW id \in 1..next, table[k][id].mine PROVE id \in Has'[k] \cup rows
    <2>1. id \in DOMAIN table[k] /\ id \in Nat /\ id <= next /\ id >= 1
      BY <1>5, <1>6, <1>7
    <2>2. table[k][id].state \in {"open", "in", "gone"}
      BY <1>6, <2>1, RowFields
    <2>3. CASE table[k][id].state = "open"
      BY <1>10, <2>1, <2>3
    <2>4. CASE table[k][id].state = "gone"
      <3>1. id \in Done[k]
        BY <1>1, <1>2, <2>1, <2>4 DEF DeletedWasReceived, Done
      <3> QED
        BY <1>2, <1>9, <3>1 DEF Has
    <2>5. CASE table[k][id].state = "in"
      <3>1. id \in Ours(k)
        BY <1>11, <2>1, <2>5 DEF Ours, Held
      <3>2. CASE id <= d.last
        <4>1. id \in 1..cursor[k]
          BY <1>2, <1>4, <1>7, <2>1, <3>2
        <4>2. id \in Has[k]
          BY <1>2, <1>11, <4>1 DEF OutboxInv, CursorCovered, Covered
        <4> QED
          BY <1>2, <1>9, <4>2
      <3> QED
        BY <1>5, <2>1, <3>1, <3>2
    <2> QED
      BY <2>2, <2>3, <2>4, <2>5
  <1>12. Covered(table[k], next, Has'[k] \cup rows)
    BY <1>5, <1>11 DEF Covered
  <1>13. /\ read \in ReaderStates /\ read.kind = k /\ read.next = next /\ read.last = d.last
    <2>1. 0 \in 0..MaxRows
      BY DeviceOutboxAssumption
    <2> QED
      BY <1>2, <1>5, <2>1 DEF ReaderStates
  <1>14. 0 \in 0..MaxRows
    BY DeviceOutboxAssumption
  <1> HIDE DEF read
  <1>15. /\ cursor' \in [Kinds -> 0..MaxRows] /\ announced' \in [Kinds -> SUBSET Ids]
         /\ faults' \in 0..MaxFaults /\ \A j \in Kinds : cursor[j] <= cursor'[j] /\ cursor'[j] = cursor[j]
    <2>1. \A j \in Kinds : cursor[j] \in Nat
      BY <1>1, StateTyped
    <2>2. \A j \in Kinds : cursor[j] <= cursor[j]
      BY <2>1
    <2> QED
      BY <1>1, <1>3, <2>2 DEF OutboxTypeOK
  <1>16. ASSUME NEW to \in ReaderStates, Goes(r, to), to.kind = k,
                Covers(to, table[k], cursor[k], Has'[k]),
                to.at = "queue" => RefersIn(to.units, table["deviceLists"], Has'["deviceLists"])
         PROVE  OutboxInv'
    <2>1. Covers(to, table[to.kind], cursor'[to.kind], Has'[to.kind])
      BY <1>3, <1>16
    <2> QED
      BY <1>3, <1>8, <1>15, <1>16, <2>1, ReaderStep
  <1>17. CASE rows = {} /\ Goes(r, toSet)
    <2>1. /\ toSet \in ReaderStates /\ toSet.kind = k /\ toSet.at = "set" /\ toSet.next = next
      BY <1>13, <1>14 DEF ReaderStates
    <2> HIDE DEF toSet
    <2>2. Has'[k] \cup rows = Has'[k]
      BY <1>17
    <2>3. Covered(table[k], next, Has'[k])
      BY <1>12, <2>2
    <2>4. Covers(toSet, table[k], cursor[k], Has'[k])
      BY <2>1, <2>3 DEF Covers
    <2> QED
      BY <1>16, <1>17, <2>1, <2>4
  <1>18. CASE rows # {} /\ k = "deviceLists" /\ Goes(r, toBuild)
    <2>1. /\ toBuild \in ReaderStates /\ toBuild.kind = k /\ toBuild.at = "build"
          /\ toBuild.next = next /\ toBuild.rows = rows /\ toBuild.last = d.last
      BY <1>5, <1>13 DEF ReaderStates
    <2> HIDE DEF toBuild
    <2>2. Covers(toBuild, table[k], cursor[k], Has'[k])
      BY <1>4, <1>5, <1>12, <1>18, <2>1 DEF Covers
    <2> QED
      BY <1>16, <1>18, <2>1, <2>2
  <1>19. CASE rows # {} /\ k = "toDevice" /\ \E ids \in InOrder(rows) : Goes(r, ToQueue(ids))
    <2>1. PICK ids \in InOrder(rows) : Goes(r, ToQueue(ids))
      BY <1>19
    <2> DEFINE units == Messages(ids)
               p == MarkLast(units, next)
               to == [read EXCEPT !.at = "queue", !.last = 0, !.units = p]
    <2>2. /\ Unmarked(units, k) /\ units # <<>> /\ rows \subseteq Carried(units, k)
          /\ \A i \in 1..Len(units) : units[i].prev = 0
      BY <1>5, <1>19, MessagesAre
    <2>3. Goes(r, to)
      BY <2>1
    <2> HIDE DEF units
    <2>4. /\ p \in Seq(Units) /\ Len(p) = Len(units)
          /\ \A i \in 1..Len(p) : p[i].prev = units[i].prev
      BY <1>5, <2>2, MarkLastIs
    <2> HIDE DEF p
    <2>5. /\ to \in ReaderStates /\ to.kind = k /\ to.at = "queue" /\ to.next = next
          /\ to.units = p
      BY <1>13, <1>14, <2>4 DEF ReaderStates
    <2> HIDE DEF to
    <2>6. Covers(to, table[k], cursor[k], Has'[k])
      BY <1>2, <1>5, <1>6, <1>12, <2>2, <2>5, BatchCovers DEF p
    <2>7. \A i \in 1..Len(p) : p[i].prev = 0
      BY <2>2, <2>4
    <2>8. RefersIn(p, table["deviceLists"], Has'["deviceLists"])
      BY <2>7 DEF RefersIn, Refers
    <2> QED
      BY <1>16, <2>3, <2>5, <2>6, <2>8
  <1> QED
    BY <1>3, <1>17, <1>18, <1>19

LEMMA EnqueueKeeps ==
  ASSUME OutboxInv, NEW r \in Readers, Enqueue(r)
  PROVE  OutboxInv'
  <1> DEFINE d == reader[r]
             k == reader[r].kind
             e == Head(d.units)
             rest == Tail(d.units)
             n == Len(d.units)
             to == [d EXCEPT !.units = rest, !.at = IF n = 1 THEN "set" ELSE d.at]
  <1>1. OutboxTypeOK
    BY DEF OutboxInv
  <1>2. /\ d \in ReaderStates /\ k \in Kinds /\ d.next \in Nat /\ d.units \in Seq(Units)
        /\ queue \in Seq(Units) /\ Len(queue) \in Nat
    BY <1>1, StateTyped, ReaderFields
  <1>3. /\ d.at = "queue" /\ queue' = Append(queue, e) /\ Goes(r, to)
        /\ UNCHANGED <<table, lastSuccess, cursor, announced, deleting, received, excused, faults>>
    BY DEF Enqueue, synapseVars
  <1>4. /\ d.units # <<>> /\ Batch(d.units, k, d.next)
        /\ Covered(table[k], d.next, Has[k] \cup Carried(d.units, k))
    <2>1. ReaderCovers(r)
      BY DEF OutboxInv, ReadersCover
    <2> QED
      BY <1>3, <2>1 DEF ReaderCovers, Covers
  <1>5. RefersIn(d.units, table["deviceLists"], Has["deviceLists"])
    BY <1>3 DEF OutboxInv, UnitsRefer
  <1>6. n \in Nat /\ n >= 1 /\ 1 \in 1..n /\ n \in 1..n
    BY <1>2, <1>4, EmptySeq
  <1>7. /\ e = d.units[1] /\ e \in Units /\ rest \in Seq(Units) /\ Len(rest) = n - 1
        /\ \A i \in 1..Len(rest) : rest[i] = d.units[i + 1] /\ i + 1 \in 1..n
    BY <1>2, <1>6
  <1>8. e.kind = k /\ e.upTo = IF n = 1 THEN d.next ELSE 0
    BY <1>4, <1>6, <1>7 DEF Batch
  <1> HIDE DEF rest, e
  <1>9. /\ to \in ReaderStates /\ to.kind = k /\ to.next = d.next /\ to.units = rest
        /\ to.at = IF n = 1 THEN "set" ELSE "queue"
    BY <1>2, <1>3, <1>7 DEF ReaderStates
  <1>10. \A j \in Kinds : table[j] \in Seq(Rows) /\ cursor[j] \in Nat
    BY <1>1, StateTyped
  <1> HIDE DEF to, d, k, n
  <1>11. /\ reader' = [reader EXCEPT ![r] = to] /\ reader'[r] = to
         /\ \A r2 \in Readers : r2 # r => reader'[r2] = reader[r2]
    BY <1>1, <1>3 DEF Goes, OutboxTypeOK
  <1>12. /\ queue' \in Seq(Units) /\ Len(queue') = Len(queue) + 1
         /\ queue'[Len(queue) + 1] = e /\ \A i \in 1..Len(queue) : queue'[i] = queue[i]
         /\ \A j : Carried(queue, j) \subseteq Carried(queue', j)
         /\ e.rows \subseteq Carried(queue', k)
         /\ \A j : \A i \in 0..Len(queue) : CarriedTo(queue', i, j) = CarriedTo(queue, i, j)
         /\ CarriedTo(queue', Len(queue) + 1, k) = Carried(queue, k) \cup e.rows
    <2> DEFINE q == Append(queue, e)
    <2>1. /\ q \in Seq(Units) /\ Len(q) = Len(queue) + 1
          /\ q[Len(queue) + 1] = e /\ \A i \in 1..Len(queue) : q[i] = queue[i]
          /\ \A j : Carried(queue, j) \subseteq Carried(q, j)
          /\ e.rows \subseteq Carried(q, e.kind)
          /\ \A j : \A i \in 0..Len(queue) : CarriedTo(q, i, j) = CarriedTo(queue, i, j)
          /\ CarriedTo(q, Len(queue) + 1, e.kind) = Carried(queue, e.kind) \cup e.rows
      BY <1>2, <1>7, CarriedAppended
    <2>2. queue' = q /\ e.kind = k
      BY <1>3, <1>8
    <2> HIDE DEF q
    <2> QED
      BY <2>1, <2>2
  <1>13. OutboxTypeOK'
    BY <1>1, <1>3, <1>9, <1>11, <1>12 DEF OutboxTypeOK
  <1>14. /\ Done' = Done
         /\ \A j \in Kinds : Has[j] = Done[j] \cup Carried(queue, j) /\ Has'[j] = Done[j] \cup Carried(queue', j)
    BY <1>3 DEF Done, Has
  <1>15. (\A j \in Kinds : Has[j] \subseteq Has'[j]) /\ Has[k] \cup e.rows \subseteq Has'[k]
    BY <1>2, <1>12, <1>14
  <1>16. Onward
    <2>1. \A j \in Kinds : cursor[j] <= cursor'[j]
      BY <1>3, <1>10
    <2>2. \A j \in Kinds : Continues(table[j], table'[j])
      BY <1>3, <1>10, ContinuesSame
    <2> QED
      BY <1>13, <1>14, <1>15, <2>1, <2>2 DEF Onward
  <1>17. Carried(d.units, k) \subseteq e.rows \cup Carried(rest, k)
    BY <1>2, <1>4, <1>7, <1>8, CarriedHead DEF rest
  <1>18. Covered(table[k], d.next, Has'[k] \cup Carried(rest, k))
    <2>1. Has[k] \cup Carried(d.units, k) \subseteq Has'[k] \cup Carried(rest, k)
      BY <1>15, <1>17
    <2> QED
      BY <1>2, <1>4, <1>10, <2>1, CoveredStays, ContinuesSame
  <1>19. n = 1 => Carried(rest, k) = {} /\ Carried(d.units, k) \subseteq e.rows
    <2>1. n = 1 => Len(rest) = 0
      BY <1>7
    <2>2. ASSUME Len(rest) = 0, NEW id \in Carried(rest, k) PROVE FALSE
      <3>1. \E i \in 1..Len(rest) : rest[i].kind = k /\ id \in rest[i].rows
        BY <1>7, CarriedIs
      <3> QED
        BY <2>2, <3>1
    <2> QED
      BY <1>17, <2>1, <2>2
  <1>20. Covers(to, table[k], cursor[k], Has'[k])
    <2>1. CASE n = 1
      <3>1. Has'[k] \cup Carried(rest, k) = Has'[k]
        BY <1>19, <2>1
      <3>2. Covered(table[k], d.next, Has'[k])
        BY <1>18, <3>1
      <3> QED
        BY <1>9, <2>1, <3>2 DEF Covers
    <2>2. CASE n # 1
      <3>1. rest # <<>>
        BY <1>6, <1>7, <2>2
      <3>2. Batch(rest, k, d.next)
        <4>1. ASSUME NEW i \in 1..Len(rest)
              PROVE  rest[i].kind = k /\ rest[i].upTo = IF i = Len(rest) THEN d.next ELSE 0
          <5>1. rest[i] = d.units[i + 1] /\ i + 1 \in 1..n /\ (i + 1 = n <=> i = Len(rest))
            BY <1>6, <1>7
          <5>2. d.units[i + 1].kind = k /\ d.units[i + 1].upTo = IF i + 1 = n THEN d.next ELSE 0
            BY <1>4, <5>1 DEF Batch, n
          <5> QED
            BY <5>1, <5>2
        <4> QED
          BY <4>1 DEF Batch
      <3> QED
        BY <1>9, <1>18, <2>2, <3>1, <3>2 DEF Covers
    <2> QED
      BY <2>1, <2>2
  <1>21. \A r2 \in Readers : reader'[r2] = reader[r2] \/ ReaderCovers(r2)'
    <2>1. ReaderCovers(r)'
      BY <1>3, <1>9, <1>11, <1>20 DEF ReaderCovers
    <2> QED
      BY <1>11, <2>1
  <1>22. MarksCovered'
    <2>1. ASSUME NEW i \in 1..Len(queue')
          PROVE  Covered(table[queue'[i].kind], queue'[i].upTo,
                         Done[queue'[i].kind] \cup CarriedTo(queue', i, queue'[i].kind))
      <3>1. CASE i \in 1..Len(queue)
        <4>1. Covered(table[queue[i].kind], queue[i].upTo,
                      Done[queue[i].kind] \cup CarriedTo(queue, i, queue[i].kind))
          BY <3>1 DEF OutboxInv, MarksCovered, MarksIn
        <4>2. i \in 0..Len(queue)
          BY <1>2, <3>1
        <4>3. CarriedTo(queue', i, queue[i].kind) = CarriedTo(queue, i, queue[i].kind)
          BY <1>12, <4>2
        <4> QED
          BY <1>12, <3>1, <4>1, <4>3
      <3>2. CASE i = Len(queue) + 1
        <4>1. queue'[i] = e /\ CarriedTo(queue', i, k) = Carried(queue, k) \cup e.rows
          BY <1>12, <3>2
        <4>2. Covered(table[k], e.upTo, Done[k] \cup (Carried(queue, k) \cup e.rows))
          <5>1. CASE n = 1
            <6>1. Has[k] \cup Carried(d.units, k) \subseteq Done[k] \cup (Carried(queue, k) \cup e.rows)
              BY <1>2, <1>14, <1>19, <5>1
            <6>2. Covered(table[k], d.next, Done[k] \cup (Carried(queue, k) \cup e.rows))
              BY <1>2, <1>4, <1>10, <6>1, CoveredStays, ContinuesSame
            <6> QED
              BY <1>8, <5>1, <6>2
          <5>2. CASE n # 1
            <6>1. e.upTo = 0
              BY <1>8, <5>2
            <6> QED
              BY <1>2, <1>10, <6>1, NothingCovered
          <5> QED
            BY <5>1, <5>2
        <4> QED
          BY <1>8, <4>1, <4>2
      <3> QED
        BY <1>2, <1>12, <3>1, <3>2
    <2> QED
      BY <1>3, <1>14, <2>1 DEF MarksCovered, MarksIn
  <1>23. CursorCovered' /\ DeletingCovered' /\ MarksCovered' /\ ReadersCover'
    BY <1>3, <1>16, <1>21, <1>22, CoverStays
  <1> DEFINE t == table["deviceLists"]
  <1>24. QueueRefers'
    <2>1. ASSUME NEW i \in 1..Len(queue')
          PROVE  Refers(queue'[i], t, Done["deviceLists"] \cup CarriedTo(queue', i - 1, "deviceLists"))
      <3>1. i - 1 \in 0..Len(queue)
        BY <1>2, <1>12
      <3>2. CarriedTo(queue', i - 1, "deviceLists") = CarriedTo(queue, i - 1, "deviceLists")
        BY <1>12, <3>1
      <3>3. CASE i \in 1..Len(queue)
        <4>1. Refers(queue[i], t, Done["deviceLists"] \cup CarriedTo(queue, i - 1, "deviceLists"))
          BY <3>3 DEF OutboxInv, QueueRefers, RefersIn
        <4> QED
          BY <1>12, <3>2, <3>3, <4>1
      <3>4. CASE i = Len(queue) + 1
        <4>1. queue'[i] = e /\ i - 1 = Len(queue)
          BY <1>2, <1>12, <3>4
        <4>2. CarriedTo(queue, i - 1, "deviceLists") = Carried(queue, "deviceLists")
          BY <1>2, <4>1, CarriedToAll
        <4>3. Refers(e, t, Has["deviceLists"] \cup CarriedTo(d.units, 0, "deviceLists"))
          <5>1. 1 \in 1..Len(d.units) /\ 1 - 1 = 0
            BY <1>6 DEF n
          <5>2. Refers(d.units[1], t, Has["deviceLists"] \cup CarriedTo(d.units, 1 - 1, "deviceLists"))
            BY <1>5, <5>1 DEF RefersIn
          <5> QED
            BY <1>7, <5>1, <5>2
        <4>4. CarriedTo(d.units, 0, "deviceLists") = {}
          BY DEF CarriedTo
        <4>5. Refers(e, t, Has["deviceLists"])
          BY <4>3, <4>4 DEF Refers
        <4> QED
          BY <1>14, <3>2, <4>1, <4>2, <4>5, KindsAre
      <3> QED
        BY <1>2, <1>12, <3>3, <3>4
    <2> QED
      BY <1>3, <1>14, <2>1 DEF QueueRefers, RefersIn
  <1>25. RefersIn(rest, t, Has'["deviceLists"])
    <2>1. ASSUME NEW i \in 1..Len(rest)
          PROVE  Refers(rest[i], t, Has'["deviceLists"] \cup CarriedTo(rest, i - 1, "deviceLists"))
      <3>1. rest[i] = d.units[i + 1] /\ i + 1 \in 1..n /\ (i + 1) - 1 = i
        BY <1>7
      <3>2. Refers(rest[i], t, Has["deviceLists"] \cup CarriedTo(d.units, i, "deviceLists"))
        BY <1>5, <3>1 DEF RefersIn, n
      <3>3. CASE rest[i].prev = 0
        BY <3>3 DEF Refers
      <3>4. CASE rest[i].prev # 0
        <4>1. rest[i].kind = "deviceLists"
          BY <3>2, <3>4 DEF Refers
        <4>2. k = "deviceLists"
          BY <1>4, <3>1, <4>1 DEF Batch, n
        <4>3. CarriedTo(d.units, i, k) \subseteq e.rows \cup CarriedTo(rest, i - 1, k)
          BY <1>2, <1>4, <1>7, <1>8, CarriedHead DEF rest
        <4>4. Has[k] \cup CarriedTo(d.units, i, k) \subseteq Has'[k] \cup CarriedTo(rest, i - 1, k)
          BY <1>15, <4>3
        <4> QED
          BY <3>2, <4>2, <4>4 DEF Refers
      <3> QED
        BY <3>3, <3>4
    <2> QED
      BY <2>1 DEF RefersIn
  <1>26. LastWasSent' /\ QueueRefers' /\ UnitsRefer'
    BY <1>3, <1>9, <1>11, <1>16, <1>24, <1>25, ReferenceStays
  <1>27. TablesBounded' /\ DeletedWasReceived'
    BY <1>3, <1>16, DeletedStays
  <1> QED
    BY <1>13, <1>23, <1>26, <1>27 DEF OutboxInv

(* The mark of a transaction is that of one of its units.                  *)
LEMMA MarkIs ==
  ASSUME NEW units \in Seq(Units), NEW k
  PROVE  /\ Mark(units, k) \in 0..MaxRows
         /\ \/ Mark(units, k) = 0
            \/ \E i \in 1..Len(units) : units[i].kind = k /\ units[i].upTo = Mark(units, k)
  <1> DEFINE S == {0} \cup {units[i].upTo : i \in {j \in DOMAIN units : units[j].kind = k}}
  <1>1. \A i \in 1..Len(units) : units[i] \in Units
    OBVIOUS
  <1>2. \A i \in 1..Len(units) : units[i].upTo \in 0..MaxRows
    BY <1>1, UnitFields
  <1>3. DOMAIN units = 1..Len(units) /\ 0 \in 0..MaxRows /\ MaxRows \in Nat
    BY DeviceOutboxAssumption
  <1>4. S \in SUBSET (0..MaxRows) /\ S # {}
    BY <1>2, <1>3
  <1>5. \A m \in S : m = 0 \/ \E i \in 1..Len(units) : units[i].kind = k /\ units[i].upTo = m
    BY <1>3
  <1> HIDE DEF S
  <1>6. Max(S) \in S
    BY <1>3, <1>4, MaxIsMember
  <1>7. Mark(units, k) = Max(S)
    BY DEF Mark, S
  <1> QED
    BY <1>4, <1>5, <1>6, <1>7

LEMMA TransactKeeps ==
  ASSUME OutboxInv, NEW answered \in BOOLEAN, Transact(answered)
  PROVE  OutboxInv'
  <1> DEFINE n == IF Len(queue) < MaxEDUs THEN Len(queue) ELSE MaxEDUs
             b == SubSeq(queue, n + 1, Len(queue))
  <1>1. OutboxTypeOK
    BY DEF OutboxInv
  <1>2. queue \in Seq(Units) /\ Len(queue) \in Nat
    BY <1>1, StateTyped
  <1>3. n \in 0..Len(queue) /\ n \in Nat
    BY <1>2, DeviceOutboxAssumption
  <1>4. Taken = SubSeq(queue, 1, n)
    BY DEF Taken
  <1> HIDE DEF n
  <1>5. /\ Taken \in Seq(Units) /\ Len(Taken) = n /\ \A i \in 1..n : Taken[i] = queue[i]
        /\ b \in Seq(Units) /\ Len(b) = Len(queue) - n
        /\ \A i \in 1..Len(b) : b[i] = queue[n + i]
    BY <1>2, <1>3, <1>4, CarriedCut
  <1>6. ASSUME NEW k
        PROVE  /\ Carried(Taken, k) = CarriedTo(queue, n, k)
               /\ Carried(queue, k) \subseteq Carried(Taken, k) \cup Carried(b, k)
               /\ \A i \in 0..Len(b) :
                    CarriedTo(queue, n + i, k) \subseteq Carried(Taken, k) \cup CarriedTo(b, i, k)
    BY <1>2, <1>3, <1>4, CarriedCut
  <1>7. /\ received' = [k \in Kinds |-> received[k] \cup Carried(Taken, k)]
        /\ UNCHANGED <<table, lastSuccess, cursor, announced, reader, excused, faults>>
        /\ \/ UNCHANGED <<queue, deleting>>
           \/ queue' = b /\ deleting' = [k \in Kinds |-> Mark(Taken, k)]
    <2>1. Len(Taken) + 1 = n + 1
      BY <1>5
    <2> QED
      BY <2>1 DEF Transact, synapseVars
  <1> HIDE DEF b
  <1>8. \A k \in Kinds : table[k] \in Seq(Rows) /\ cursor[k] \in Nat
    BY <1>1, StateTyped
  <1>9. OutboxTypeOK'
    <2>1. received' \in [Kinds -> SUBSET Ids]
      <3>1. \A k \in Kinds : received[k] \cup Carried(Taken, k) \in SUBSET Ids
        BY <1>1, <1>5, StateTyped, CarriedTyped
      <3> QED
        BY <1>7, <3>1
    <2>2. queue' \in Seq(Units) /\ deleting' \in [Kinds -> 0..MaxRows]
      <3>1. CASE UNCHANGED <<queue, deleting>>
        BY <1>1, <3>1 DEF OutboxTypeOK
      <3>2. CASE queue' = b /\ deleting' = [k \in Kinds |-> Mark(Taken, k)]
        <4>1. \A k \in Kinds : Mark(Taken, k) \in 0..MaxRows
          BY <1>5, MarkIs
        <4> QED
          BY <1>5, <3>2, <4>1
      <3> QED
        BY <1>7, <3>1, <3>2
    <2> QED
      BY <1>1, <1>7, <2>1, <2>2 DEF OutboxTypeOK
  <1>10. \A k \in Kinds : Done'[k] = Done[k] \cup Carried(Taken, k)
    <2> SUFFICES ASSUME NEW k \in Kinds PROVE Done'[k] = Done[k] \cup Carried(Taken, k)
      OBVIOUS
    <2>1. Done[k] = received[k] \cup excused[k] /\ Done'[k] = received'[k] \cup excused[k]
      BY <1>7 DEF Done
    <2>2. received'[k] = received[k] \cup Carried(Taken, k)
      BY <1>7
    <2> QED
      BY <2>1, <2>2
  <1>11. \A k \in Kinds : Has[k] \subseteq Has'[k]
    <2> SUFFICES ASSUME NEW k \in Kinds PROVE Has[k] \subseteq Has'[k]
      OBVIOUS
    <2>1. Has[k] = Done[k] \cup Carried(queue, k) /\ Has'[k] = Done'[k] \cup Carried(queue', k)
      BY DEF Has
    <2>2. Carried(queue, k) \subseteq Carried(Taken, k) \cup Carried(queue', k)
      BY <1>6, <1>7
    <2> QED
      BY <1>10, <2>1, <2>2
  <1>12. Onward
    <2>1. \A j \in Kinds : cursor[j] <= cursor'[j]
      BY <1>7, <1>8
    <2>2. \A j \in Kinds : Continues(table[j], table'[j])
      BY <1>7, <1>8, ContinuesSame
    <2>3. \A j \in Kinds : Done[j] \subseteq Done'[j]
      BY <1>10
    <2> QED
      BY <1>9, <1>11, <2>1, <2>2, <2>3 DEF Onward
  <1>13. ASSUME NEW k \in Kinds
         PROVE  deleting'[k] \in {0, deleting[k]} \/ Covered(table'[k], deleting'[k], Done'[k])
    <2>1. CASE UNCHANGED <<queue, deleting>>
      BY <2>1
    <2>2. CASE deleting' = [j \in Kinds |-> Mark(Taken, j)] /\ deleting'[k] # 0
      <3>1. deleting'[k] = Mark(Taken, k)
        BY <2>2
      <3>2. PICK i \in 1..Len(Taken) : Taken[i].kind = k /\ Taken[i].upTo = deleting'[k]
        BY <1>5, <2>2, <3>1, MarkIs
      <3>3. i \in 1..Len(queue) /\ i \in Nat /\ i <= n /\ queue[i].kind = k /\ queue[i].upTo = deleting'[k]
        BY <1>2, <1>3, <1>5, <3>2
      <3>4. Covered(table[k], deleting'[k], Done[k] \cup CarriedTo(queue, i, k))
        BY <3>3 DEF OutboxInv, MarksCovered, MarksIn
      <3>5. CarriedTo(queue, i, k) \subseteq Carried(Taken, k)
        BY <1>3, <1>6, <3>3, CarriedToGrows
      <3>6. Done[k] \cup CarriedTo(queue, i, k) \subseteq Done'[k]
        BY <1>10, <3>5
      <3>7. deleting'[k] \in Nat
        BY <1>9, NextTyped
      <3>8. Covered(table[k], deleting'[k], Done'[k])
        BY <1>8, <3>4, <3>6, <3>7, CoveredStays, ContinuesSame
      <3> QED
        BY <1>7, <3>8
    <2> QED
      BY <1>7, <2>1, <2>2
  <1>14. ASSUME queue' = b, NEW i \in 1..Len(b)
         PROVE  /\ n + i \in 1..Len(queue) /\ b[i] = queue[n + i] /\ b[i] \in Units
                /\ i \in 0..Len(b) /\ i - 1 \in 0..Len(b) /\ (n + i) - 1 = n + (i - 1)
    BY <1>2, <1>3, <1>5
  <1>15. queue' = queue \/ MarksCovered'
    <2>1. CASE queue' = b
      <3>1. ASSUME NEW i \in 1..Len(b)
            PROVE  Covered(table[b[i].kind], b[i].upTo, Done'[b[i].kind] \cup CarriedTo(b, i, b[i].kind))
        <4> DEFINE k == b[i].kind
        <4>1. k \in Kinds /\ b[i].upTo \in Nat
          BY <1>14, <2>1, UnitFields
        <4>2. Covered(table[k], b[i].upTo, Done[k] \cup CarriedTo(queue, n + i, k))
          BY <1>14, <2>1 DEF OutboxInv, MarksCovered, MarksIn
        <4> HIDE DEF k
        <4>3. CarriedTo(queue, n + i, k) \subseteq Carried(Taken, k) \cup CarriedTo(b, i, k)
          BY <1>6, <1>14, <2>1
        <4>4. Done[k] \cup CarriedTo(queue, n + i, k) \subseteq Done'[k] \cup CarriedTo(b, i, k)
          BY <1>10, <4>1, <4>3
        <4>5. Covered(table[k], b[i].upTo, Done'[k] \cup CarriedTo(b, i, k))
          BY <1>8, <4>1, <4>2, <4>4, CoveredStays, ContinuesSame
        <4> QED
          BY <4>5 DEF k
      <3> QED
        BY <1>7, <2>1, <3>1 DEF MarksCovered, MarksIn
    <2> QED
      BY <1>7, <2>1
  <1>16. queue' = queue \/ QueueRefers'
    <2> DEFINE k == "deviceLists"
    <2>1. CASE queue' = b
      <3>1. ASSUME NEW i \in 1..Len(b)
            PROVE  Refers(b[i], table[k], Done'[k] \cup CarriedTo(b, i - 1, k))
        <4>1. Refers(b[i], table[k], Done[k] \cup CarriedTo(queue, n + (i - 1), k))
          <5>1. Refers(queue[n + i], table[k], Done[k] \cup CarriedTo(queue, (n + i) - 1, k))
            BY <1>14, <2>1 DEF OutboxInv, QueueRefers, RefersIn
          <5> QED
            BY <1>14, <2>1, <5>1
        <4>2. CarriedTo(queue, n + (i - 1), k) \subseteq Carried(Taken, k) \cup CarriedTo(b, i - 1, k)
          BY <1>6, <1>14, <2>1
        <4>3. Done[k] \cup CarriedTo(queue, n + (i - 1), k) \subseteq Done'[k] \cup CarriedTo(b, i - 1, k)
          BY <1>10, <4>2, KindsAre
        <4> QED
          BY <4>1, <4>3 DEF Refers
      <3> QED
        BY <1>7, <2>1, <3>1 DEF QueueRefers, RefersIn
    <2> QED
      BY <1>7, <2>1
  <1>17. CursorCovered' /\ DeletingCovered' /\ MarksCovered' /\ ReadersCover'
    BY <1>7, <1>12, <1>13, <1>15, CoverStays
  <1>18. LastWasSent' /\ QueueRefers' /\ UnitsRefer'
    BY <1>7, <1>12, <1>16, ReferenceStays
  <1>19. TablesBounded' /\ DeletedWasReceived'
    BY <1>7, <1>12, DeletedStays
  <1> QED
    BY <1>9, <1>17, <1>18, <1>19 DEF OutboxInv

(* The rows a deletion takes are ours and were received.                   *)
LEMMA DeletedIs ==
  ASSUME OutboxInv, NEW k \in Kinds
  PROVE  /\ Deleted(k) \subseteq 1..Len(table[k]) /\ Deleted(k) \subseteq Done[k]
         /\ Deleted(k) \subseteq 0..MaxRows
  <1>1. /\ Len(table[k]) \in Nat /\ Len(table[k]) <= MaxRows /\ DOMAIN table[k] = 1..Len(table[k])
    BY TablesTyped DEF OutboxInv
  <1>2. deleting[k] \in Nat
    BY StateTyped DEF OutboxInv
  <1>3. ASSUME NEW id \in Deleted(k)
        PROVE  id \in 1..Len(table[k]) /\ id \in Done[k]
    <2>1. id \in 1..Len(table[k]) /\ table[k][id].mine /\ id <= deleting[k]
      BY <1>1 DEF Deleted, Ours, Held
    <2>2. id \in 1..deleting[k]
      BY <1>1, <1>2, <2>1
    <2> QED
      BY <2>1, <2>2 DEF OutboxInv, DeletingCovered, Covered
  <1>4. \A id \in 1..Len(table[k]) : id \in 0..MaxRows
    BY <1>1, DeviceOutboxAssumption
  <1> QED
    BY <1>3, <1>4

LEMMA DeleteRowsKeeps ==
  ASSUME OutboxInv, NEW k \in Kinds, DeleteRows(k)
  PROVE  OutboxInv'
  <1> DEFINE gone == [id \in DOMAIN table[k] |->
                        IF id \in Deleted(k) THEN [table[k][id] EXCEPT !.state = "gone"]
                        ELSE table[k][id]]
             Latest(u) == {lastSuccess[u]} \cup {id \in Deleted(k) : table[k][id].user = u}
  <1>1. OutboxTypeOK /\ TablesBounded
    BY DEF OutboxInv
  <1>2. \A j \in Kinds : /\ table[j] \in Seq(Rows) /\ Len(table[j]) \in Nat
                         /\ DOMAIN table[j] = 1..Len(table[j])
                         /\ \A id \in 1..Len(table[j]) : table[j][id] \in Rows
    BY <1>1, TablesTyped
  <1>3. /\ deleting' = [deleting EXCEPT ![k] = 0]
        /\ UNCHANGED <<cursor, announced, reader, queue, received, excused>>
        /\ \/ /\ table' = [table EXCEPT ![k] = gone]
              /\ lastSuccess' = IF k = "toDevice" THEN lastSuccess
                                ELSE [u \in Users |-> Max(Latest(u))]
              /\ UNCHANGED faults
           \/ Fault /\ UNCHANGED <<table, lastSuccess>>
    BY DEF DeleteRows, synapseVars
  <1>4. /\ Deleted(k) \subseteq 1..Len(table[k]) /\ Deleted(k) \subseteq Done[k]
        /\ Deleted(k) \subseteq 0..MaxRows
    BY DeletedIs
  <1>5. ASSUME NEW id \in 1..Len(table[k])
        PROVE  /\ gone[id] \in Rows /\ gone[id].mine = table[k][id].mine
               /\ gone[id].user = table[k][id].user
               /\ gone[id].state = "gone" => id \in Deleted(k) \/ table[k][id].state = "gone"
    <2>1. table[k][id] \in Rows
      BY <1>2
    <2>2. gone[id] = IF id \in Deleted(k) THEN [table[k][id] EXCEPT !.state = "gone"]
                     ELSE table[k][id]
      BY <1>2
    <2> HIDE DEF gone
    <2>3. CASE id \in Deleted(k)
      <3>1. gone[id] = [table[k][id] EXCEPT !.state = "gone"]
        BY <2>2, <2>3
      <3> QED
        BY <2>1, <2>3, <3>1 DEF Rows
    <2>4. CASE id \notin Deleted(k)
      BY <2>1, <2>2, <2>4
    <2> QED
      BY <2>3, <2>4
  <1>6. gone \in Seq(Rows) /\ Len(gone) = Len(table[k])
    <2>1. gone \in [1..Len(table[k]) -> Rows]
      BY <1>2, <1>5
    <2> HIDE DEF gone
    <2> QED
      BY <1>2, <2>1
  <1> HIDE DEF gone
  <1>7. ASSUME NEW j \in Kinds
        PROVE  table'[j] = table[j] \/ (j = k /\ table'[j] = gone)
    <2>1. CASE table' = [table EXCEPT ![k] = gone]
      BY <1>1, <2>1 DEF OutboxTypeOK
    <2> QED
      BY <1>3, <2>1
  <1>8. ASSUME NEW j \in Kinds
        PROVE  /\ Continues(table[j], table'[j]) /\ table'[j] \in Seq(Rows)
               /\ Len(table'[j]) = Len(table[j])
               /\ \A id \in 1..Len(table[j]) :
                    /\ table'[j][id].user = table[j][id].user
                    /\ table'[j][id].state = "gone" => id \in Done[j]
    <2>1. \A id \in 1..Len(table[j]) : table[j][id].state = "gone" => id \in Done[j]
      BY <1>2 DEF OutboxInv, DeletedWasReceived, Done
    <2>2. CASE table'[j] = table[j]
      BY <1>2, <2>1, <2>2, ContinuesSame
    <2>3. CASE j = k /\ table'[j] = gone
      <3>1. Len(table[k]) <= Len(gone)
        BY <1>2, <1>6
      <3>2. Continues(table[k], gone)
        BY <1>5, <3>1 DEF Continues
      <3>3. \A id \in 1..Len(table[k]) :
              gone[id].user = table[k][id].user /\ (gone[id].state = "gone" => id \in Done[k])
        BY <1>4, <1>5, <2>1, <2>3
      <3> QED
        BY <1>6, <2>3, <3>2, <3>3
    <2> QED
      BY <1>7, <2>2, <2>3
  <1>9. Done' = Done
    BY <1>3 DEF Done
  <1>10. ASSUME NEW u \in Users
         PROVE  /\ Max(Latest(u)) \in 0..MaxRows
                /\ \/ Max(Latest(u)) = lastSuccess[u]
                   \/ Max(Latest(u)) \in Deleted(k) /\ table[k][Max(Latest(u))].user = u
    <2>1. lastSuccess[u] \in 0..MaxRows /\ MaxRows \in Nat
      BY <1>1, DeviceOutboxAssumption DEF OutboxTypeOK
    <2>2. Latest(u) \in SUBSET (0..MaxRows) /\ Latest(u) # {}
      BY <1>4, <2>1
    <2>3. \A m \in Latest(u) : m = lastSuccess[u] \/ (m \in Deleted(k) /\ table[k][m].user = u)
      OBVIOUS
    <2> HIDE DEF Latest
    <2>4. Max(Latest(u)) \in Latest(u)
      BY <2>1, <2>2, MaxIsMember
    <2> QED
      BY <2>2, <2>3, <2>4
  <1> HIDE DEF Latest
  <1>11. OutboxTypeOK'
    <2>1. table' \in [Kinds -> Seq(Rows)]
      <3>1. CASE table' = [table EXCEPT ![k] = gone]
        BY <1>1, <1>6, <3>1 DEF OutboxTypeOK
      <3> QED
        BY <1>1, <1>3, <3>1 DEF OutboxTypeOK
    <2>2. lastSuccess' \in [Users -> 0..MaxRows]
      <3>1. CASE lastSuccess' = [u \in Users |-> Max(Latest(u))]
        BY <1>10, <3>1
      <3> QED
        BY <1>1, <1>3, <3>1 DEF OutboxTypeOK
    <2>3. faults' \in 0..MaxFaults
      BY <1>1, <1>3, DeviceOutboxAssumption DEF Fault, OutboxTypeOK
    <2>4. deleting' \in [Kinds -> 0..MaxRows]
      <3>1. 0 \in 0..MaxRows
        BY DeviceOutboxAssumption
      <3> QED
        BY <1>1, <1>3, <3>1 DEF OutboxTypeOK
    <2> QED
      BY <1>1, <1>3, <2>1, <2>2, <2>3, <2>4 DEF OutboxTypeOK
  <1>12. TablesBounded'
    BY <1>1, <1>8, KindsAre DEF TablesBounded
  <1>13. DeletedWasReceived'
    <2>1. ASSUME NEW j \in Kinds, NEW id \in DOMAIN table'[j], table'[j][id].state = "gone"
          PROVE  id \in received'[j] \cup excused'[j]
      <3>1. id \in 1..Len(table[j])
        BY <1>8
      <3>2. id \in Done'[j]
        BY <1>8, <1>9, <2>1, <3>1
      <3> QED
        BY <3>2 DEF Done
    <2> QED
      BY <2>1 DEF DeletedWasReceived
  <1>14. \A j \in Kinds : deleting'[j] \in {0, deleting[j]}
    BY <1>1, <1>3 DEF OutboxTypeOK
  <1>15. lastSuccess' = lastSuccess \/ LastWasSent'
    <2>1. CASE k = "deviceLists" /\ lastSuccess' = [u \in Users |-> Max(Latest(u))]
      <3>1. ASSUME NEW u \in Users, lastSuccess'[u] # 0
            PROVE  /\ lastSuccess'[u] \in 1..Len(table[k]) /\ table[k][lastSuccess'[u]].user = u
                   /\ lastSuccess'[u] \in Done[k]
        <4>1. lastSuccess'[u] = Max(Latest(u))
          BY <2>1
        <4>2. CASE lastSuccess'[u] = lastSuccess[u]
          BY <2>1, <3>1, <4>2 DEF OutboxInv, LastWasSent
        <4>3. CASE lastSuccess'[u] \in Deleted(k) /\ table[k][lastSuccess'[u]].user = u
          BY <1>4, <4>3
        <4> QED
          BY <1>10, <4>1, <4>2, <4>3
      <3>2. ASSUME NEW u \in Users, lastSuccess'[u] # 0
            PROVE  /\ lastSuccess'[u] \in 1..Len(table'[k]) /\ table'[k][lastSuccess'[u]].user = u
                   /\ lastSuccess'[u] \in Done'[k]
        BY <1>8, <1>9, <3>1, <3>2
      <3> QED
        BY <2>1, <3>2 DEF LastWasSent
    <2> QED
      BY <1>3, <2>1, KindsAre
  <1>16. \A j \in Kinds : Continues(table[j], table'[j])
    BY <1>8
  <1> QED
    BY <1>3, <1>11, <1>12, <1>13, <1>14, <1>15, <1>16, TableStep

LEMMA OutageKeeps ==
  ASSUME OutboxInv, Outage
  PROVE  OutboxInv'
  <1> DEFINE Shed(k) == UNION {queue[i].rows : i \in {j \in DOMAIN queue \ Marked : queue[j].kind = k}}
  <1>1. OutboxTypeOK
    BY DEF OutboxInv
  <1>2. queue \in Seq(Units) /\ Len(queue) \in Nat /\ DOMAIN queue = 1..Len(queue)
    BY <1>1, StateTyped
  <1>3. PICK kept \in InOrder(Marked) : queue' = [n \in DOMAIN kept |-> queue[kept[n]]]
    BY DEF Outage
  <1> DEFINE q == [n \in DOMAIN kept |-> queue[kept[n]]]
  <1>4. /\ Fault /\ excused' = [k \in Kinds |-> excused[k] \cup Shed(k)]
        /\ UNCHANGED <<table, lastSuccess, cursor, announced, reader, deleting, received>>
    BY DEF Outage, synapseVars
  <1>5. \A k : \A i \in 1..Len(queue) :
          i \notin Marked /\ queue[i].kind = k => queue[i].rows \subseteq Shed(k)
    BY <1>2
  <1>6. \A k : Shed(k) \subseteq Ids
    <2>1. \A i \in 1..Len(queue) : queue[i].rows \in SUBSET Ids
      BY <1>1, StateTyped, UnitFields
    <2> HIDE DEF Marked
    <2> QED
      BY <1>2, <2>1
  <1> HIDE DEF Shed
  <1>7. queue' = q
    BY <1>3
  <1>8. ASSUME NEW k
        PROVE  /\ q \in Seq(Units)
               /\ \A n \in 1..Len(q) : kept[n] \in 1..Len(queue) /\ q[n] = queue[kept[n]]
               /\ Carried(queue, k) \subseteq Shed(k) \cup Carried(q, k)
               /\ \A n \in 1..Len(q) :
                    /\ CarriedTo(queue, kept[n], k) \subseteq Shed(k) \cup CarriedTo(q, n, k)
                    /\ CarriedTo(queue, kept[n] - 1, k) \subseteq Shed(k) \cup CarriedTo(q, n - 1, k)
    <2> DEFINE D == Shed(k)
    <2>1. \A i \in 1..Len(queue) : i \notin Marked /\ queue[i].kind = k => queue[i].rows \subseteq D
      BY <1>5
    <2> HIDE DEF D
    <2>2. queue \in Seq(Units) /\ kept \in InOrder(Marked)
      BY <1>2, <1>3
    <2> QED
      BY <2>1, <2>2, CarriedKept DEF D
  <1>9. q \in Seq(Units) /\ \A n \in 1..Len(q) : kept[n] \in 1..Len(queue) /\ q[n] = queue[kept[n]]
    BY <1>8
  <1> HIDE DEF q
  <1>10. \A k \in Kinds : table[k] \in Seq(Rows) /\ cursor[k] \in Nat
    BY <1>1, StateTyped
  <1>11. OutboxTypeOK'
    <2>1. \A k \in Kinds : excused[k] \cup Shed(k) \in SUBSET Ids
      BY <1>1, <1>6, StateTyped
    <2>2. excused' \in [Kinds -> SUBSET Ids]
      BY <1>4, <2>1
    <2>3. faults' \in 0..MaxFaults
      BY <1>1, <1>4, DeviceOutboxAssumption DEF Fault, OutboxTypeOK
    <2> QED
      BY <1>1, <1>4, <1>7, <1>9, <2>2, <2>3 DEF OutboxTypeOK
  <1>12. ASSUME NEW k \in Kinds
         PROVE  Done'[k] = Done[k] \cup Shed(k) /\ Has[k] \subseteq Has'[k]
    <2>1. Done[k] = received[k] \cup excused[k] /\ Done'[k] = received[k] \cup excused'[k]
      BY <1>4 DEF Done
    <2>2. excused'[k] = excused[k] \cup Shed(k)
      BY <1>4
    <2>3. Has[k] = Done[k] \cup Carried(queue, k) /\ Has'[k] = Done'[k] \cup Carried(q, k)
      BY <1>7 DEF Has
    <2>4. Done'[k] = Done[k] \cup Shed(k)
      BY <2>1, <2>2
    <2> QED
      BY <1>8, <2>3, <2>4
  <1>13. Onward
    <2>1. \A j \in Kinds : cursor[j] <= cursor'[j]
      BY <1>4, <1>10
    <2>2. \A j \in Kinds : Continues(table[j], table'[j])
      BY <1>4, <1>10, ContinuesSame
    <2> QED
      BY <1>11, <1>12, <2>1, <2>2 DEF Onward
  <1>14. MarksCovered'
    <2>1. ASSUME NEW i \in 1..Len(q)
          PROVE  Covered(table[q[i].kind], q[i].upTo, Done'[q[i].kind] \cup CarriedTo(q, i, q[i].kind))
      <3> DEFINE k == q[i].kind
      <3>1. q[i] \in Units /\ kept[i] \in 1..Len(queue) /\ q[i] = queue[kept[i]]
        BY <1>9
      <3>2. k \in Kinds /\ q[i].upTo \in Nat
        BY <3>1, UnitFields
      <3>3. Covered(table[k], q[i].upTo, Done[k] \cup CarriedTo(queue, kept[i], k))
        BY <3>1 DEF OutboxInv, MarksCovered, MarksIn
      <3> HIDE DEF k
      <3>4. Done[k] \cup CarriedTo(queue, kept[i], k) \subseteq Done'[k] \cup CarriedTo(q, i, k)
        BY <1>8, <1>12, <3>2
      <3>5. Covered(table[k], q[i].upTo, Done'[k] \cup CarriedTo(q, i, k))
        BY <1>10, <3>2, <3>3, <3>4, CoveredStays, ContinuesSame
      <3> QED
        BY <3>5 DEF k
    <2> QED
      BY <1>4, <1>7, <2>1 DEF MarksCovered, MarksIn
  <1>15. QueueRefers'
    <2> DEFINE k == "deviceLists"
    <2>1. ASSUME NEW i \in 1..Len(q)
          PROVE  Refers(q[i], table[k], Done'[k] \cup CarriedTo(q, i - 1, k))
      <3>1. kept[i] \in 1..Len(queue) /\ q[i] = queue[kept[i]]
        BY <1>9
      <3>2. Refers(q[i], table[k], Done[k] \cup CarriedTo(queue, kept[i] - 1, k))
        BY <3>1 DEF OutboxInv, QueueRefers, RefersIn
      <3>3. Done[k] \cup CarriedTo(queue, kept[i] - 1, k) \subseteq Done'[k] \cup CarriedTo(q, i - 1, k)
        BY <1>8, <1>12, KindsAre
      <3> QED
        BY <3>2, <3>3 DEF Refers
    <2> QED
      BY <1>4, <1>7, <2>1 DEF QueueRefers, RefersIn
  <1>16. CursorCovered' /\ DeletingCovered' /\ MarksCovered' /\ ReadersCover'
    BY <1>4, <1>13, <1>14, CoverStays
  <1>17. LastWasSent' /\ QueueRefers' /\ UnitsRefer'
    BY <1>4, <1>13, <1>15, ReferenceStays
  <1>18. TablesBounded' /\ DeletedWasReceived'
    BY <1>4, <1>13, DeletedStays
  <1> QED
    BY <1>11, <1>16, <1>17, <1>18 DEF OutboxInv

(* A crash forgets the queue, and excuses what the cursor had passed.      *)
LEMMA CrashKeeps ==
  ASSUME OutboxInv, Crash
  PROVE  OutboxInv'
  <1> DEFINE Cut(k) == {id \in Carried(queue, k) : id <= cursor[k]}
  <1>1. OutboxTypeOK /\ TablesBounded
    BY DEF OutboxInv
  <1>2. /\ Fault /\ reader' = [r \in Readers |-> Idle] /\ queue' = <<>>
        /\ deleting' = [k \in Kinds |-> 0] /\ excused' = [k \in Kinds |-> excused[k] \cup Cut(k)]
        /\ UNCHANGED <<table, lastSuccess, cursor, announced, received>>
    BY DEF Crash, synapseVars
  <1>3. \A k \in Kinds : table[k] \in Seq(Rows) /\ cursor[k] \in Nat
    BY <1>1, StateTyped
  <1>4. <<>> \in Seq(Units) /\ Len(<<>>) = 0 /\ 0 \in 0..MaxRows
    BY DeviceOutboxAssumption
  <1>5. OutboxTypeOK'
    <2>1. \A k \in Kinds : excused[k] \cup Cut(k) \in SUBSET Ids
      BY <1>1, StateTyped, CarriedTyped
    <2> HIDE DEF Cut
    <2>2. excused' \in [Kinds -> SUBSET Ids]
      BY <1>2, <2>1
    <2>3. faults' \in 0..MaxFaults
      BY <1>1, <1>2, DeviceOutboxAssumption DEF Fault, OutboxTypeOK
    <2> QED
      BY <1>1, <1>2, <1>4, <2>2, <2>3, IdleIs DEF OutboxTypeOK
  <1>6. ASSUME NEW k \in Kinds
        PROVE  Done[k] \cup Cut(k) \subseteq Done'[k] /\ Done'[k] \subseteq Has'[k]
    <2>1. Done[k] = received[k] \cup excused[k] /\ Done'[k] = received[k] \cup excused'[k]
      BY <1>2 DEF Done
    <2>2. excused'[k] = excused[k] \cup Cut(k)
      BY <1>2
    <2>3. Done'[k] \subseteq Has'[k]
      BY DEF Has
    <2> HIDE DEF Cut
    <2> QED
      BY <2>1, <2>2, <2>3
  <1>7. CursorCovered'
    <2>1. ASSUME NEW k \in Kinds PROVE Covered(table[k], cursor[k], Has'[k])
      <3>1. Covered(table[k], cursor[k], Has[k])
        BY DEF OutboxInv, CursorCovered
      <3>2. ASSUME NEW id \in 1..cursor[k], table[k][id].mine PROVE id \in Has'[k]
        <4>1. id \in Has[k]
          BY <3>1, <3>2 DEF Covered
        <4>2. id \in Done[k] \/ id \in Cut(k)
          BY <1>3, <4>1 DEF Has
        <4> QED
          BY <1>6, <4>2
      <3> QED
        BY <3>1, <3>2 DEF Covered
    <2> QED
      BY <1>2, <2>1 DEF CursorCovered
  <1>8. DeletingCovered'
    BY <1>2, <1>3, NothingCovered DEF DeletingCovered
  <1>9. MarksCovered' /\ QueueRefers'
    BY <1>2, <1>4 DEF MarksCovered, MarksIn, QueueRefers, RefersIn
  <1>10. \A r \in Readers : reader'[r] = Idle
    BY <1>2
  <1>11. ReadersCover'
    BY <1>10, IdleCovers DEF ReadersCover, ReaderCovers
  <1>12. UnitsRefer'
    BY <1>10, IdleIs DEF UnitsRefer
  <1>13. LastWasSent'
    BY <1>2, <1>6, KindsAre DEF OutboxInv, LastWasSent
  <1>14. TablesBounded'
    BY <1>1, <1>2 DEF TablesBounded
  <1>15. DeletedWasReceived'
    <2>1. ASSUME NEW k \in Kinds, NEW id \in DOMAIN table[k], table[k][id].state = "gone"
          PROVE  id \in received'[k] \cup excused'[k]
      <3>1. id \in Done[k]
        BY <2>1 DEF OutboxInv, DeletedWasReceived, Done
      <3>2. id \in Done'[k]
        BY <1>6, <3>1
      <3> QED
        BY <3>2 DEF Done
    <2> QED
      BY <1>2, <2>1 DEF DeletedWasReceived
  <1> QED
    BY <1>5, <1>7, <1>8, <1>9, <1>11, <1>12, <1>13, <1>14, <1>15 DEF OutboxInv

LEMMA OutboxInvStep == OutboxInv /\ [OutboxNext]_outboxVars => OutboxInv'
  <1> SUFFICES ASSUME OutboxInv, [OutboxNext]_outboxVars PROVE OutboxInv'
    OBVIOUS
  <1>1. ASSUME NEW row \in ToDeviceRow, Allocate("toDevice", row) PROVE OutboxInv'
    <2>1. row \in Rows /\ row.state # "gone"
      BY DEF ToDeviceRow, Rows
    <2> QED
      BY <1>1, <2>1, AllocateKeeps, KindsAre
  <1>2. ASSUME NEW row \in PokeRow, Allocate("deviceLists", row) PROVE OutboxInv'
    <2>1. row \in Rows /\ row.state # "gone" /\ row.user \in Users
      BY DEF PokeRow, Rows
    <2> QED
      BY <1>2, <2>1, AllocateKeeps, KindsAre
  <1>3. ASSUME NEW k \in Kinds, NEW id \in Ids, Commit(k, id) PROVE OutboxInv'
    BY <1>3, CommitKeeps
  <1>4. ASSUME NEW k \in Kinds, DeleteRows(k) PROVE OutboxInv'
    BY <1>4, DeleteRowsKeeps
  <1>5. ASSUME NEW r \in Readers, NEW id \in Ids, HandleToDevice(r, id) PROVE OutboxInv'
    BY <1>5, StartReaderKeeps, KindsAre DEF HandleToDevice
  <1>6. ASSUME NEW r \in Readers, NEW id \in Ids, HandleDeviceLists(r, id) PROVE OutboxInv'
    BY <1>6, StartReaderKeeps, KindsAre DEF HandleDeviceLists
  <1>7. ASSUME NEW r \in Readers, ReadCursor(r) PROVE OutboxInv'
    BY <1>7, ReadCursorKeeps
  <1>8. ASSUME NEW r \in Readers, ReadRows(r) PROVE OutboxInv'
    BY <1>8, ReadRowsKeeps
  <1>9. ASSUME NEW r \in Readers, Build(r) PROVE OutboxInv'
    BY <1>9, BuildKeeps
  <1>10. ASSUME NEW r \in Readers, Enqueue(r) PROVE OutboxInv'
    BY <1>10, EnqueueKeeps
  <1>11. ASSUME NEW r \in Readers, SetCursor(r) PROVE OutboxInv'
    BY <1>11, SetCursorKeeps
  <1>12. ASSUME NEW r \in Readers, ReaderFails(r) PROVE OutboxInv'
    BY <1>12, ReaderFailsKeeps
  <1>13. ASSUME NEW answered \in BOOLEAN, Transact(answered) PROVE OutboxInv'
    BY <1>13, TransactKeeps
  <1>14. CASE Outage
    BY <1>14, OutageKeeps
  <1>15. CASE Crash
    BY <1>15, CrashKeeps
  <1>16. CASE UNCHANGED outboxVars
    <2>1. UNCHANGED <<table, lastSuccess, cursor, announced, reader, queue, deleting,
                      received, excused, faults>>
      BY <1>16 DEF outboxVars, synapseVars, workerVars
    <2>2. OutboxTypeOK'
      BY <2>1 DEF OutboxInv, OutboxTypeOK
    <2>3. TablesBounded' /\ DeletedWasReceived'
      BY <2>1 DEF OutboxInv, TablesBounded, DeletedWasReceived
    <2>4. \A k \in Kinds : Continues(table[k], table'[k]) /\ deleting'[k] \in {0, deleting[k]}
      BY <2>1, StateTyped, ContinuesSame DEF OutboxInv
    <2> QED
      BY <2>1, <2>2, <2>3, <2>4, TableStep
  <1> QED
    BY <1>1, <1>2, <1>3, <1>4, <1>5, <1>6, <1>7, <1>8, <1>9, <1>10, <1>11, <1>12, <1>13,
       <1>14, <1>15, <1>16 DEF OutboxNext

LEMMA OutboxInvAlways == OutboxSpec => []OutboxInv
  BY OutboxInvInit, OutboxInvStep, PTL DEF OutboxSpec

(* Tables, cursors, goroutines and queue are what they are declared to be. *)
THEOREM OutboxTypeAlways == OutboxSpec => []OutboxTypeOK
  <1>1. OutboxInv => OutboxTypeOK
    BY DEF OutboxInv
  <1> QED
    BY <1>1, OutboxInvAlways, PTL

(* DeleteDeviceMsgsForRemote and MarkAsSentDevicesByRemote take no row the *)
(* server has not processed: a mark covers what is sent up to its unit.    *)
THEOREM DeletedWasReceivedAlways == OutboxSpec => []DeletedWasReceived
  <1>1. OutboxInv => DeletedWasReceived
    BY DEF OutboxInv
  <1> QED
    BY <1>1, OutboxInvAlways, PTL

(* Store.Set is called when everything up to the new cursor is queued: the *)
(* cursor passes no row.                                                   *)
THEOREM CursorPassesNothingAlways == OutboxSpec => []CursorPassesNothing
  <1>1. ASSUME OutboxInv PROVE CursorPassesNothing
    <2>1. ASSUME NEW k \in Kinds, NEW id \in Ours(k) \ excused[k], id <= cursor[k]
          PROVE  id \in received[k] \cup Carried(queue, k)
      <3>1. DOMAIN table[k] = 1..Len(table[k]) /\ Len(table[k]) \in Nat
        BY <1>1, TablesTyped DEF OutboxInv
      <3>2. id \in 1..Len(table[k]) /\ table[k][id].mine
        BY <3>1 DEF Ours, Held
      <3>3. cursor[k] \in Nat
        BY <1>1, StateTyped DEF OutboxInv
      <3>4. id \in 1..cursor[k]
        BY <2>1, <3>1, <3>2, <3>3
      <3>5. id \in Has[k]
        BY <1>1, <3>2, <3>4 DEF OutboxInv, CursorCovered, Covered
      <3> QED
        BY <3>5 DEF Has, Done
    <2> QED
      BY <2>1 DEF CursorPassesNothing
  <1> QED
    BY <1>1, OutboxInvAlways, PTL

(* buildDeviceListEDUs chains an update to one the server has, or will     *)
(* have when it gets there: what stands in front of it in the queue.       *)
THEOREM PrevIdWasSentAlways == OutboxSpec => []PrevIdWasSent
  <1>1. ASSUME OutboxInv PROVE PrevIdWasSent
    <2>1. ASSUME NEW i \in DOMAIN queue, queue[i].prev # 0
          PROVE  /\ table["deviceLists"][queue[i].prev].user = queue[i].user
                 /\ \/ queue[i].prev \in received["deviceLists"] \cup excused["deviceLists"]
                    \/ \E j \in 1..i - 1 : queue[j].kind = queue[i].kind /\ queue[i].prev \in queue[j].rows
      <3>1. i \in 1..Len(queue)
        BY <1>1, StateTyped DEF OutboxInv
      <3>2. Refers(queue[i], table["deviceLists"],
                   Done["deviceLists"] \cup CarriedTo(queue, i - 1, "deviceLists"))
        BY <1>1, <3>1 DEF OutboxInv, QueueRefers, RefersIn
      <3>3. /\ queue[i].kind = "deviceLists"
            /\ table["deviceLists"][queue[i].prev].user = queue[i].user
            /\ \/ queue[i].prev \in Done["deviceLists"]
               \/ queue[i].prev \in CarriedTo(queue, i - 1, "deviceLists")
        BY <2>1, <3>2 DEF Refers
      <3>4. Done["deviceLists"] = received["deviceLists"] \cup excused["deviceLists"]
        BY KindsAre DEF Done
      <3>5. queue[i].prev \in CarriedTo(queue, i - 1, "deviceLists") =>
              \E j \in 1..i - 1 : queue[j].kind = "deviceLists" /\ queue[i].prev \in queue[j].rows
        BY CarriedToIs
      <3> QED
        BY <3>3, <3>4, <3>5
    <2> QED
      BY <2>1 DEF PrevIdWasSent
  <1> QED
    BY <1>1, OutboxInvAlways, PTL
=============================================================================
