--------------------------- MODULE Streams_proofs ---------------------------
(* Proofs about Streams.tla, for every number of streams, writers, rooms,  *)
(* users and breaks: what the subscriber hands over is the end of one      *)
(* published batch, what is remembered of a room is what its newest row    *)
(* said, an indicator is kept up before the remote drops it, and the last  *)
(* notice that reached the queue is true.                                  *)
EXTENDS Streams, TLAPS, SequenceTheorems, FiniteSetTheorems, WellFoundedInduction

-----------------------------------------------------------------------------
(* Sets of positions in a batch, and sets as sequences.                    *)

(* A set of natural numbers that is not empty has a smallest element.      *)
LEMMA SmallestExists ==
  ASSUME NEW T \in SUBSET Nat, T # {}
  PROVE  \E x \in T : \A y \in T : x <= y
  <1>1. \E x \in T : \A y \in T : ~(<<y, x>> \in OpToRel(<, Nat))
    BY NatLessThanWellFounded, WFMin
  <1>2. PICK x \in T : \A y \in T : ~(<<y, x>> \in OpToRel(<, Nat))
    BY <1>1
  <1>3. ASSUME NEW y \in T PROVE x <= y
    <2>1. ~(y < x)
      BY <1>2 DEF OpToRel
    <2> QED
      BY <2>1
  <1> QED
    BY <1>3

(* The largest of a set of positions is one of them, and no other is       *)
(* larger.                                                                 *)
LEMMA MaxIsMember ==
  ASSUME NEW n \in Nat, NEW S \in SUBSET (1..n), S # {}
  PROVE  Max(S) \in S /\ \A k \in S : Max(S) >= k
  <1> DEFINE T == {n - j : j \in S}
  <1>1. T \in SUBSET Nat /\ T # {}
    <2>1. \A j \in S : n - j \in Nat
      OBVIOUS
    <2>2. T \in SUBSET Nat
      BY <2>1
    <2>3. PICK j \in S : TRUE
      OBVIOUS
    <2>4. n - j \in T
      BY <2>3
    <2> QED
      BY <2>2, <2>4
  <1>2. PICK x \in T : \A y \in T : x <= y
    BY <1>1, SmallestExists
  <1>3. PICK j \in S : x = n - j
    BY <1>2
  <1>4. ASSUME NEW k \in S PROVE j >= k
    <2>1. n - k \in T
      OBVIOUS
    <2>2. n - j <= n - k
      BY <1>2, <1>3, <2>1
    <2> QED
      BY <2>2
  <1> QED
    BY <1>4 DEF Max

(* A finite set as a sequence of its elements, each of them once.          *)
LEMMA SetToSeqIs ==
  ASSUME NEW S, IsFiniteSet(S)
  PROVE  /\ Cardinality(S) \in Nat
         /\ SetToSeq(S) \in [1..Cardinality(S) -> S]
         /\ \A i, j \in 1..Cardinality(S) : SetToSeq(S)[i] = SetToSeq(S)[j] => i = j
         /\ \A x \in S : \E i \in 1..Cardinality(S) : SetToSeq(S)[i] = x
  <1> DEFINE n == Cardinality(S)
             f == SetToSeq(S)
  <1>1. n \in Nat /\ ExistsBijection(1..n, S)
    BY FS_CardinalityType
  <1>2. \E g \in [1..n -> S] : IsInjective(g)
    BY <1>1 DEF ExistsBijection, Bijection, Injection, IsInjective
  <1>3. f \in [1..n -> S] /\ IsInjective(f)
    BY <1>1, <1>2 DEF SetToSeq
  <1> HIDE DEF f, n
  <1>4. \A i, j \in 1..n : f[i] = f[j] => i = j
    BY <1>3 DEF IsInjective
  <1>5. f \in Injection(1..n, S)
    BY <1>3 DEF Injection, IsInjective
  <1>6. Cardinality(1..n) = Cardinality(S)
    BY <1>1, FS_Interval DEF n
  <1>7. f \in Surjection(1..n, S)
    BY <1>5, <1>6, FS_Injection
  <1>8. \A x \in S : \E i \in 1..n : f[i] = x
    BY <1>7 DEF Surjection
  <1> QED
    BY <1>1, <1>3, <1>4, <1>8 DEF f, n

-----------------------------------------------------------------------------
(* A published batch, on its way.                                          *)

(* What a row of the typing stream says.                                   *)
TypingRow == {row \in [room : Rooms, users : SUBSET Users, life : 0..MaxBreaks] :
                row.users \subseteq JoinedTo[row.room]}

(* The messages that can be published.                                     *)
Line == {m \in [cmd : {"RDATA", "POSITION"}, stream : Streams, instance : Writers,
                row : TypingRow \cup {0}, token : Nat, at : Nat, left : Nat] :
           /\ m.stream = StreamOf[m.instance] /\ m.at <= MaxPosition[m.stream]
           /\ m.token = IF m.left = 0 THEN m.at ELSE 0
           /\ m.cmd = "RDATA" => m.at > 0
           /\ m.cmd = "RDATA" /\ m.stream = "typing" => m.row \in TypingRow}

(* A row of stream s that the subscriber does not drop.                    *)
Mine(m, s) == m.cmd = "RDATA" /\ m.stream = s /\ m.instance \notin OwnName

(* f is the message published right after e, in the same batch.            *)
Joins(e, f) == f.at = e.at /\ e.left = f.left + 1

(* The batch of e goes on: behind place i of the channel q the next row of *)
(* stream s joins e, or there is none and the writer has it ready.         *)
GoesOn(e, i, q, out, s) ==
  \/ \E j \in 1..Len(q) :
       /\ i < j /\ Mine(q[j], s) /\ Joins(e, q[j])
       /\ \A k \in 1..Len(q) : i < k /\ k < j => ~Mine(q[k], s)
  \/ /\ \A k \in 1..Len(q) : i < k => ~Mine(q[k], s)
     /\ out # <<>> /\ Joins(e, out[1])

(* What is left of a batch to publish: its end.                            *)
EndOfBatch(out) ==
  \A i \in 1..Len(out) : out[i].left = Len(out) - i /\ out[i].at = out[1].at

(* What is buffered is the middle of a batch, counted from its last row.   *)
MiddleOfBatch(p) ==
  \A i \in 1..Len(p) : /\ p[i].left > 0 /\ p[i].at = p[Len(p)].at
                       /\ p[i].left = p[Len(p)].left + (Len(p) - i)

(* Buffer p, channel q and writer out hold the batches of s without holes. *)
Chained(p, q, out, s) ==
  /\ MiddleOfBatch(p)
  /\ p # <<>> => GoesOn(p[Len(p)], 0, q, out, s)
  /\ \A i \in 1..Len(q) :
       Mine(q[i], s) /\ q[i].left > 0 => GoesOn(q[i], i, q, out, s)

(* The fields of a message, for the provers.                               *)
LEMMA LineFields ==
  ASSUME NEW m \in Line
  PROVE  /\ m.stream \in Streams /\ m.instance \in Writers
         /\ m.cmd \in {"RDATA", "POSITION"}
         /\ m.token \in Nat /\ m.at \in Nat /\ m.left \in Nat
         /\ m.stream = StreamOf[m.instance] /\ m.at <= MaxPosition[m.stream]
         /\ m.token = IF m.left = 0 THEN m.at ELSE 0
         /\ m.cmd = "RDATA" => m.at > 0
         /\ m.cmd = "RDATA" /\ m.stream = "typing" => m.row \in TypingRow
  BY DEF Line

(* The head of a queue of messages, and what is behind it.                 *)
LEMMA TailIs ==
  ASSUME NEW S, NEW q \in Seq(S), q # <<>>
  PROVE  /\ q[1] \in S /\ Head(q) = q[1] /\ Len(q) >= 1
         /\ Tail(q) \in Seq(S) /\ Len(Tail(q)) = Len(q) - 1
         /\ \A i \in 1..(Len(q) - 1) : Tail(q)[i] = q[i + 1]
  <1>1. Len(q) >= 1 /\ Len(q) \in Nat
    BY EmptySeq
  <1> QED
    BY <1>1

(* Appending to a queue.                                                   *)
LEMMA AppendIs ==
  ASSUME NEW S, NEW q \in Seq(S), NEW h \in S
  PROVE  /\ Append(q, h) \in Seq(S) /\ Len(Append(q, h)) = Len(q) + 1
         /\ \A i \in 1..Len(q) : Append(q, h)[i] = q[i]
         /\ Append(q, h)[Len(q) + 1] = h
         /\ Append(q, h) # <<>>
  BY AppendProperties

(* A message that is not of the stream goes by.                            *)
LEMMA GoesOnBehind ==
  ASSUME NEW q \in Seq(Line), NEW h \in Line, NEW out, NEW s, NEW e, NEW i \in 0..Len(q),
         GoesOn(e, i, q, out, s), ~Mine(h, s)
  PROVE  GoesOn(e, i, Append(q, h), out, s)
  <1> DEFINE r == Append(q, h)
  <1>1. /\ r \in Seq(Line) /\ Len(r) = Len(q) + 1
        /\ (\A j \in 1..Len(q) : r[j] = q[j]) /\ r[Len(q) + 1] = h
    BY AppendIs
  <1> HIDE DEF r
  <1>2. \A k \in 1..Len(r) : k \in 1..Len(q) \/ ~Mine(r[k], s)
    BY <1>1
  <1>3. \A j \in 1..Len(q) : j \in 1..Len(r)
    BY <1>1
  <1>4. GoesOn(e, i, r, out, s)
    BY <1>1, <1>2, <1>3 DEF GoesOn
  <1> QED
    BY <1>4 DEF r

(* The writer publishes the message that joins.                            *)
LEMMA GoesOnPublished ==
  ASSUME NEW q \in Seq(Line), NEW out \in Seq(Line), NEW next, NEW s, NEW e,
         NEW i \in 0..Len(q), out # <<>>, GoesOn(e, i, q, out, s), Mine(out[1], s)
  PROVE  GoesOn(e, i, Append(q, out[1]), next, s)
  <1> DEFINE r == Append(q, out[1])
  <1>1. /\ r \in Seq(Line) /\ Len(r) = Len(q) + 1
        /\ (\A j \in 1..Len(q) : r[j] = q[j]) /\ r[Len(q) + 1] = out[1]
    BY AppendIs, TailIs
  <1> HIDE DEF r
  <1>2. CASE \E j \in 1..Len(q) :
                /\ i < j /\ Mine(q[j], s) /\ Joins(e, q[j])
                /\ \A k \in 1..Len(q) : i < k /\ k < j => ~Mine(q[k], s)
    <2>1. PICK j \in 1..Len(q) :
                /\ i < j /\ Mine(q[j], s) /\ Joins(e, q[j])
                /\ \A k \in 1..Len(q) : i < k /\ k < j => ~Mine(q[k], s)
      BY <1>2
    <2>2. j \in 1..Len(r) /\ r[j] = q[j]
      BY <1>1
    <2>3. ASSUME NEW k \in 1..Len(r), i < k, k < j PROVE ~Mine(r[k], s)
      <3>1. k \in 1..Len(q)
        BY <2>3
      <3> QED
        BY <1>1, <2>1, <2>3, <3>1
    <2>4. GoesOn(e, i, r, next, s)
      BY <2>1, <2>2, <2>3 DEF GoesOn
    <2> QED
      BY <2>4 DEF r
  <1>3. CASE (\A k \in 1..Len(q) : i < k => ~Mine(q[k], s)) /\ Joins(e, out[1])
    <2> DEFINE j == Len(q) + 1
    <2>1. j \in 1..Len(r) /\ r[j] = out[1] /\ i < j
      BY <1>1
    <2>2. ASSUME NEW k \in 1..Len(r), i < k, k < j PROVE ~Mine(r[k], s)
      <3>1. k \in 1..Len(q)
        BY <2>2
      <3> QED
        BY <1>1, <1>3, <2>2, <3>1
    <2> HIDE DEF j
    <2>3. GoesOn(e, i, r, next, s)
      BY <1>3, <2>1, <2>2 DEF GoesOn
    <2> QED
      BY <2>3 DEF r
  <1> QED
    BY <1>2, <1>3 DEF GoesOn

(* The channel's head is handled: everything moves up one place.           *)
LEMMA GoesOnMovesUp ==
  ASSUME NEW q \in Seq(Line), q # <<>>, NEW out, NEW s, NEW e, NEW i \in 1..Len(q),
         NEW b \in {0, i}, b = 0 => i = 1 /\ ~Mine(q[1], s), GoesOn(e, b, q, out, s)
  PROVE  GoesOn(e, i - 1, Tail(q), out, s)
  <1> DEFINE r == Tail(q)
  <1>1. /\ r \in Seq(Line) /\ Len(r) = Len(q) - 1 /\ Len(q) \in Nat
        /\ \A j \in 1..(Len(q) - 1) : r[j] = q[j + 1]
    BY TailIs
  <1> HIDE DEF r
  <1>2. b \in Nat /\ (b = i \/ (b = 0 /\ i = 1 /\ ~Mine(q[1], s)))
    OBVIOUS
  <1>4. CASE \E j \in 1..Len(q) :
                /\ b < j /\ Mine(q[j], s) /\ Joins(e, q[j])
                /\ \A k \in 1..Len(q) : b < k /\ k < j => ~Mine(q[k], s)
    <2>1. PICK j \in 1..Len(q) :
                /\ b < j /\ Mine(q[j], s) /\ Joins(e, q[j])
                /\ \A k \in 1..Len(q) : b < k /\ k < j => ~Mine(q[k], s)
      BY <1>4
    <2>2. j > 1 /\ j > i
      BY <1>2, <2>1
    <2>3. PICK h \in 1..Len(r) : h + 1 = j /\ r[h] = q[j] /\ i - 1 < h
      <3>1. j - 1 \in 1..Len(r) /\ (j - 1) + 1 = j /\ i - 1 < j - 1
        BY <1>1, <2>2
      <3> QED
        BY <1>1, <3>1
    <2>4. ASSUME NEW k \in 1..Len(r), i - 1 < k, k < h PROVE ~Mine(r[k], s)
      <3>1. k + 1 \in 1..Len(q) /\ b < k + 1 /\ k + 1 < j /\ r[k] = q[k + 1]
        BY <1>1, <1>2, <2>3, <2>4
      <3> QED
        BY <2>1, <3>1
    <2>5. GoesOn(e, i - 1, r, out, s)
      BY <2>1, <2>3, <2>4 DEF GoesOn
    <2> QED
      BY <2>5 DEF r
  <1>5. CASE (\A k \in 1..Len(q) : b < k => ~Mine(q[k], s)) /\ out # <<>> /\ Joins(e, out[1])
    <2>1. ASSUME NEW k \in 1..Len(r), i - 1 < k PROVE ~Mine(r[k], s)
      <3>1. k + 1 \in 1..Len(q) /\ b < k + 1 /\ r[k] = q[k + 1]
        BY <1>1, <1>2, <2>1
      <3> QED
        BY <1>5, <3>1
    <2>2. GoesOn(e, i - 1, r, out, s)
      BY <1>5, <2>1 DEF GoesOn
    <2> QED
      BY <2>2 DEF r
  <1> QED
    BY <1>4, <1>5 DEF GoesOn

(* Nothing buffered, nothing in the channel: no hole, whatever is left to  *)
(* publish.                                                                *)
LEMMA ChainedFromNothing ==
  ASSUME NEW out, NEW s
  PROVE  Chained(<<>>, <<>>, out, s)
  BY DEF Chained, MiddleOfBatch

(* A writer with nothing left to publish may begin a new batch, or die.    *)
LEMMA ChainedNewBatch ==
  ASSUME NEW p, NEW q, NEW s, NEW next, Chained(p, q, <<>>, s)
  PROVE  Chained(p, q, next, s)
  BY DEF Chained, GoesOn

(* A message of another stream, or one under our own name, arrives.        *)
LEMMA ChainedHears ==
  ASSUME NEW p \in Seq(Line), NEW q \in Seq(Line), NEW out \in Seq(Line), NEW s,
         NEW h \in Line, Chained(p, q, out, s), ~Mine(h, s)
  PROVE  Chained(p, Append(q, h), out, s)
  <1> DEFINE r == Append(q, h)
  <1>1. /\ r \in Seq(Line) /\ Len(r) = Len(q) + 1
        /\ (\A j \in 1..Len(q) : r[j] = q[j]) /\ r[Len(q) + 1] = h
    BY AppendIs
  <1>2. \A e : \A i \in 0..Len(q) : GoesOn(e, i, q, out, s) => GoesOn(e, i, r, out, s)
    BY GoesOnBehind
  <1> HIDE DEF r
  <1>3. p # <<>> => GoesOn(p[Len(p)], 0, r, out, s)
    BY <1>2 DEF Chained
  <1>4. ASSUME NEW i \in 1..Len(r), Mine(r[i], s), r[i].left > 0
        PROVE  GoesOn(r[i], i, r, out, s)
    <2>1. i \in 1..Len(q) /\ r[i] = q[i]
      BY <1>1, <1>4
    <2> QED
      BY <1>2, <1>4, <2>1 DEF Chained
  <1>5. Chained(p, r, out, s)
    BY <1>3, <1>4 DEF Chained
  <1> QED
    BY <1>5 DEF r

(* The stream's writer publishes its next message.                         *)
LEMMA ChainedPublishes ==
  ASSUME NEW p \in Seq(Line), NEW q \in Seq(Line), NEW out \in Seq(Line), NEW s,
         out # <<>>, EndOfBatch(out), Chained(p, q, out, s), Mine(out[1], s)
  PROVE  Chained(p, Append(q, out[1]), Tail(out), s)
  <1> DEFINE r == Append(q, out[1])
             next == Tail(out)
  <1>1. /\ r \in Seq(Line) /\ Len(r) = Len(q) + 1
        /\ (\A j \in 1..Len(q) : r[j] = q[j]) /\ r[Len(q) + 1] = out[1]
    BY AppendIs, TailIs
  <1>2. \A e : \A i \in 0..Len(q) : GoesOn(e, i, q, out, s) => GoesOn(e, i, r, next, s)
    BY GoesOnPublished
  <1>3. /\ next \in Seq(Line) /\ Len(next) = Len(out) - 1 /\ Len(out) >= 1
        /\ Len(out) \in Nat
        /\ \A i \in 1..(Len(out) - 1) : next[i] = out[i + 1]
    BY TailIs
  <1> HIDE DEF r, next
  <1>4. p # <<>> => GoesOn(p[Len(p)], 0, r, next, s)
    BY <1>2 DEF Chained
  <1>5. ASSUME NEW i \in 1..Len(r), Mine(r[i], s), r[i].left > 0
        PROVE  GoesOn(r[i], i, r, next, s)
    <2>1. CASE i \in 1..Len(q)
      <3>1. r[i] = q[i] /\ i \in 0..Len(q)
        BY <1>1, <2>1
      <3> QED
        BY <1>2, <1>5, <2>1, <3>1 DEF Chained
    <2>2. CASE i = Len(q) + 1
      <3>1. r[i] = out[1] /\ out[1].left > 0
        BY <1>1, <1>5, <2>2
      <3>2. out[1].left = Len(out) - 1
        BY <1>3 DEF EndOfBatch
      <3>3. 2 \in 1..Len(out) /\ 1 \in 1..(Len(out) - 1)
        BY <1>3, <3>1, <3>2
      <3>4. next[1] = out[2] /\ next # <<>>
        BY <1>3, <3>3, EmptySeq
      <3>5. out[2].left = Len(out) - 2 /\ out[2].at = out[1].at
        BY <3>3 DEF EndOfBatch
      <3>6. Joins(out[1], next[1])
        BY <1>3, <3>2, <3>4, <3>5 DEF Joins
      <3>7. \A k \in 1..Len(r) : ~(i < k)
        BY <1>1, <2>2
      <3> QED
        BY <3>1, <3>4, <3>6, <3>7 DEF GoesOn
    <2> QED
      BY <1>1, <2>1, <2>2
  <1>6. Chained(p, r, next, s)
    BY <1>4, <1>5 DEF Chained
  <1> QED
    BY <1>6 DEF r, next

(* Behind a handled message the channel stays chained.                     *)
LEMMA ChainedBehind ==
  ASSUME NEW q \in Seq(Line), q # <<>>, NEW out, NEW s,
         \A i \in 1..Len(q) :
           Mine(q[i], s) /\ q[i].left > 0 => GoesOn(q[i], i, q, out, s)
  PROVE  \A i \in 1..Len(Tail(q)) :
           Mine(Tail(q)[i], s) /\ Tail(q)[i].left > 0
             => GoesOn(Tail(q)[i], i, Tail(q), out, s)
  <1> DEFINE r == Tail(q)
  <1>1. /\ r \in Seq(Line) /\ Len(r) = Len(q) - 1 /\ Len(q) \in Nat
        /\ \A j \in 1..(Len(q) - 1) : r[j] = q[j + 1]
    BY TailIs
  <1>2. \A e : \A i \in 1..Len(q) : GoesOn(e, i, q, out, s) => GoesOn(e, i - 1, r, out, s)
    BY GoesOnMovesUp
  <1> HIDE DEF r
  <1>3. ASSUME NEW i \in 1..Len(r), Mine(r[i], s), r[i].left > 0
        PROVE  GoesOn(r[i], i, r, out, s)
    <2>1. i + 1 \in 1..Len(q) /\ r[i] = q[i + 1] /\ (i + 1) - 1 = i
      BY <1>1
    <2>2. GoesOn(q[i + 1], i + 1, q, out, s)
      BY <1>3, <2>1
    <2>3. GoesOn(q[i + 1], (i + 1) - 1, r, out, s)
      BY <1>2, <2>1, <2>2
    <2> QED
      BY <2>1, <2>3
  <1> QED
    BY <1>3 DEF r

(* A message that is not of the stream is handled.                         *)
LEMMA ChainedSkips ==
  ASSUME NEW p \in Seq(Line), NEW q \in Seq(Line), q # <<>>, NEW out, NEW s,
         Chained(p, q, out, s), ~Mine(q[1], s)
  PROVE  Chained(p, Tail(q), out, s)
  <1>1. Len(q) \in Nat /\ Len(q) >= 1
    BY EmptySeq
  <1>2. p # <<>> => GoesOn(p[Len(p)], 0, Tail(q), out, s)
    <2>1. 1 \in 1..Len(q) /\ 1 - 1 = 0
      BY <1>1
    <2>2. \A e : GoesOn(e, 0, q, out, s) => GoesOn(e, 1 - 1, Tail(q), out, s)
      BY <2>1, GoesOnMovesUp
    <2> QED
      BY <2>1, <2>2 DEF Chained
  <1> QED
    BY <1>2, ChainedBehind DEF Chained

(* The next row of the stream joins the last one that was buffered.        *)
LEMMA NextJoins ==
  ASSUME NEW q \in Seq(Line), q # <<>>, NEW out, NEW s, NEW e, GoesOn(e, 0, q, out, s),
         Mine(q[1], s)
  PROVE  Joins(e, q[1])
  <1>1. Len(q) \in Nat /\ Len(q) >= 1 /\ 1 \in 1..Len(q)
    BY EmptySeq
  <1> QED
    BY <1>1 DEF GoesOn

(* A row is buffered behind those of its batch.                            *)
LEMMA MiddleGrows ==
  ASSUME NEW p \in Seq(Line), NEW h \in Line, MiddleOfBatch(p),
         p # <<>> => Joins(p[Len(p)], h)
  PROVE  \A i \in 1..Len(Append(p, h)) :
           /\ Append(p, h)[i].at = h.at
           /\ Append(p, h)[i].left = h.left + (Len(Append(p, h)) - i)
  <1> DEFINE r == Append(p, h)
  <1>1. /\ r \in Seq(Line) /\ Len(r) = Len(p) + 1 /\ Len(p) \in Nat
        /\ (\A j \in 1..Len(p) : r[j] = p[j]) /\ r[Len(p) + 1] = h
    BY AppendIs
  <1> HIDE DEF r
  <1>2. ASSUME NEW i \in 1..Len(r)
        PROVE  r[i].at = h.at /\ r[i].left = h.left + (Len(r) - i)
    <2>1. CASE i \in 1..Len(p)
      <3>1. p # <<>> /\ Len(p) \in 1..Len(p) /\ p[Len(p)] \in Line /\ p[i] \in Line
        BY <1>1, <2>1, EmptySeq
      <3>2. h.at = p[Len(p)].at /\ p[Len(p)].left = h.left + 1
        BY <3>1 DEF Joins
      <3>3. p[i].at = p[Len(p)].at /\ p[i].left = p[Len(p)].left + (Len(p) - i)
        BY <2>1 DEF MiddleOfBatch
      <3>4. h.left \in Nat
        BY LineFields
      <3> QED
        BY <1>1, <2>1, <3>2, <3>3, <3>4
    <2>2. CASE i = Len(p) + 1
      <3>1. h.left \in Nat
        BY LineFields
      <3> QED
        BY <1>1, <2>2, <3>1
    <2> QED
      BY <1>1, <2>1, <2>2
  <1> QED
    BY <1>2 DEF r

(* A "batch" row is buffered.                                              *)
LEMMA ChainedBuffers ==
  ASSUME NEW p \in Seq(Line), NEW q \in Seq(Line), q # <<>>, NEW out, NEW s,
         Chained(p, q, out, s), Mine(q[1], s), q[1].left > 0
  PROVE  Chained(Append(p, q[1]), Tail(q), out, s)
  <1> DEFINE r == Append(p, q[1])
  <1>1. q[1] \in Line /\ Len(q) \in Nat /\ 1 \in 1..Len(q)
    BY TailIs
  <1>2. p # <<>> => Joins(p[Len(p)], q[1])
    BY NextJoins DEF Chained
  <1>3. /\ r \in Seq(Line) /\ Len(r) = Len(p) + 1 /\ Len(p) \in Nat /\ r[Len(p) + 1] = q[1]
        /\ r # <<>>
    BY <1>1, AppendIs
  <1>4. \A i \in 1..Len(r) : r[i].at = q[1].at /\ r[i].left = q[1].left + (Len(r) - i)
    BY <1>1, <1>2, MiddleGrows DEF Chained
  <1> HIDE DEF r
  <1>5. r[Len(r)] = q[1] /\ q[1].left \in Nat
    BY <1>1, <1>3, LineFields
  <1>6. MiddleOfBatch(r)
    BY <1>3, <1>4, <1>5 DEF MiddleOfBatch
  <1>7. GoesOn(q[1], 1 - 1, Tail(q), out, s)
    <2>1. GoesOn(q[1], 1, q, out, s)
      BY <1>1 DEF Chained
    <2> QED
      BY <1>1, <2>1, GoesOnMovesUp
  <1>8. \A i \in 1..Len(Tail(q)) :
          Mine(Tail(q)[i], s) /\ Tail(q)[i].left > 0 => GoesOn(Tail(q)[i], i, Tail(q), out, s)
    BY ChainedBehind DEF Chained
  <1>9. GoesOn(r[Len(r)], 0, Tail(q), out, s)
    BY <1>5, <1>7
  <1>10. Chained(r, Tail(q), out, s)
    BY <1>6, <1>8, <1>9 DEF Chained
  <1> QED
    BY <1>10 DEF r

(* A position hands over the buffered rows and its own: the end of one     *)
(* batch.                                                                  *)
LEMMA ChainedHandsOver ==
  ASSUME NEW p \in Seq(Line), NEW q \in Seq(Line), q # <<>>, NEW out, NEW s,
         Chained(p, q, out, s), Mine(q[1], s), q[1].left = 0
  PROVE  Chained(<<>>, Tail(q), out, s) /\ Whole(Append(p, q[1]), q[1].at)
  <1>1. q[1] \in Line
    BY TailIs
  <1>2. p # <<>> => Joins(p[Len(p)], q[1])
    BY NextJoins DEF Chained
  <1>3. \A i \in 1..Len(Append(p, q[1])) :
          /\ Append(p, q[1])[i].at = q[1].at
          /\ Append(p, q[1])[i].left = q[1].left + (Len(Append(p, q[1])) - i)
    BY <1>1, <1>2, MiddleGrows DEF Chained
  <1>4. Append(p, q[1]) \in Seq(Line)
    BY <1>1, AppendIs
  <1>5. Whole(Append(p, q[1]), q[1].at)
    <2> DEFINE r == Append(p, q[1])
    <2>1. r \in Seq(Line)
      BY <1>4
    <2>2. \A i \in 1..Len(r) : r[i].at = q[1].at /\ r[i].left = 0 + (Len(r) - i)
      BY <1>3
    <2> HIDE DEF r
    <2>3. Whole(r, q[1].at)
      BY <2>1, <2>2 DEF Whole
    <2> QED
      BY <2>3 DEF r
  <1>6. \A i \in 1..Len(Tail(q)) :
          Mine(Tail(q)[i], s) /\ Tail(q)[i].left > 0 => GoesOn(Tail(q)[i], i, Tail(q), out, s)
    BY ChainedBehind DEF Chained
  <1>7. Chained(<<>>, Tail(q), out, s)
    BY <1>6 DEF Chained, MiddleOfBatch
  <1> QED
    BY <1>5, <1>7

-----------------------------------------------------------------------------
(* Batches arrive whole.                                                   *)

(* The types of what carries messages, and how far the writers have come.  *)
LineType == /\ channel \in Seq(Line)
            /\ pending \in [Streams -> Seq(Line)]
            /\ outgoing \in [Writers -> Seq(Line)]
            /\ newest \in [Streams -> Nat] /\ torn \in SUBSET Streams
            /\ \A s \in Streams : newest[s] <= MaxPosition[s]

(* A writer has the end of one of its own batches left to publish.         *)
OutgoingRun ==
  \A w \in Writers :
    /\ EndOfBatch(outgoing[w])
    /\ \A i \in 1..Len(outgoing[w]) : outgoing[w][i].cmd = "RDATA"
                                        /\ outgoing[w][i].instance = w

(* What is buffered are rows of its stream.                                *)
BufferOwn ==
  \A s \in Streams : \A i \in 1..Len(pending[s]) :
    pending[s][i].cmd = "RDATA" /\ pending[s][i].stream = s

(* Between sessions nothing is buffered and nothing waits.                 *)
QuietOutside ==
  session # "follow" => channel = <<>> /\ \A s \in Streams : pending[s] = <<>>

(* The premise of BatchIsWhole.                                            *)
OneWriterEach == \A v, w \in Writers \ OwnName : StreamOf[v] = StreamOf[w] => v = w

(* No stream that is not torn has a hole between its writer and what is    *)
(* buffered of it.                                                         *)
NoHole ==
  OneWriterEach => \A w \in Writers \ OwnName :
    StreamOf[w] \notin torn => Chained(pending[StreamOf[w]], channel, outgoing[w], StreamOf[w])

ReplicationInv == /\ LineType /\ OutgoingRun /\ BufferOwn /\ QuietOutside
                  /\ NoHole /\ BatchIsWhole

(* An empty sequence of messages is one.                                   *)
LEMMA EmptyIsLines == <<>> \in Seq(Line) /\ Len(<<>>) = 0
  BY EmptySeq

(* The worker starts with nothing received.                                *)
LEMMA ReplicationInvInit == ReplicationInit => ReplicationInv
  <1> SUFFICES ASSUME ReplicationInit PROVE ReplicationInv
    OBVIOUS
  <1> USE ReplicationAssumption, EmptyIsLines
  <1> USE DEF ReplicationInit
  <1>1. LineType
    BY DEF LineType
  <1>2. OutgoingRun /\ BufferOwn /\ QuietOutside /\ BatchIsWhole
    BY DEF OutgoingRun, EndOfBatch, BufferOwn, QuietOutside, BatchIsWhole
  <1>3. NoHole
    BY ChainedFromNothing DEF NoHole
  <1> QED
    BY <1>1, <1>2, <1>3 DEF ReplicationInv

(* A step outside replication.                                             *)
LEMMA ReplicationInvUntouched ==
  ASSUME ReplicationInv, UNCHANGED replicationVars
  PROVE  ReplicationInv'
  <1> USE DEF replicationVars, subscriberVars, redisVars
  <1>1. LineType' /\ OutgoingRun' /\ BufferOwn' /\ QuietOutside' /\ BatchIsWhole'
    BY DEF ReplicationInv, LineType, OutgoingRun, BufferOwn, QuietOutside, BatchIsWhole
  <1>2. NoHole'
    BY DEF ReplicationInv, NoHole
  <1> QED
    BY <1>1, <1>2 DEF ReplicationInv

(* A writer that has published everything begins a new batch.              *)
LEMMA NewBatchKeeps ==
  ASSUME ReplicationInv, NEW w \in Writers, NEW rows \in Seq(TypingRow \cup {0}),
         StreamOf[w] = "typing" => rows \in Seq(TypingRow), NewBatch(w, rows)
  PROVE  ReplicationInv'
  <1> USE ReplicationAssumption
  <1> DEFINE s == StreamOf[w]
             out == [i \in DOMAIN rows |-> RData(w, rows[i], newest[s] + 1, Len(rows) - i)]
  <1>a. /\ outgoing[w] = <<>> /\ newest[s] < MaxPosition[s]
        /\ newest' = [newest EXCEPT ![s] = @ + 1]
        /\ outgoing' = [outgoing EXCEPT ![w] = out]
        /\ UNCHANGED <<pending, session, channel, torn, broken>>
    BY DEF NewBatch, subscriberVars
  <1>b. /\ newest[s] \in Nat /\ s \in Streams /\ MaxPosition[s] \in Nat /\ Len(rows) \in Nat
        /\ DOMAIN rows = 1..Len(rows)
    BY DEF ReplicationInv, LineType
  <1>c. ASSUME NEW i \in 1..Len(rows)
        PROVE  /\ out[i] \in Line /\ out[i].at = newest[s] + 1 /\ out[i].left = Len(rows) - i
               /\ out[i].cmd = "RDATA" /\ out[i].instance = w
    <2>1. /\ newest[s] + 1 \in Nat /\ newest[s] + 1 > 0 /\ newest[s] + 1 <= MaxPosition[s]
          /\ Len(rows) - i \in Nat
      BY <1>a, <1>b
    <2>2. rows[i] \in TypingRow \cup {0} /\ (StreamOf[w] = "typing" => rows[i] \in TypingRow)
      OBVIOUS
    <2>3. out[i] = RData(w, rows[i], newest[s] + 1, Len(rows) - i)
      BY <1>b
    <2>4. PICK at \in Nat, left \in Nat, row \in TypingRow \cup {0} :
            at = newest[s] + 1 /\ left = Len(rows) - i /\ row = rows[i]
      BY <2>1, <2>2
    <2>5. /\ out[i] = RData(w, row, at, left) /\ at > 0 /\ at <= MaxPosition[StreamOf[w]]
          /\ StreamOf[w] = "typing" => row \in TypingRow
      BY <2>1, <2>2, <2>3, <2>4
    <2> HIDE DEF out
    <2>6. /\ RData(w, row, at, left) \in Line
          /\ RData(w, row, at, left).at = at /\ RData(w, row, at, left).left = left
          /\ RData(w, row, at, left).cmd = "RDATA" /\ RData(w, row, at, left).instance = w
      <3> HIDE ReplicationAssumption
      <3>1. StreamOf[w] \in Streams /\ (IF left = 0 THEN at ELSE 0) \in Nat
        BY <1>b
      <3> QED
        BY <2>5, <3>1 DEF RData, Line
    <2> QED
      BY <2>4, <2>5, <2>6
  <1>d. DOMAIN out = 1..Len(rows)
    BY <1>b
  <1>e. out \in [1..Len(rows) -> Line]
    BY <1>b, <1>c
  <1> HIDE DEF out
  <1>f. out \in Seq(Line) /\ Len(out) = Len(rows)
    BY <1>b, <1>e
  <1>1. LineType'
    <2>1. outgoing' \in [Writers -> Seq(Line)]
      BY <1>a, <1>f DEF ReplicationInv, LineType
    <2>2. newest' \in [Streams -> Nat] /\ \A x \in Streams : newest'[x] <= MaxPosition[x]
      BY <1>a, <1>b DEF ReplicationInv, LineType
    <2> QED
      BY <1>a, <2>1, <2>2 DEF ReplicationInv, LineType
  <1>2. OutgoingRun'
    <2>1. EndOfBatch(out)
      BY <1>b, <1>c, <1>f DEF EndOfBatch
    <2>2. \A i \in 1..Len(out) : out[i].cmd = "RDATA" /\ out[i].instance = w
      BY <1>c, <1>f
    <2>3. outgoing'[w] = out /\ \A v \in Writers \ {w} : outgoing'[v] = outgoing[v]
      BY <1>a DEF ReplicationInv, LineType
    <2>4. ASSUME NEW v \in Writers
          PROVE  /\ EndOfBatch(outgoing'[v])
                 /\ \A i \in 1..Len(outgoing'[v]) : outgoing'[v][i].cmd = "RDATA"
                                                      /\ outgoing'[v][i].instance = v
      BY <2>1, <2>2, <2>3 DEF ReplicationInv, OutgoingRun
    <2> QED
      BY <2>4 DEF OutgoingRun, EndOfBatch
  <1>3. NoHole'
    <2> SUFFICES ASSUME OneWriterEach, NEW v \in Writers \ OwnName, StreamOf[v] \notin torn
                 PROVE  Chained(pending[StreamOf[v]], channel, outgoing'[v], StreamOf[v])
      BY <1>a DEF NoHole, OneWriterEach
    <2>1. Chained(pending[StreamOf[v]], channel, outgoing[v], StreamOf[v])
      BY DEF ReplicationInv, NoHole
    <2>2. CASE v = w
      BY <1>a, <2>1, <2>2, ChainedNewBatch
    <2>3. CASE v # w
      BY <1>a, <2>1, <2>3 DEF ReplicationInv, LineType
    <2> QED
      BY <2>2, <2>3
  <1>4. BufferOwn' /\ QuietOutside' /\ BatchIsWhole'
    BY <1>a DEF ReplicationInv, BufferOwn, QuietOutside, BatchIsWhole
  <1> QED
    BY <1>1, <1>2, <1>3, <1>4 DEF ReplicationInv

(* The writer's next message, whoever it reaches.                          *)
LEMMA NextMessage ==
  ASSUME ReplicationInv, NEW w \in Writers, outgoing[w] # <<>>
  PROVE  /\ outgoing[w] \in Seq(Line) /\ EndOfBatch(outgoing[w])
         /\ outgoing[w][1] \in Line /\ Head(outgoing[w]) = outgoing[w][1]
         /\ Tail(outgoing[w]) \in Seq(Line)
         /\ outgoing[w][1].cmd = "RDATA" /\ outgoing[w][1].instance = w
         /\ outgoing[w][1].stream = StreamOf[w]
  <1>1. outgoing[w] \in Seq(Line) /\ EndOfBatch(outgoing[w])
    BY DEF ReplicationInv, LineType, OutgoingRun
  <1>2. /\ outgoing[w][1] \in Line /\ Head(outgoing[w]) = outgoing[w][1]
        /\ Tail(outgoing[w]) \in Seq(Line) /\ Len(outgoing[w]) >= 1 /\ Len(outgoing[w]) \in Nat
    BY <1>1, TailIs
  <1>3. outgoing[w][1].cmd = "RDATA" /\ outgoing[w][1].instance = w
    BY <1>2 DEF ReplicationInv, OutgoingRun
  <1>4. outgoing[w][1].stream = StreamOf[w]
    BY <1>2, <1>3, LineFields
  <1> QED
    BY <1>1, <1>2, <1>3, <1>4

(* What is left of a batch after one message is still its end.             *)
LEMMA EndStaysEnd ==
  ASSUME NEW out \in Seq(Line), out # <<>>, EndOfBatch(out), NEW w,
         \A i \in 1..Len(out) : out[i].cmd = "RDATA" /\ out[i].instance = w
  PROVE  /\ EndOfBatch(Tail(out))
         /\ \A i \in 1..Len(Tail(out)) : Tail(out)[i].cmd = "RDATA" /\ Tail(out)[i].instance = w
  <1> DEFINE next == Tail(out)
  <1>1. /\ next \in Seq(Line) /\ Len(next) = Len(out) - 1 /\ Len(out) \in Nat
        /\ \A i \in 1..(Len(out) - 1) : next[i] = out[i + 1]
    BY TailIs
  <1> HIDE DEF next
  <1>2. ASSUME NEW i \in 1..Len(next)
        PROVE  /\ next[i].left = Len(next) - i /\ next[i].at = out[1].at
               /\ next[i].cmd = "RDATA" /\ next[i].instance = w
    <2>1. i + 1 \in 1..Len(out) /\ next[i] = out[i + 1]
      BY <1>1
    <2>2. out[i + 1].left = Len(out) - (i + 1) /\ out[i + 1].at = out[1].at
      BY <2>1 DEF EndOfBatch
    <2> QED
      BY <1>1, <2>1, <2>2
  <1>3. EndOfBatch(next)
    <2>1. ASSUME NEW i \in 1..Len(next) PROVE next[i].at = next[1].at
      <3>1. 1 \in 1..Len(next)
        BY <1>1
      <3> QED
        BY <1>2, <3>1
    <2> QED
      BY <1>2, <2>1 DEF EndOfBatch
  <1> QED
    BY <1>2, <1>3 DEF next

(* A writer publishes the next message of its batch: to a subscriber that  *)
(* hears it, to one that misses it and whose stream is torn, or to nobody. *)
LEMMA PublishRowKeeps ==
  ASSUME ReplicationInv, NEW w \in Writers, PublishRow(w)
  PROVE  ReplicationInv'
  <1> USE ReplicationAssumption
  <1> DEFINE s == StreamOf[w]
             h == outgoing[w][1]
             next == Tail(outgoing[w])
  <1>a. /\ outgoing[w] \in Seq(Line) /\ EndOfBatch(outgoing[w]) /\ outgoing[w] # <<>>
        /\ h \in Line /\ next \in Seq(Line)
        /\ h.cmd = "RDATA" /\ h.instance = w /\ h.stream = s
        /\ Head(outgoing[w]) = h
    BY NextMessage DEF PublishRow
  <1>b. /\ outgoing' = [outgoing EXCEPT ![w] = next]
        /\ channel' = IF Heard THEN Append(channel, h) ELSE channel
        /\ torn' = IF session = "follow" /\ ~linked THEN torn \cup {s} ELSE torn
        /\ UNCHANGED <<pending, session, newest, broken>>
    BY <1>a DEF PublishRow, Deliver, subscriberVars
  <1>c. /\ outgoing'[w] = next /\ \A v \in Writers \ {w} : outgoing'[v] = outgoing[v]
    BY <1>b DEF ReplicationInv, LineType
  <1>d. channel \in Seq(Line) /\ pending \in [Streams -> Seq(Line)] /\ outgoing \in [Writers -> Seq(Line)]
    BY DEF ReplicationInv, LineType
  <1>1. LineType'
    <2>1. channel' \in Seq(Line)
      BY <1>a, <1>b, <1>d, AppendIs
    <2>2. outgoing' \in [Writers -> Seq(Line)]
      BY <1>a, <1>b, <1>d
    <2>3. torn' \in SUBSET Streams
      BY <1>b DEF ReplicationInv, LineType
    <2> QED
      BY <1>b, <2>1, <2>2, <2>3 DEF ReplicationInv, LineType
  <1>2. OutgoingRun'
    <2>1. /\ EndOfBatch(next)
          /\ \A i \in 1..Len(next) : next[i].cmd = "RDATA" /\ next[i].instance = w
      <3>1. \A i \in 1..Len(outgoing[w]) :
              outgoing[w][i].cmd = "RDATA" /\ outgoing[w][i].instance = w
        BY DEF ReplicationInv, OutgoingRun
      <3> QED
        BY <1>a, <3>1, EndStaysEnd
    <2> HIDE DEF next
    <2>2. ASSUME NEW v \in Writers
          PROVE  /\ EndOfBatch(outgoing'[v])
                 /\ \A i \in 1..Len(outgoing'[v]) : outgoing'[v][i].cmd = "RDATA"
                                                      /\ outgoing'[v][i].instance = v
      BY <1>c, <2>1 DEF ReplicationInv, OutgoingRun
    <2> QED
      BY <2>2 DEF OutgoingRun, EndOfBatch
  <1>3. NoHole'
    <2> SUFFICES ASSUME OneWriterEach, NEW v \in Writers \ OwnName, StreamOf[v] \notin torn'
                 PROVE  Chained(pending[StreamOf[v]], channel', outgoing'[v], StreamOf[v])
      BY <1>b DEF NoHole, OneWriterEach
    <2> DEFINE t == StreamOf[v]
    <2>1. t \notin torn /\ t \in Streams /\ pending[t] \in Seq(Line) /\ outgoing[v] \in Seq(Line)
      BY <1>b, <1>d
    <2>2. Chained(pending[t], channel, outgoing[v], t)
      BY <2>1 DEF ReplicationInv, NoHole
    <2>3. CASE Heard /\ v = w
      <3>1. Mine(h, t) /\ t = s
        BY <1>a, <2>3 DEF Mine
      <3>2. channel' = Append(channel, h)
        BY <1>b, <2>3
      <3>3. Chained(pending[t], Append(channel, h), next, t)
        BY <1>a, <1>d, <2>1, <2>2, <2>3, <3>1, ChainedPublishes
      <3> QED
        BY <1>c, <2>3, <3>2, <3>3
    <2>4. CASE Heard /\ v # w
      <3>1. ~Mine(h, t)
        BY <1>a, <2>4 DEF Mine, OneWriterEach
      <3>2. channel' = Append(channel, h) /\ outgoing'[v] = outgoing[v]
        BY <1>b, <1>c, <2>4
      <3>3. Chained(pending[t], Append(channel, h), outgoing[v], t)
        BY <1>a, <1>d, <2>1, <2>2, <3>1, ChainedHears
      <3> QED
        BY <3>2, <3>3
    <2>5. CASE ~Heard /\ session = "follow"
      <3>1. v # w /\ channel' = channel
        BY <1>b, <2>5 DEF Heard
      <3> QED
        BY <1>c, <2>2, <3>1
    <2>6. CASE session # "follow"
      <3>1. pending[t] = <<>> /\ channel' = <<>>
        BY <1>b, <2>1, <2>6 DEF ReplicationInv, QuietOutside, Heard
      <3> QED
        BY <3>1, ChainedFromNothing
    <2> QED
      BY <2>3, <2>4, <2>5, <2>6
  <1>4. BufferOwn' /\ QuietOutside' /\ BatchIsWhole'
    BY <1>b DEF ReplicationInv, BufferOwn, QuietOutside, BatchIsWhole, Heard
  <1> QED
    BY <1>1, <1>2, <1>3, <1>4 DEF ReplicationInv

(* A writer announces its position between two batches.                    *)
LEMMA PublishPositionKeeps ==
  ASSUME ReplicationInv, NEW w \in Writers, PublishPosition(w)
  PROVE  ReplicationInv'
  <1> USE ReplicationAssumption
  <1> DEFINE h == Position(w, newest[StreamOf[w]])
  <1>a. /\ Heard /\ channel' = Append(channel, h)
        /\ UNCHANGED <<pending, session, newest, broken, outgoing, torn>>
    BY DEF PublishPosition, Deliver, Heard, subscriberVars
  <1>b. h \in Line /\ h.cmd = "POSITION"
    <2>1. StreamOf[w] \in Streams
      OBVIOUS
    <2>2. newest[StreamOf[w]] \in Nat /\ newest[StreamOf[w]] <= MaxPosition[StreamOf[w]]
      BY <2>1 DEF ReplicationInv, LineType
    <2> QED
      BY <2>1, <2>2 DEF Position, Line
  <1> HIDE DEF h
  <1>c. channel \in Seq(Line) /\ pending \in [Streams -> Seq(Line)] /\ outgoing \in [Writers -> Seq(Line)]
    BY DEF ReplicationInv, LineType
  <1>1. LineType'
    BY <1>a, <1>b, <1>c, AppendIs DEF ReplicationInv, LineType
  <1>2. NoHole'
    <2> SUFFICES ASSUME OneWriterEach, NEW v \in Writers \ OwnName, StreamOf[v] \notin torn
                 PROVE  Chained(pending[StreamOf[v]], channel', outgoing[v], StreamOf[v])
      BY <1>a DEF NoHole, OneWriterEach
    <2>1. Chained(pending[StreamOf[v]], channel, outgoing[v], StreamOf[v])
      BY DEF ReplicationInv, NoHole
    <2>2. ~Mine(h, StreamOf[v])
      BY <1>b DEF Mine
    <2>3. pending[StreamOf[v]] \in Seq(Line) /\ outgoing[v] \in Seq(Line)
      BY <1>c
    <2> QED
      BY <1>a, <1>b, <1>c, <2>1, <2>2, <2>3, ChainedHears
  <1>3. OutgoingRun' /\ BufferOwn' /\ QuietOutside' /\ BatchIsWhole'
    BY <1>a DEF ReplicationInv, OutgoingRun, BufferOwn, QuietOutside, BatchIsWhole, Heard
  <1> QED
    BY <1>1, <1>2, <1>3 DEF ReplicationInv

(* A session begins or is waited for, and the library's connection comes   *)
(* and goes below it: nothing moves.                                       *)
LEMMA SessionKeeps ==
  ASSUME ReplicationInv, Subscribe \/ Reconnect \/ LinkLost \/ LinkBack
  PROVE  ReplicationInv'
  <1>a. /\ UNCHANGED <<pending, channel, outgoing, newest, torn, broken>>
        /\ session' # "follow" => session # "follow"
    BY DEF Subscribe, Reconnect, LinkLost, LinkBack, redisVars, subscriberVars
  <1>1. LineType' /\ OutgoingRun' /\ BufferOwn' /\ QuietOutside' /\ BatchIsWhole'
    BY <1>a DEF ReplicationInv, LineType, OutgoingRun, BufferOwn, QuietOutside, BatchIsWhole
  <1>2. NoHole'
    BY <1>a DEF ReplicationInv, NoHole
  <1> QED
    BY <1>1, <1>2 DEF ReplicationInv

(* A session fails to begin or ends: nothing stays buffered.               *)
LEMMA NotLiveKeeps ==
  ASSUME ReplicationInv, ConnectFails \/ SessionEnds
  PROVE  ReplicationInv'
  <1> USE EmptyIsLines, ReplicationAssumption
  <1>a. /\ pending' = [s \in Streams |-> <<>>] /\ channel' = <<>>
        /\ torn' \in SUBSET Streams
        /\ UNCHANGED <<outgoing, newest, broken>>
    BY DEF ConnectFails, SessionEnds, SetNotLive, redisVars, ReplicationInv, LineType, QuietOutside
  <1>1. LineType' /\ OutgoingRun' /\ BatchIsWhole'
    BY <1>a DEF ReplicationInv, LineType, OutgoingRun, BatchIsWhole
  <1>2. BufferOwn' /\ QuietOutside'
    BY <1>a DEF BufferOwn, QuietOutside
  <1>3. NoHole'
    <2> SUFFICES ASSUME NEW v \in Writers \ OwnName
                 PROVE  Chained(pending'[StreamOf[v]], channel', outgoing'[v], StreamOf[v])
      BY DEF NoHole
    <2>1. pending'[StreamOf[v]] = <<>>
      BY <1>a
    <2> QED
      BY <1>a, <2>1, ChainedFromNothing
  <1> QED
    BY <1>1, <1>2, <1>3 DEF ReplicationInv

(* The typing writer restarts in the middle of a batch, or between two.    *)
LEMMA RestartKeeps ==
  ASSUME ReplicationInv, NEW w \in Writers, WriterRestarts(w)
  PROVE  ReplicationInv'
  <1> USE EmptyIsLines, ReplicationAssumption, StreamsAssumption
  <1>a. /\ StreamOf[w] = "typing"
        /\ newest' = [newest EXCEPT !["typing"] = 0]
        /\ outgoing' = [outgoing EXCEPT ![w] = <<>>]
        /\ torn' = IF outgoing[w] = <<>> THEN torn ELSE torn \cup {"typing"}
        /\ UNCHANGED <<pending, channel, session, broken>>
    BY DEF WriterRestarts, subscriberVars
  <1>1. LineType'
    BY <1>a DEF ReplicationInv, LineType
  <1>2. OutgoingRun'
    <2>1. ASSUME NEW v \in Writers
          PROVE  /\ EndOfBatch(outgoing'[v])
                 /\ \A i \in 1..Len(outgoing'[v]) : outgoing'[v][i].cmd = "RDATA"
                                                      /\ outgoing'[v][i].instance = v
      <3>1. CASE v = w
        <4>1. outgoing'[v] = <<>>
          BY <1>a, <3>1 DEF ReplicationInv, LineType
        <4> QED
          BY <4>1 DEF EndOfBatch
      <3>2. CASE v # w
        BY <1>a, <3>2 DEF ReplicationInv, OutgoingRun, LineType
      <3> QED
        BY <3>1, <3>2
    <2> QED
      BY <2>1 DEF OutgoingRun, EndOfBatch
  <1>3. NoHole'
    <2> SUFFICES ASSUME OneWriterEach, NEW v \in Writers \ OwnName, StreamOf[v] \notin torn'
                 PROVE  Chained(pending[StreamOf[v]], channel, outgoing'[v], StreamOf[v])
      BY <1>a DEF NoHole, OneWriterEach
    <2>1. Chained(pending[StreamOf[v]], channel, outgoing[v], StreamOf[v])
      BY <1>a DEF ReplicationInv, NoHole
    <2>2. outgoing'[v] = outgoing[v]
      BY <1>a DEF ReplicationInv, LineType
    <2> QED
      BY <2>1, <2>2
  <1>4. BufferOwn' /\ QuietOutside' /\ BatchIsWhole'
    BY <1>a DEF ReplicationInv, BufferOwn, QuietOutside, BatchIsWhole
  <1> QED
    BY <1>1, <1>2, <1>3, <1>4 DEF ReplicationInv

(* What handling a message does to the buffer of each stream.              *)
LEMMA HandledIs ==
  ASSUME ReplicationInv, HandleLine
  PROVE  /\ channel \in Seq(Line) /\ channel # <<>> /\ channel' = Tail(channel)
         /\ channel[1] \in Line /\ Head(channel) = channel[1]
         /\ Tail(channel) \in Seq(Line) /\ session = "follow"
         /\ UNCHANGED <<session, outgoing, newest, torn>>
         /\ HandleRDATA(channel[1]) \/ HandlePOSITION(channel[1])
  <1>1. channel \in Seq(Line) /\ channel # <<>>
    BY DEF ReplicationInv, LineType, HandleLine
  <1>2. channel[1] \in Line /\ Head(channel) = channel[1] /\ Tail(channel) \in Seq(Line)
    BY <1>1, TailIs
  <1> QED
    BY <1>1, <1>2 DEF HandleLine

(* The subscriber handles a message that is not a row, or a row under our  *)
(* own name: only positions move.                                          *)
LEMMA DropKeeps ==
  ASSUME ReplicationInv, HandleLine,
         channel[1].cmd = "POSITION" \/ channel[1].instance \in OwnName
  PROVE  ReplicationInv'
  <1> USE ReplicationAssumption
  <1>a. /\ channel \in Seq(Line) /\ channel # <<>> /\ channel' = Tail(channel)
        /\ channel' \in Seq(Line) /\ session = "follow"
        /\ UNCHANGED <<session, outgoing, newest, torn, pending, broken>>
    BY HandledIs DEF HandleRDATA, HandlePOSITION
  <1>1. /\ LineType' /\ OutgoingRun'
        /\ BufferOwn' /\ QuietOutside' /\ BatchIsWhole'
    <2>1. LineType'
      BY <1>a DEF ReplicationInv, LineType
    <2>2. OutgoingRun' /\ BufferOwn'
      BY <1>a DEF ReplicationInv, OutgoingRun, BufferOwn
    <2>3. QuietOutside' /\ BatchIsWhole'
      BY <1>a DEF ReplicationInv, QuietOutside, BatchIsWhole
    <2> QED
      BY <2>1, <2>2, <2>3
  <1>2. NoHole'
    <2> SUFFICES ASSUME OneWriterEach, NEW v \in Writers \ OwnName, StreamOf[v] \notin torn
                 PROVE  Chained(pending[StreamOf[v]], Tail(channel), outgoing[v], StreamOf[v])
      BY <1>a DEF NoHole, OneWriterEach
    <2>1. Chained(pending[StreamOf[v]], channel, outgoing[v], StreamOf[v])
      BY DEF ReplicationInv, NoHole
    <2>2. ~Mine(channel[1], StreamOf[v])
      BY DEF Mine
    <2>3. pending[StreamOf[v]] \in Seq(Line)
      BY DEF ReplicationInv, LineType
    <2> QED
      BY <1>a, <2>1, <2>2, <2>3, ChainedSkips
  <1> QED
    BY <1>1, <1>2 DEF ReplicationInv

(* The subscriber buffers a row whose token is "batch".                    *)
LEMMA BufferKeeps ==
  ASSUME ReplicationInv, HandleLine, channel[1].cmd = "RDATA",
         channel[1].instance \notin OwnName, channel[1].token = 0
  PROVE  ReplicationInv'
  <1> USE ReplicationAssumption
  <1> DEFINE h == channel[1]
             s == h.stream
             p == Append(pending[s], h)
  <1>a. /\ channel \in Seq(Line) /\ channel # <<>> /\ channel' = Tail(channel)
        /\ channel' \in Seq(Line) /\ session = "follow" /\ h \in Line
        /\ UNCHANGED <<session, outgoing, newest, torn, broken>>
        /\ pending' = [pending EXCEPT ![s] = p]
    BY HandledIs DEF HandleRDATA, HandlePOSITION
  <1>b. s \in Streams /\ s = StreamOf[h.instance] /\ h.instance \in Writers /\ h.left > 0
    BY <1>a, LineFields
  <1>c. pending \in [Streams -> Seq(Line)]
    BY DEF ReplicationInv, LineType
  <1>d. /\ p \in Seq(Line) /\ Len(p) = Len(pending[s]) + 1 /\ Len(pending[s]) \in Nat
        /\ (\A i \in 1..Len(pending[s]) : p[i] = pending[s][i]) /\ p[Len(pending[s]) + 1] = h
    BY <1>a, <1>b, <1>c, AppendIs
  <1> HIDE DEF p
  <1>e. pending'[s] = p /\ \A x \in Streams \ {s} : pending'[x] = pending[x]
    BY <1>a, <1>b, <1>c
  <1>1. LineType'
    BY <1>a, <1>b, <1>c, <1>d DEF ReplicationInv, LineType
  <1>2. BufferOwn'
    <2>1. ASSUME NEW x \in Streams, NEW i \in 1..Len(pending'[x])
          PROVE  pending'[x][i].cmd = "RDATA" /\ pending'[x][i].stream = x
      <3>1. CASE x = s
        <4>1. pending'[x] = p /\ i \in 1..(Len(pending[s]) + 1)
          BY <1>d, <1>e, <2>1, <3>1
        <4>2. CASE i \in 1..Len(pending[s])
          BY <1>b, <1>d, <3>1, <4>1, <4>2 DEF ReplicationInv, BufferOwn
        <4>3. CASE i = Len(pending[s]) + 1
          BY <1>d, <3>1, <4>1, <4>3
        <4> QED
          BY <1>d, <4>1, <4>2, <4>3
      <3>2. CASE x # s
        BY <1>e, <2>1, <3>2 DEF ReplicationInv, BufferOwn
      <3> QED
        BY <3>1, <3>2
    <2> QED
      BY <2>1 DEF BufferOwn
  <1>3. NoHole'
    <2> SUFFICES ASSUME OneWriterEach, NEW v \in Writers \ OwnName, StreamOf[v] \notin torn
                 PROVE  Chained(pending'[StreamOf[v]], Tail(channel), outgoing[v], StreamOf[v])
      BY <1>a DEF NoHole, OneWriterEach
    <2>1. Chained(pending[StreamOf[v]], channel, outgoing[v], StreamOf[v])
      BY DEF ReplicationInv, NoHole
    <2>2. pending[StreamOf[v]] \in Seq(Line) /\ StreamOf[v] \in Streams
      BY <1>c
    <2>3. CASE StreamOf[v] = s
      <3>1. Mine(h, s)
        BY DEF Mine
      <3>2. Chained(p, Tail(channel), outgoing[v], s)
        BY <1>a, <1>b, <2>1, <2>2, <2>3, <3>1, ChainedBuffers DEF p
      <3> QED
        BY <1>e, <2>3, <3>2
    <2>4. CASE StreamOf[v] # s
      <3>1. ~Mine(h, StreamOf[v])
        BY <2>4 DEF Mine
      <3>2. Chained(pending[StreamOf[v]], Tail(channel), outgoing[v], StreamOf[v])
        BY <1>a, <2>1, <2>2, <3>1, ChainedSkips
      <3> QED
        BY <1>e, <2>2, <2>4, <3>2
    <2> QED
      BY <2>3, <2>4
  <1>4. OutgoingRun' /\ QuietOutside' /\ BatchIsWhole'
    BY <1>a DEF ReplicationInv, OutgoingRun, QuietOutside, BatchIsWhole
  <1> QED
    BY <1>1, <1>2, <1>3, <1>4 DEF ReplicationInv

(* The subscriber hands over a batch.                                      *)
LEMMA HandOverKeeps ==
  ASSUME ReplicationInv, HandleLine, channel[1].cmd = "RDATA",
         channel[1].instance \notin OwnName, channel[1].token # 0
  PROVE  ReplicationInv'
  <1> USE ReplicationAssumption, EmptyIsLines
  <1> DEFINE h == channel[1]
             s == h.stream
  <1>a. /\ channel \in Seq(Line) /\ channel # <<>> /\ channel' = Tail(channel)
        /\ channel' \in Seq(Line) /\ session = "follow" /\ h \in Line
        /\ UNCHANGED <<session, outgoing, newest, torn>>
        /\ pending' = [pending EXCEPT ![s] = <<>>]
        /\ broken' = (broken \/ (s \notin torn /\ ~Whole(Append(pending[s], h), h.token)))
    BY HandledIs DEF HandleRDATA, HandlePOSITION, Batch
  <1>b. /\ s \in Streams /\ s = StreamOf[h.instance] /\ h.instance \in Writers
        /\ h.left = 0 /\ h.token = h.at
    BY <1>a, LineFields
  <1>c. pending \in [Streams -> Seq(Line)]
    BY DEF ReplicationInv, LineType
  <1>e. pending'[s] = <<>> /\ \A x \in Streams \ {s} : pending'[x] = pending[x]
    BY <1>a, <1>b, <1>c
  <1>f. Mine(h, s)
    BY DEF Mine
  <1>1. LineType'
    BY <1>a, <1>b, <1>c DEF ReplicationInv, LineType
  <1>2. BufferOwn'
    <2>1. ASSUME NEW x \in Streams, NEW i \in 1..Len(pending'[x])
          PROVE  pending'[x][i].cmd = "RDATA" /\ pending'[x][i].stream = x
      BY <1>e, <2>1 DEF ReplicationInv, BufferOwn
    <2> QED
      BY <2>1 DEF BufferOwn
  <1>3. NoHole'
    <2> SUFFICES ASSUME OneWriterEach, NEW v \in Writers \ OwnName, StreamOf[v] \notin torn
                 PROVE  Chained(pending'[StreamOf[v]], Tail(channel), outgoing[v], StreamOf[v])
      BY <1>a DEF NoHole, OneWriterEach
    <2>1. Chained(pending[StreamOf[v]], channel, outgoing[v], StreamOf[v])
      BY DEF ReplicationInv, NoHole
    <2>2. pending[StreamOf[v]] \in Seq(Line) /\ StreamOf[v] \in Streams
      BY <1>c
    <2>3. CASE StreamOf[v] = s
      <3>1. Chained(<<>>, Tail(channel), outgoing[v], s)
        BY <1>a, <1>b, <1>f, <2>1, <2>2, <2>3, ChainedHandsOver
      <3> QED
        BY <1>e, <2>3, <3>1
    <2>4. CASE StreamOf[v] # s
      <3>1. ~Mine(h, StreamOf[v])
        BY <2>4 DEF Mine
      <3>2. Chained(pending[StreamOf[v]], Tail(channel), outgoing[v], StreamOf[v])
        BY <1>a, <2>1, <2>2, <3>1, ChainedSkips
      <3> QED
        BY <1>e, <2>2, <2>4, <3>2
    <2> QED
      BY <2>3, <2>4
  <1>4. BatchIsWhole'
    <2> SUFFICES ASSUME OneWriterEach, broken' PROVE FALSE
      BY DEF BatchIsWhole, OneWriterEach
    <2>1. ~broken
      BY DEF ReplicationInv, BatchIsWhole, OneWriterEach
    <2>2. s \notin torn /\ ~Whole(Append(pending[s], h), h.token)
      BY <1>a, <2>1
    <2>3. h.instance \in Writers \ OwnName
      BY <1>b
    <2>4. Chained(pending[s], channel, outgoing[h.instance], s)
      BY <1>b, <2>2, <2>3 DEF ReplicationInv, NoHole
    <2>5. Whole(Append(pending[s], h), h.at)
      BY <1>a, <1>b, <1>c, <1>f, <2>4, ChainedHandsOver
    <2> QED
      BY <1>b, <2>2, <2>5
  <1>5. OutgoingRun' /\ QuietOutside'
    BY <1>a DEF ReplicationInv, OutgoingRun, QuietOutside
  <1> QED
    BY <1>1, <1>2, <1>3, <1>4, <1>5 DEF ReplicationInv

(* The subscriber handles one message.                                     *)
LEMMA HandleLineKeeps ==
  ASSUME ReplicationInv, HandleLine
  PROVE  ReplicationInv'
  <1>1. channel[1].cmd \in {"RDATA", "POSITION"}
    BY HandledIs, LineFields
  <1> QED
    BY <1>1, DropKeeps, BufferKeeps, HandOverKeeps

(* Every restart of the typing writer is one of the counted breaks.        *)
LifeCounted == breaks \in 0..MaxBreaks /\ life \in Nat /\ life <= breaks

(* No break at the start.                                                  *)
LEMMA LifeCountedInit == StreamsInit => LifeCounted
  BY ReplicationAssumption DEF StreamsInit, ReplicationInit, LifeCounted

(* Every restart counts as a break, and the breaks stay below their bound. *)
LEMMA LifeCountedStep ==
  ASSUME LifeCounted, [StreamsNext]_allStreams
  PROVE  LifeCounted'
  <1> USE ReplicationAssumption
  <1> USE DEF LifeCounted
  <1>1. ASSUME NEW w \in Writers, TypistsChange(w) PROVE LifeCounted'
    BY <1>1 DEF TypistsChange, NewBatch
  <1>2. ASSUME NEW w \in Writers, EventsPersisted(w) PROVE LifeCounted'
    BY <1>2 DEF EventsPersisted, NewBatch, streamsVars
  <1>3. ASSUME NEW w \in Writers, WriterRestarts(w) PROVE LifeCounted'
    BY <1>3 DEF WriterRestarts
  <1>4. CASE Subscription /\ UNCHANGED <<typingVars, streamsVars>>
    BY <1>4 DEF Subscription, streamsVars, PublishRow, PublishPosition, Deliver, Subscribe,
                ConnectFails, Reconnect, LinkLost, LinkBack, SessionEnds
  <1>5. CASE Receive
    BY <1>5 DEF Receive, HandleLine
  <1>6. CASE TypingStep /\ UNCHANGED <<replicationVars, streamsVars>>
    BY <1>6 DEF replicationVars, streamsVars
  <1>7. CASE UNCHANGED allStreams
    BY <1>7 DEF allStreams, replicationVars, streamsVars
  <1> QED
    BY <1>1, <1>2, <1>3, <1>4, <1>5, <1>6, <1>7 DEF StreamsNext

(* The rows of a batch that the typing writer publishes.                   *)
LEMMA TypistsRows ==
  ASSUME LifeCounted, NEW sets \in [Rooms -> SUBSET Users], NEW n \in Nat,
         NEW order \in [1..n -> Rooms], \A r \in Rooms : sets[r] \subseteq JoinedTo[r]
  PROVE  [i \in 1..n |-> [room |-> order[i], users |-> sets[order[i]], life |-> life]]
           \in Seq(TypingRow)
  <1> DEFINE row(i) == [room |-> order[i], users |-> sets[order[i]], life |-> life]
  <1>1. life \in 0..MaxBreaks
    BY ReplicationAssumption DEF LifeCounted
  <1>2. ASSUME NEW i \in 1..n PROVE row(i) \in TypingRow
    <2>1. order[i] \in Rooms /\ sets[order[i]] \in SUBSET Users
          /\ sets[order[i]] \subseteq JoinedTo[order[i]]
      OBVIOUS
    <2> QED
      BY <1>1, <2>1 DEF TypingRow
  <1> HIDE DEF row
  <1>3. [i \in 1..n |-> row(i)] \in Seq(TypingRow)
    BY <1>2
  <1> QED
    BY <1>3 DEF row

(* Every step keeps what is known of batches on their way.                 *)
LEMMA ReplicationInvStep ==
  ASSUME ReplicationInv, LifeCounted, [StreamsNext]_allStreams
  PROVE  ReplicationInv'
  <1>1. ASSUME NEW w \in Writers, TypistsChange(w) PROVE ReplicationInv'
    <2>1. PICK sets \in [Rooms -> SUBSET Users], n \in 1..BatchSize : \E order \in [1..n -> Rooms] :
            /\ \A r \in Rooms : sets[r] \subseteq JoinedTo[r]
            /\ NewBatch(w, [i \in 1..n |->
                 [room |-> order[i], users |-> sets[order[i]], life |-> life]])
      BY <1>1 DEF TypistsChange
    <2>2. PICK order \in [1..n -> Rooms] :
            /\ \A r \in Rooms : sets[r] \subseteq JoinedTo[r]
            /\ NewBatch(w, [i \in 1..n |->
                 [room |-> order[i], users |-> sets[order[i]], life |-> life]])
      BY <2>1
    <2> DEFINE rows == [i \in 1..n |->
                 [room |-> order[i], users |-> sets[order[i]], life |-> life]]
    <2>3. n \in Nat
      BY StreamsAssumption
    <2>4. rows \in Seq(TypingRow)
      BY <2>2, <2>3, TypistsRows
    <2>5. NewBatch(w, rows)
      BY <2>2
    <2> HIDE DEF rows
    <2>6. rows \in Seq(TypingRow \cup {0})
      BY <2>4
    <2> QED
      BY <2>4, <2>5, <2>6, NewBatchKeeps
  <1>2. ASSUME NEW w \in Writers, EventsPersisted(w) PROVE ReplicationInv'
    <2> DEFINE rows == [i \in 1..BatchSize |-> 0]
    <2>1. rows \in Seq(TypingRow \cup {0})
      BY StreamsAssumption
    <2>2. StreamOf[w] # "typing" /\ NewBatch(w, rows)
      BY <1>2 DEF EventsPersisted
    <2> HIDE DEF rows
    <2> QED
      BY <2>1, <2>2, NewBatchKeeps
  <1>3. ASSUME NEW w \in Writers, WriterRestarts(w) PROVE ReplicationInv'
    BY <1>3, RestartKeeps
  <1>4. CASE Subscription /\ UNCHANGED <<typingVars, streamsVars>>
    BY <1>4, PublishRowKeeps, PublishPositionKeeps, SessionKeeps, NotLiveKeeps DEF Subscription
  <1>5. CASE Receive
    BY <1>5, HandleLineKeeps DEF Receive
  <1>6. CASE TypingStep /\ UNCHANGED <<replicationVars, streamsVars>>
    BY <1>6, ReplicationInvUntouched
  <1>7. CASE UNCHANGED allStreams
    BY <1>7, ReplicationInvUntouched DEF allStreams
  <1> QED
    BY <1>1, <1>2, <1>3, <1>4, <1>5, <1>6, <1>7 DEF StreamsNext

(* BatchIsWhole: what handleLine hands over is the end of one published    *)
(* batch, in every run, for any streams, writers and batch sizes.          *)
THEOREM BatchIsWholeAlways == StreamsSpec => []BatchIsWhole
  <1>1. StreamsInit => ReplicationInv /\ LifeCounted
    BY ReplicationInvInit, LifeCountedInit DEF StreamsInit
  <1>2. ReplicationInv /\ LifeCounted /\ [StreamsNext]_allStreams
          => (ReplicationInv /\ LifeCounted)'
    BY ReplicationInvStep, LifeCountedStep
  <1>3. ReplicationInv => BatchIsWhole
    BY DEF ReplicationInv
  <1> QED
    BY <1>1, <1>2, <1>3, PTL DEF StreamsSpec

-----------------------------------------------------------------------------
(* The writer is remembered.                                               *)

(* The message m is a row of the typing stream that is on its way: not yet *)
(* published, not yet handled, or buffered.                                *)
Carried(m) ==
  /\ m.cmd = "RDATA" /\ m.stream = "typing"
  /\ \/ \E i \in 1..Len(channel) : m = channel[i]
     \/ \E s \in Streams : \E i \in 1..Len(pending[s]) : m = pending[s][i]
     \/ \E w \in Writers : \E i \in 1..Len(outgoing[w]) : m = outgoing[w][i]

(* A token that the typing writer has allocated, in this life or before.   *)
Issued(l, at) == l < life \/ (l = life /\ at <= newest["typing"])

(* The newest row of a room says what the writer's set is.                 *)
RowTrue(m) ==
  /\ Issued(m.row.life, m.at)
  /\ latest[m.row.room] = <<m.row.life, m.at>> => m.row.users = typists[m.row.room]

HistoryType == /\ typists \in [Rooms -> SUBSET Users] /\ rooms \in [Rooms -> SUBSET Users]
               /\ latest \in [Rooms -> Nat \X Nat] /\ told \in [Rooms -> Nat \X Nat]

(* A room that no row of this life was about is empty.                     *)
LatestIssued ==
  \A r \in Rooms : /\ latest[r][1] = life /\ latest[r][2] <= newest["typing"]
                   /\ latest[r][2] = 0 => typists[r] = {}

RememberInv == /\ HistoryType /\ LatestIssued /\ RemembersTheWriter
               /\ \A r \in Rooms : Issued(told[r][1], told[r][2])
               /\ \A m \in Line : Carried(m) => RowTrue(m)

(* A row says something of a room.                                         *)
LEMMA RowFields ==
  ASSUME NEW m \in Line, m.cmd = "RDATA", m.stream = "typing"
  PROVE  /\ m.row.room \in Rooms /\ m.row.users \in SUBSET Users /\ m.row.life \in Nat
         /\ m.at \in Nat
  <1>1. m.row \in TypingRow /\ m.at \in Nat
    BY LineFields
  <1> QED
    BY <1>1, ReplicationAssumption DEF TypingRow

(* Publishing moves a row, and a position is none.                         *)
LEMMA NothingNewPublished ==
  ASSUME ReplicationInv, NEW w \in Writers, PublishRow(w) \/ PublishPosition(w),
         NEW m \in Line, Carried(m)'
  PROVE  Carried(m)
  <1>1. CASE PublishRow(w)
    <2> DEFINE h == outgoing[w][1]
               next == Tail(outgoing[w])
    <2>1. /\ outgoing[w] \in Seq(Line) /\ outgoing[w] # <<>> /\ h \in Line
          /\ Head(outgoing[w]) = h
      BY <1>1, NextMessage DEF PublishRow
    <2>2. /\ Len(outgoing[w]) \in Nat /\ Len(outgoing[w]) >= 1
          /\ next \in Seq(Line) /\ Len(next) = Len(outgoing[w]) - 1
          /\ \A i \in 1..(Len(outgoing[w]) - 1) : next[i] = outgoing[w][i + 1]
      BY <2>1, TailIs
    <2>3. /\ outgoing' = [outgoing EXCEPT ![w] = next] /\ pending' = pending
          /\ channel' = channel \/ channel' = Append(channel, h)
      BY <1>1, <2>1 DEF PublishRow, Deliver, subscriberVars
    <2>4. channel \in Seq(Line) /\ outgoing \in [Writers -> Seq(Line)]
      BY DEF ReplicationInv, LineType
    <2> HIDE DEF h, next
    <2>5. CASE \E i \in 1..Len(channel') : m = channel'[i]
      <3>1. PICK i \in 1..Len(channel') : m = channel'[i]
        BY <2>5
      <3>2. CASE i \in 1..Len(channel) /\ m = channel[i]
        BY <3>2 DEF Carried
      <3>3. CASE m = h
        BY <2>2, <3>3 DEF Carried, h
      <3>4. (i \in 1..Len(channel) /\ m = channel[i]) \/ m = h
        <4>1. CASE channel' = channel
          BY <3>1, <4>1
        <4>2. CASE channel' = Append(channel, h)
          <5> DEFINE r == Append(channel, h)
          <5>1. /\ Len(r) = Len(channel) + 1 /\ Len(channel) \in Nat
                /\ (\A j \in 1..Len(channel) : r[j] = channel[j]) /\ r[Len(channel) + 1] = h
            BY <2>1, <2>4, AppendIs
          <5> HIDE DEF r
          <5>2. i \in 1..Len(r) /\ m = r[i]
            BY <3>1, <4>2 DEF r
          <5> QED
            BY <5>1, <5>2
        <4> QED
          BY <2>3, <4>1, <4>2
      <3> QED
        BY <3>2, <3>3, <3>4
    <2>6. CASE \E v \in Writers : \E i \in 1..Len(outgoing'[v]) : m = outgoing'[v][i]
      <3>1. PICK v \in Writers : \E i \in 1..Len(outgoing'[v]) : m = outgoing'[v][i]
        BY <2>6
      <3>2. PICK i \in 1..Len(outgoing'[v]) : m = outgoing'[v][i]
        BY <3>1
      <3>3. CASE v = w
        <4>1. outgoing'[v] = next
          BY <2>3, <2>4, <3>3
        <4>2. i + 1 \in 1..Len(outgoing[w]) /\ m = outgoing[w][i + 1]
          BY <2>2, <3>2, <4>1
        <4> QED
          BY <4>2 DEF Carried
      <3>4. CASE v # w
        <4>1. outgoing'[v] = outgoing[v]
          BY <2>3, <2>4, <3>4
        <4> QED
          BY <3>2, <4>1 DEF Carried
      <3> QED
        BY <3>3, <3>4
    <2> QED
      BY <2>3, <2>5, <2>6 DEF Carried
  <1>2. CASE PublishPosition(w)
    <2> DEFINE h == Position(w, newest[StreamOf[w]])
    <2>1. channel' = Append(channel, h) /\ UNCHANGED <<pending, outgoing>>
      BY <1>2 DEF PublishPosition, Deliver, Heard, subscriberVars
    <2>2. h.cmd = "POSITION"
      BY DEF Position
    <2>3. channel \in Seq(Line)
      BY DEF ReplicationInv, LineType
    <2> HIDE DEF h
    <2>4. CASE \E i \in 1..Len(channel') : m = channel'[i]
      <3>1. PICK i \in 1..Len(channel') : m = channel'[i]
        BY <2>4
      <3>2. m # h
        BY <2>2 DEF Carried
      <3>3. i \in 1..Len(channel) /\ m = channel[i]
        BY <2>1, <2>3, <3>1, <3>2
      <3> QED
        BY <3>3 DEF Carried
    <2> QED
      BY <2>1, <2>4 DEF Carried
  <1> QED
    BY <1>1, <1>2

(* Handling a message only moves it or drops it.                           *)
LEMMA NothingNewHandled ==
  ASSUME ReplicationInv, HandleLine, NEW m \in Line, Carried(m)'
  PROVE  Carried(m)
  <1> DEFINE h == channel[1]
             next == Tail(channel)
             p == Append(pending[h.stream], h)
  <1>1. /\ channel \in Seq(Line) /\ channel # <<>> /\ channel' = next /\ h \in Line
        /\ outgoing' = outgoing
    BY HandledIs
  <1>2. /\ Len(channel) \in Nat /\ Len(channel) >= 1 /\ Len(next) = Len(channel) - 1
        /\ \A i \in 1..(Len(channel) - 1) : next[i] = channel[i + 1]
    BY <1>1, TailIs
  <1>3. h.stream \in Streams /\ pending \in [Streams -> Seq(Line)]
    BY <1>1, LineFields DEF ReplicationInv, LineType
  <1>4. /\ Len(p) = Len(pending[h.stream]) + 1 /\ Len(pending[h.stream]) \in Nat
        /\ \A i \in 1..Len(pending[h.stream]) : p[i] = pending[h.stream][i]
        /\ p[Len(pending[h.stream]) + 1] = h
    BY <1>1, <1>3, AppendIs
  <1>5. \/ pending' = pending
        \/ pending' = [pending EXCEPT ![h.stream] = p]
        \/ pending' = [pending EXCEPT ![h.stream] = <<>>]
    BY HandledIs DEF HandleRDATA, HandlePOSITION
  <1> HIDE DEF h, next, p
  <1>6. CASE \E i \in 1..Len(next) : m = next[i]
    <2>1. PICK i \in 1..Len(next) : m = next[i]
      BY <1>6
    <2>2. i + 1 \in 1..Len(channel) /\ m = channel[i + 1]
      BY <1>2, <2>1
    <2> QED
      BY <2>2 DEF Carried
  <1>7. CASE \E s \in Streams : \E i \in 1..Len(pending'[s]) : m = pending'[s][i]
    <2>1. PICK s \in Streams : \E i \in 1..Len(pending'[s]) : m = pending'[s][i]
      BY <1>7
    <2>2. PICK i \in 1..Len(pending'[s]) : m = pending'[s][i]
      BY <2>1
    <2>3. CASE pending'[s] = pending[s]
      BY <2>2, <2>3 DEF Carried
    <2>4. CASE s = h.stream /\ pending'[s] = p
      <3>1. (i \in 1..Len(pending[s]) /\ m = pending[s][i]) \/ m = h
        BY <1>4, <2>2, <2>4
      <3>2. CASE m = h
        BY <1>2, <3>2 DEF Carried, h
      <3> QED
        BY <3>1, <3>2 DEF Carried
    <2>5. CASE pending'[s] = <<>>
      BY <2>2, <2>5, EmptyIsLines
    <2> QED
      BY <1>3, <1>5, <2>3, <2>4, <2>5
  <1> QED
    BY <1>1, <1>6, <1>7 DEF Carried

(* Sessions only drop.                                                     *)
LEMMA NothingNewInSession ==
  ASSUME ReplicationInv, NEW m \in Line, Carried(m)',
         Subscribe \/ Reconnect \/ LinkLost \/ LinkBack \/ ConnectFails \/ SessionEnds
  PROVE  Carried(m)
  <1>1. CASE Subscribe \/ Reconnect \/ LinkLost \/ LinkBack
    <2>1. UNCHANGED <<pending, channel, outgoing>>
      BY <1>1 DEF Subscribe, Reconnect, LinkLost, LinkBack, redisVars, subscriberVars
    <2> QED
      BY <2>1 DEF Carried
  <1>2. CASE ConnectFails \/ SessionEnds
    <2>1. /\ pending' = [s \in Streams |-> <<>>] /\ channel' = <<>> /\ outgoing' = outgoing
      BY <1>2 DEF ConnectFails, SessionEnds, SetNotLive, redisVars, ReplicationInv, QuietOutside
    <2> QED
      BY <2>1, EmptyIsLines DEF Carried
  <1> QED
    BY <1>1, <1>2

(* So does a writer that dies.                                             *)
LEMMA NothingNewRestarted ==
  ASSUME ReplicationInv, NEW w \in Writers, WriterRestarts(w), NEW m \in Line, Carried(m)'
  PROVE  Carried(m)
  <1>1. outgoing' = [outgoing EXCEPT ![w] = <<>>] /\ UNCHANGED <<pending, channel>>
    BY DEF WriterRestarts, subscriberVars
  <1>2. \A v \in Writers : outgoing'[v] = outgoing[v] \/ outgoing'[v] = <<>>
    BY <1>1 DEF ReplicationInv, LineType
  <1> QED
    BY <1>1, <1>2, EmptyIsLines DEF Carried

(* A new batch puts exactly its own rows on their way.                     *)
LEMMA NewlyCarried ==
  ASSUME ReplicationInv, NEW w \in Writers, NEW rows \in Seq(TypingRow \cup {0}),
         NewBatch(w, rows), NEW m \in Line, Carried(m)'
  PROVE  \/ Carried(m)
         \/ /\ StreamOf[w] = "typing"
            /\ \E i \in 1..Len(rows) : m.row = rows[i] /\ m.at = newest["typing"] + 1
  <1> DEFINE s == StreamOf[w]
             out == [i \in DOMAIN rows |-> RData(w, rows[i], newest[s] + 1, Len(rows) - i)]
  <1>1. outgoing' = [outgoing EXCEPT ![w] = out] /\ UNCHANGED <<pending, channel>>
    BY DEF NewBatch, subscriberVars
  <1>2. DOMAIN out = 1..Len(rows) /\ Len(rows) \in Nat
    OBVIOUS
  <1>3. \A i \in 1..Len(rows) : out[i] = RData(w, rows[i], newest[s] + 1, Len(rows) - i)
    OBVIOUS
  <1>4. Len(out) = Len(rows)
    BY <1>2
  <1> HIDE DEF out
  <1>5. CASE \E i \in 1..Len(out) : m = out[i]
    <2>1. PICK i \in 1..Len(out) : m = out[i]
      BY <1>5
    <2>2. m = RData(w, rows[i], newest[s] + 1, Len(rows) - i) /\ i \in 1..Len(rows)
      BY <1>3, <1>4, <2>1
    <2>3. m.row = rows[i] /\ m.at = newest[s] + 1 /\ m.stream = s
      BY <2>2 DEF RData
    <2>4. m.stream = "typing"
      BY DEF Carried
    <2> QED
      BY <2>2, <2>3, <2>4
  <1>6. outgoing'[w] = out /\ \A v \in Writers \ {w} : outgoing'[v] = outgoing[v]
    BY <1>1 DEF ReplicationInv, LineType
  <1> QED
    BY <1>1, <1>5, <1>6 DEF Carried

(* Nobody types at the start, and nothing is on its way.                   *)
LEMMA RememberInvInit == StreamsInit => RememberInv
  <1> SUFFICES ASSUME StreamsInit PROVE RememberInv
    OBVIOUS
  <1> USE ReplicationAssumption, StreamsAssumption, EmptyIsLines
  <1> USE DEF StreamsInit, ReplicationInit, TypingInit
  <1>1. HistoryType /\ LatestIssued /\ RemembersTheWriter
    BY DEF HistoryType, LatestIssued, RemembersTheWriter
  <1>2. \A r \in Rooms : Issued(told[r][1], told[r][2])
    BY DEF Issued
  <1>3. \A m \in Line : ~Carried(m)
    BY DEF Carried
  <1> QED
    BY <1>1, <1>2, <1>3 DEF RememberInv

(* A step that changes nothing of the writer nor of what is remembered,    *)
(* and puts no row on its way.                                             *)
LEMMA RememberInvQuiet ==
  ASSUME RememberInv, UNCHANGED <<typists, life, latest, told, rooms>>,
         newest'["typing"] = newest["typing"], \A m \in Line : Carried(m)' => Carried(m)
  PROVE  RememberInv'
  <1>1. HistoryType' /\ LatestIssued' /\ RemembersTheWriter'
    BY DEF RememberInv, HistoryType, LatestIssued, RemembersTheWriter
  <1>2. \A r \in Rooms : Issued(told[r][1], told[r][2])'
    BY DEF RememberInv, Issued
  <1>3. \A m \in Line : Carried(m)' => RowTrue(m)'
    BY DEF RememberInv, RowTrue, Issued
  <1> QED
    BY <1>1, <1>2, <1>3 DEF RememberInv, Issued

(* The typing writer allocates a token and has rows for the rooms that     *)
(* changed: no older row of theirs is the newest any more.                 *)
LEMMA TypistsChangeRemembers ==
  ASSUME ReplicationInv, LifeCounted, RememberInv, NEW w \in Writers, TypistsChange(w)
  PROVE  RememberInv'
  <1> USE ReplicationAssumption, StreamsAssumption
  <1> DEFINE row(order, sets, i) == [room |-> order[i], users |-> sets[order[i]], life |-> life]
             at == newest["typing"] + 1
  <1>1. PICK sets \in [Rooms -> SUBSET Users], n \in 1..BatchSize : \E order \in [1..n -> Rooms] :
          /\ {order[i] : i \in 1..n} = {r \in Rooms : sets[r] # typists[r]}
          /\ \A r \in Rooms : sets[r] \subseteq JoinedTo[r]
          /\ typists' = sets
          /\ NewBatch(w, [i \in 1..n |-> row(order, sets, i)])
          /\ latest' = [r \in Rooms |-> IF sets[r] # typists[r] THEN <<life, at>> ELSE latest[r]]
    BY DEF TypistsChange
  <1>2. PICK order \in [1..n -> Rooms] :
          /\ {order[i] : i \in 1..n} = {r \in Rooms : sets[r] # typists[r]}
          /\ \A r \in Rooms : sets[r] \subseteq JoinedTo[r]
          /\ typists' = sets
          /\ NewBatch(w, [i \in 1..n |-> row(order, sets, i)])
          /\ latest' = [r \in Rooms |-> IF sets[r] # typists[r] THEN <<life, at>> ELSE latest[r]]
    BY <1>1
  <1> DEFINE rows == [i \in 1..n |-> row(order, sets, i)]
  <1>3. rows \in Seq(TypingRow) /\ Len(rows) = n
    <2>1. n \in Nat
      OBVIOUS
    <2>2. \A r \in Rooms : sets[r] \subseteq JoinedTo[r]
      BY <1>2
    <2>3. rows \in Seq(TypingRow)
      BY <2>1, <2>2, TypistsRows
    <2> QED
      BY <2>1, <2>3
  <1>4. NewBatch(w, rows)
    BY <1>2
  <1>5. \A i \in 1..n : rows[i].room = order[i] /\ rows[i].users = sets[order[i]]
                          /\ rows[i].life = life
    OBVIOUS
  <1> HIDE DEF rows
  <1>6. /\ newest["typing"] \in Nat /\ life \in Nat
        /\ newest'["typing"] = at
        /\ UNCHANGED <<life, told, rooms>>
    <2>1. newest \in [Streams -> Nat] /\ "typing" \in Streams /\ StreamOf[w] = "typing"
      BY DEF ReplicationInv, LineType, TypistsChange
    <2> QED
      BY <1>4, <2>1 DEF NewBatch, TypistsChange, typingVars, LifeCounted
  <1>7. ASSUME NEW r \in Rooms
        PROVE  /\ latest'[r] = (IF sets[r] # typists[r] THEN <<life, at>> ELSE latest[r])
               /\ typists'[r] = sets[r] /\ rooms'[r] = rooms[r] /\ told'[r] = told[r]
               /\ latest[r][1] = life /\ latest[r][2] \in Nat /\ latest[r][2] <= newest["typing"]
               /\ latest[r][2] = 0 => typists[r] = {}
               /\ latest[r] \in Nat \X Nat /\ told[r] \in Nat \X Nat
               /\ Issued(told[r][1], told[r][2])
               /\ told[r] = latest[r] => rooms[r] = typists[r]
    BY <1>2, <1>6 DEF RememberInv, HistoryType, LatestIssued, RemembersTheWriter
  <1>8. HistoryType'
    <2>1. \A r \in Rooms : latest'[r] \in Nat \X Nat
      BY <1>6, <1>7
    <2>2. latest' = [r \in Rooms |-> latest'[r]]
      BY <1>2
    <2>3. latest' \in [Rooms -> Nat \X Nat]
      BY <2>1, <2>2
    <2> QED
      BY <1>2, <1>6, <2>3 DEF RememberInv, HistoryType
  <1>9. LatestIssued'
    <2>1. ASSUME NEW r \in Rooms
          PROVE  /\ latest'[r][1] = life' /\ latest'[r][2] <= newest'["typing"]
                 /\ latest'[r][2] = 0 => typists'[r] = {}
      BY <1>6, <1>7
    <2> QED
      BY <2>1 DEF LatestIssued
  <1>10. RemembersTheWriter' /\ \A r \in Rooms : Issued(told[r][1], told[r][2])'
    <2>1. ASSUME NEW r \in Rooms, told'[r] = latest'[r] PROVE rooms'[r] = typists'[r]
      <3>1. CASE sets[r] # typists[r]
        <4>1. told[r][1] = life /\ told[r][2] = at
          BY <1>6, <1>7, <2>1, <3>1
        <4> QED
          BY <1>6, <1>7, <4>1 DEF Issued
      <3>2. CASE sets[r] = typists[r]
        BY <1>7, <2>1, <3>2
      <3> QED
        BY <3>1, <3>2
    <2>2. ASSUME NEW r \in Rooms PROVE Issued(told[r][1], told[r][2])'
      BY <1>6, <1>7 DEF Issued
    <2> QED
      BY <2>1, <2>2 DEF RemembersTheWriter
  <1>11. ASSUME NEW m \in Line, Carried(m)' PROVE RowTrue(m)'
    <2>1. m.row.room \in Rooms /\ m.row.life \in Nat /\ m.at \in Nat
      BY <1>11, RowFields DEF Carried
    <2>2. CASE Carried(m)
      <3>1. RowTrue(m)
        BY <2>2 DEF RememberInv
      <3>2. Issued(m.row.life, m.at)'
        BY <1>6, <2>1, <3>1 DEF RowTrue, Issued
      <3>3. ASSUME latest'[m.row.room] = <<m.row.life, m.at>>
            PROVE  m.row.users = typists'[m.row.room]
        <4>1. sets[m.row.room] = typists[m.row.room]
          <5> SUFFICES ASSUME sets[m.row.room] # typists[m.row.room] PROVE FALSE
            OBVIOUS
          <5>1. m.row.life = life /\ m.at = at
            BY <1>7, <2>1, <3>3
          <5> QED
            BY <1>6, <2>1, <3>1, <5>1 DEF RowTrue, Issued
        <4> QED
          BY <1>7, <2>1, <3>1, <3>3, <4>1 DEF RowTrue
      <3> QED
        BY <3>2, <3>3 DEF RowTrue
    <2>3. CASE \E i \in 1..Len(rows) : m.row = rows[i] /\ m.at = newest["typing"] + 1
      <3>1. PICK i \in 1..n : m.row = rows[i] /\ m.at = at
        BY <1>3, <2>3
      <3>2. m.row.life = life /\ m.row.users = sets[m.row.room]
        <4>1. rows[i].life = life /\ rows[i].users = sets[rows[i].room]
          BY <1>5
        <4> QED
          BY <3>1, <4>1
      <3>3. Issued(m.row.life, m.at)'
        <4>1. m.row.life = life' /\ m.at = newest'["typing"] /\ m.at \in Nat
          BY <1>6, <3>1, <3>2
        <4> QED
          BY <4>1 DEF Issued
      <3> QED
        BY <1>7, <2>1, <3>2, <3>3 DEF RowTrue
    <2>4. rows \in Seq(TypingRow \cup {0})
      BY <1>3
    <2> QED
      BY <1>4, <1>11, <2>2, <2>3, <2>4, NewlyCarried
  <1> QED
    BY <1>8, <1>9, <1>10, <1>11 DEF RememberInv

(* The typing writer restarts: every row on its way is of an earlier life. *)
LEMMA RestartRemembers ==
  ASSUME ReplicationInv, LifeCounted, RememberInv, NEW w \in Writers, WriterRestarts(w)
  PROVE  RememberInv'
  <1> USE ReplicationAssumption, StreamsAssumption
  <1>1. /\ life' = life + 1 /\ life \in Nat /\ newest'["typing"] = 0
        /\ typists' = [r \in Rooms |-> {}] /\ latest' = [r \in Rooms |-> <<life + 1, 0>>]
        /\ UNCHANGED <<told, rooms>>
    BY DEF WriterRestarts, typingVars, LifeCounted, ReplicationInv, LineType
  <1>2. \A r \in Rooms : /\ Issued(told[r][1], told[r][2])
                         /\ told[r] \in Nat \X Nat
    BY DEF RememberInv, HistoryType
  <1>3. newest["typing"] \in Nat
    BY DEF ReplicationInv, LineType
  <1>4. HistoryType' /\ LatestIssued'
    BY <1>1 DEF RememberInv, HistoryType, LatestIssued
  <1>5. ASSUME NEW r \in Rooms
        PROVE  told'[r] # latest'[r] /\ Issued(told[r][1], told[r][2])'
    BY <1>1, <1>2 DEF Issued
  <1>6. ASSUME NEW m \in Line, Carried(m)' PROVE RowTrue(m)'
    <2>1. m.row.room \in Rooms /\ m.row.life \in Nat /\ m.at \in Nat
      BY <1>6, RowFields DEF Carried
    <2>2. RowTrue(m)
      BY <1>6, NothingNewRestarted DEF RememberInv
    <2>3. m.row.life < life'
      BY <1>1, <2>1, <2>2 DEF RowTrue, Issued
    <2>4. latest'[m.row.room] = <<life', 0>>
      BY <1>1, <2>1
    <2>5. latest'[m.row.room] # <<m.row.life, m.at>>
      BY <1>1, <2>1, <2>3, <2>4
    <2> QED
      BY <2>3, <2>5 DEF RowTrue, Issued
  <1> QED
    BY <1>4, <1>5, <1>6 DEF RememberInv, RemembersTheWriter

(* The rows that the typing handler gets are those of the messages.        *)
LEMMA TypingRowsAre ==
  ASSUME NEW batch \in Seq(Line)
  PROVE  /\ Len(TypingRows(batch)) = Len(batch)
         /\ \A i \in 1..Len(batch) : TypingRows(batch)[i] = batch[i].row
  <1>1. DOMAIN batch = 1..Len(batch) /\ Len(batch) \in Nat
    OBVIOUS
  <1>2. TypingRows(batch) = [i \in 1..Len(batch) |-> batch[i].row]
    BY <1>1 DEF TypingRows
  <1> QED
    BY <1>1, <1>2

(* handleTyping gets a batch of rows that were on their way: what it says  *)
(* of a room is the newest of them, or that a new writer knows nobody.     *)
LEMMA TypingRowsRemembers ==
  ASSUME ReplicationInv, RememberInv, LifeCounted, HandleLine,
         channel[1].stream = "typing", Flushes(channel[1]), OnTypingRows(channel[1]),
         UNCHANGED <<typists, life, latest>>
  PROVE  RememberInv'
  <1> USE ReplicationAssumption, StreamsAssumption
  <1> DEFINE line == channel[1]
             rows == Append(pending["typing"], line)
             newer(r) == RowsOf(TypingRows(rows), r)
  <1>1. /\ line \in Line /\ line.cmd = "RDATA" /\ line.stream = "typing"
        /\ newest' = newest
    BY HandledIs DEF Flushes
  <1>2. pending["typing"] \in Seq(Line)
    BY DEF ReplicationInv, LineType
  <1>3. /\ rows \in Seq(Line) /\ Len(rows) = Len(pending["typing"]) + 1
        /\ Len(pending["typing"]) \in Nat
        /\ \A i \in 1..Len(pending["typing"]) : rows[i] = pending["typing"][i]
        /\ rows[Len(pending["typing"]) + 1] = line
    BY <1>1, <1>2, AppendIs
  <1>4. /\ Len(TypingRows(rows)) = Len(rows)
        /\ \A i \in 1..Len(rows) : TypingRows(rows)[i] = rows[i].row
    BY <1>3, TypingRowsAre
  <1>5. /\ rooms' = AfterRows(line.token, TypingRows(rows))
        /\ told' = [r \in Rooms |->
             IF newer(r) # {} THEN <<rows[Max(newer(r))].row.life, rows[Max(newer(r))].at>>
             ELSE IF line.token < serial THEN <<line.row.life, 0>> ELSE told[r]]
    BY <1>1 DEF OnTypingRows, HandleRows, Batch
  <1>6. Carried(line)
    <2>1. Len(channel) \in Nat /\ Len(channel) >= 1
      BY HandledIs, TailIs
    <2> QED
      BY <1>1, <2>1 DEF Carried
  <1> HIDE DEF line, rows
  <1>7. ASSUME NEW i \in 1..Len(rows)
        PROVE  Carried(rows[i]) /\ rows[i] \in Line /\ rows[i].cmd = "RDATA" /\ rows[i].stream = "typing"
    <2>1. CASE i \in 1..Len(pending["typing"])
      <3>1. /\ pending["typing"][i].cmd = "RDATA" /\ pending["typing"][i].stream = "typing"
            /\ pending["typing"][i] \in Line
        BY <1>2, <2>1 DEF ReplicationInv, BufferOwn
      <3>2. Carried(pending["typing"][i])
        BY <2>1, <3>1 DEF Carried
      <3> QED
        BY <1>3, <2>1, <3>1, <3>2
    <2>2. CASE i = Len(pending["typing"]) + 1
      BY <1>1, <1>3, <1>6, <2>2
    <2> QED
      BY <1>3, <2>1, <2>2
  <1>8. newest["typing"] \in Nat /\ life \in Nat
    BY DEF ReplicationInv, LineType, LifeCounted
  <1>9. ASSUME NEW r \in Rooms
        PROVE  /\ told'[r] \in Nat \X Nat /\ rooms'[r] \in SUBSET Users
               /\ Issued(told'[r][1], told'[r][2])
               /\ told'[r] = latest[r] => rooms'[r] = typists[r]
    <2>0. rooms'[r] = IF newer(r) = {}
                      THEN IF line.token < serial THEN {} ELSE rooms[r]
                      ELSE TypingRows(rows)[Max(newer(r))].users
      BY <1>5 DEF AfterRows, Remembered
    <2>1. CASE newer(r) # {}
      <3> DEFINE j == Max(newer(r))
      <3>1. newer(r) \in SUBSET (1..Len(rows)) /\ Len(rows) \in Nat
        BY <1>3, <1>4 DEF RowsOf
      <3>2. j \in newer(r)
        BY <2>1, <3>1, MaxIsMember
      <3>3. told'[r] = <<rows[j].row.life, rows[j].at>> /\ rooms'[r] = TypingRows(rows)[j].users
        BY <1>5, <2>0, <2>1
      <3> HIDE DEF j
      <3>4. j \in 1..Len(rows) /\ rows[j].row.room = r
        BY <1>4, <3>1, <3>2 DEF RowsOf
      <3>5. rooms'[r] = rows[j].row.users
        BY <1>4, <3>3, <3>4
      <3>6. /\ rows[j].row.users \in SUBSET Users /\ rows[j].row.life \in Nat
            /\ rows[j].at \in Nat
        BY <1>7, <3>4, RowFields
      <3>7. RowTrue(rows[j])
        BY <1>7, <3>4 DEF RememberInv
      <3> QED
        BY <3>3, <3>4, <3>5, <3>6, <3>7 DEF RowTrue
    <2>2. CASE newer(r) = {} /\ line.token < serial
      <3>1. told'[r] = <<line.row.life, 0>> /\ rooms'[r] = {}
        BY <1>5, <2>0, <2>2
      <3>2. line.row.life \in Nat /\ line.at \in Nat
        BY <1>1, RowFields
      <3>3. Issued(line.row.life, line.at)
        BY <1>1, <1>6 DEF RememberInv, RowTrue
      <3>4. Issued(line.row.life, 0)
        BY <1>8, <3>2, <3>3 DEF Issued
      <3>5. latest[r] = <<line.row.life, 0>> => typists[r] = {}
        BY <3>2 DEF RememberInv, LatestIssued, HistoryType
      <3> QED
        BY <3>1, <3>2, <3>4, <3>5
    <2>3. CASE newer(r) = {} /\ ~(line.token < serial)
      <3>1. told'[r] = told[r] /\ rooms'[r] = rooms[r]
        BY <1>5, <2>0, <2>3
      <3> QED
        BY <3>1 DEF RememberInv, HistoryType, RemembersTheWriter
    <2> QED
      BY <2>1, <2>2, <2>3
  <1>10. HistoryType'
    <2>1. told' = [r \in Rooms |-> told'[r]]
      BY <1>5
    <2>2. rooms' = [r \in Rooms |-> rooms'[r]]
      BY <1>5 DEF AfterRows
    <2>3. told' \in [Rooms -> Nat \X Nat]
      BY <1>9, <2>1
    <2>4. rooms' \in [Rooms -> SUBSET Users]
      BY <1>9, <2>2
    <2> QED
      BY <2>3, <2>4 DEF RememberInv, HistoryType
  <1>11. LatestIssued' /\ RemembersTheWriter'
    BY <1>1, <1>9 DEF RememberInv, LatestIssued, RemembersTheWriter
  <1>12. \A r \in Rooms : Issued(told[r][1], told[r][2])'
    BY <1>1, <1>9 DEF Issued
  <1>13. ASSUME NEW m \in Line, Carried(m)' PROVE RowTrue(m)'
    <2>1. RowTrue(m)
      BY <1>13, NothingNewHandled DEF RememberInv
    <2> QED
      BY <1>1, <2>1 DEF RowTrue, Issued
  <1> QED
    BY <1>10, <1>11, <1>12, <1>13 DEF RememberInv

(* Every step keeps what is remembered true to the writer.                 *)
LEMMA RememberInvStep ==
  ASSUME ReplicationInv, LifeCounted, RememberInv, [StreamsNext]_allStreams
  PROVE  RememberInv'
  <1> USE ReplicationAssumption, StreamsAssumption
  <1>1. ASSUME NEW w \in Writers, TypistsChange(w) PROVE RememberInv'
    BY <1>1, TypistsChangeRemembers
  <1>2. ASSUME NEW w \in Writers, EventsPersisted(w) PROVE RememberInv'
    <2> DEFINE rows == [i \in 1..BatchSize |-> 0]
    <2>1. rows \in Seq(TypingRow \cup {0}) /\ StreamOf[w] = "events" /\ NewBatch(w, rows)
      BY <1>2 DEF EventsPersisted
    <2> HIDE DEF rows
    <2>2. \A m \in Line : Carried(m)' => Carried(m)
      BY <2>1, NewlyCarried
    <2>3. newest'["typing"] = newest["typing"]
      BY <2>1 DEF NewBatch, ReplicationInv, LineType
    <2>4. UNCHANGED <<typists, life, latest, told, rooms>>
      BY <1>2 DEF EventsPersisted, typingVars, streamsVars
    <2> QED
      BY <2>2, <2>3, <2>4, RememberInvQuiet
  <1>3. ASSUME NEW w \in Writers, WriterRestarts(w) PROVE RememberInv'
    BY <1>3, RestartRemembers
  <1>4. CASE Subscription /\ UNCHANGED <<typingVars, streamsVars>>
    <2>1. UNCHANGED <<typists, life, latest, told, rooms>>
      BY <1>4 DEF typingVars, streamsVars
    <2>2. newest' = newest
      BY <1>4 DEF Subscription, PublishRow, PublishPosition, Subscribe, ConnectFails,
                  Reconnect, LinkLost, LinkBack, SessionEnds, redisVars
    <2>3. \A m \in Line : Carried(m)' => Carried(m)
      BY <1>4, NothingNewPublished, NothingNewInSession DEF Subscription
    <2> QED
      BY <2>1, <2>2, <2>3, RememberInvQuiet
  <1>5. CASE Receive
    <2>1. HandleLine /\ Head(channel) = channel[1] /\ UNCHANGED <<typists, life, latest>>
      BY <1>5, HandledIs DEF Receive
    <2>2. CASE channel[1].stream = "typing" /\ Flushes(channel[1])
      <3>1. OnTypingRows(channel[1])
        BY <1>5, <2>1, <2>2 DEF Receive
      <3> QED
        BY <2>1, <2>2, <3>1, TypingRowsRemembers
    <2>3. CASE ~(channel[1].stream = "typing" /\ Flushes(channel[1]))
      <3>1. UNCHANGED <<told, rooms>>
        BY <1>5, <2>1, <2>3 DEF Receive, typingVars
      <3>2. newest' = newest
        BY <2>1 DEF HandleLine
      <3>3. \A m \in Line : Carried(m)' => Carried(m)
        BY <2>1, NothingNewHandled
      <3> QED
        BY <2>1, <3>1, <3>2, <3>3, RememberInvQuiet
    <2> QED
      BY <2>2, <2>3
  <1>6. ASSUME UNCHANGED <<replicationVars, streamsVars>>, UNCHANGED rooms PROVE RememberInv'
    <2>1. UNCHANGED <<typists, life, latest, told, newest, channel, pending, outgoing>>
      BY <1>6 DEF replicationVars, subscriberVars, redisVars, streamsVars
    <2>2. \A m \in Line : Carried(m)' => Carried(m)
      BY <2>1 DEF Carried
    <2> QED
      BY <1>6, <2>1, <2>2, RememberInvQuiet
  <1>7. TypingStep => UNCHANGED rooms
    BY DEF TypingStep, SubmitNotice, Tick, KeepAlive, Reannounce, Push, RecordPoke
  <1>8. CASE UNCHANGED allStreams
    BY <1>6, <1>8 DEF allStreams, typingVars
  <1> QED
    BY <1>1, <1>2, <1>3, <1>4, <1>5, <1>6, <1>7, <1>8 DEF StreamsNext

(* RemembersTheWriter: Typing.rooms holds what the typing writer says,     *)
(* whenever a room's newest row is the last one handled for it, for any    *)
(* rooms, users and batches, over lost sessions and restarted writers.     *)
THEOREM RemembersTheWriterAlways == StreamsSpec => []RemembersTheWriter
  <1> DEFINE Inv == ReplicationInv /\ LifeCounted /\ RememberInv
  <1>1. StreamsInit => Inv
    BY ReplicationInvInit, LifeCountedInit, RememberInvInit DEF StreamsInit
  <1>2. Inv /\ [StreamsNext]_allStreams => Inv'
    BY ReplicationInvStep, LifeCountedStep, RememberInvStep
  <1>3. Inv => RemembersTheWriter
    BY DEF RememberInv
  <1> HIDE DEF Inv
  <1> QED
    BY <1>1, <1>2, <1>3, PTL DEF StreamsSpec

-----------------------------------------------------------------------------
(* The types of the typing sender.                                         *)

(* Only members of a room type in it.                                      *)
RoomsJoined == \A r \in Rooms : rooms[r] \subseteq JoinedTo[r]

TypingInv == TypingTypeOK /\ RoomsJoined

(* The members of the rooms are finitely many, and so is each set of them. *)
LEMMA MembersFinite ==
  ASSUME NEW S \in SUBSET Members
  PROVE  IsFiniteSet(S)
  <1>1. IsFiniteSet(Rooms) /\ IsFiniteSet(OurUsers)
    BY TypingAssumption, FS_Subset
  <1>2. IsFiniteSet(Rooms \X OurUsers)
    BY <1>1, FS_Product
  <1>3. S \subseteq Rooms \X OurUsers
    BY DEF Members
  <1> QED
    BY <1>2, <1>3, FS_Subset

(* A set of members, in the order it is submitted.                         *)
LEMMA MembersInOrder ==
  ASSUME NEW S \in SUBSET Members
  PROVE  /\ SetToSeq(S) \in Seq(Members) /\ Cardinality(S) \in Nat
         /\ \A i \in 1..Cardinality(S) : SetToSeq(S)[i] \in S
  <1>1. /\ Cardinality(S) \in Nat
        /\ SetToSeq(S) \in [1..Cardinality(S) -> S]
    BY MembersFinite, SetToSeqIs
  <1> QED
    BY <1>1

(* The notices of a set of members.                                        *)
LEMMA NoticesAreWork ==
  ASSUME NEW S \in SUBSET Members, NEW typing \in BOOLEAN
  PROVE  /\ Notices(S, typing) \in Seq(Work) /\ Len(Notices(S, typing)) = Cardinality(S)
         /\ Cardinality(S) \in Nat
         /\ \A i \in 1..Cardinality(S) :
              /\ Notices(S, typing)[i].member \in S
              /\ Notices(S, typing)[i].typing = typing /\ Notices(S, typing)[i].diffed
  <1> DEFINE q == SetToSeq(S)
  <1>1. /\ Cardinality(S) \in Nat
        /\ \A i \in 1..Cardinality(S) : q[i] \in S
    BY MembersInOrder
  <1> HIDE DEF q
  <1>2. Notices(S, typing) = [i \in 1..Cardinality(S) |->
                               [member |-> q[i], typing |-> typing, diffed |-> TRUE]]
    BY DEF Notices, q
  <1>3. ASSUME NEW i \in 1..Cardinality(S)
        PROVE  [member |-> q[i], typing |-> typing, diffed |-> TRUE] \in Work
    BY <1>1 DEF Work
  <1>4. Notices(S, typing) \in [1..Cardinality(S) -> Work]
    BY <1>2, <1>3
  <1>5. Notices(S, typing) \in Seq(Work) /\ Len(Notices(S, typing)) = Cardinality(S)
    BY <1>1, <1>4
  <1>6. ASSUME NEW i \in 1..Cardinality(S)
        PROVE  /\ Notices(S, typing)[i].member \in S
               /\ Notices(S, typing)[i].typing = typing /\ Notices(S, typing)[i].diffed
    BY <1>1, <1>2
  <1> QED
    BY <1>1, <1>5, <1>6

(* What a row is compared with, and whom it starts and stops, are members. *)
LEMMA ChangesAreMembers ==
  ASSUME TypingInv, NEW token \in Nat, NEW rows \in Seq(TypingRow)
  PROVE  /\ \A i \in 1..Len(rows) : Before(token, rows, i) \subseteq JoinedTo[rows[i].room]
         /\ Starts(token, rows) \in SUBSET Members /\ Stops(token, rows) \in SUBSET Members
         /\ AfterRows(token, rows) \in [Rooms -> SUBSET Users]
         /\ \A r \in Rooms : AfterRows(token, rows)[r] \subseteq JoinedTo[r]
  <1> USE TypingAssumption
  <1>1. ASSUME NEW i \in 1..Len(rows)
        PROVE  /\ rows[i].room \in Rooms /\ rows[i].users \subseteq JoinedTo[rows[i].room]
    BY DEF TypingRow
  <1>2. Len(rows) \in Nat /\ DOMAIN rows = 1..Len(rows)
    OBVIOUS
  <1>3. ASSUME NEW r \in Rooms PROVE Remembered(token)[r] \subseteq JoinedTo[r]
    BY DEF Remembered, TypingInv, RoomsJoined
  <1>4. ASSUME NEW i \in 1..Len(rows)
        PROVE  Before(token, rows, i) \subseteq JoinedTo[rows[i].room]
    <2> DEFINE earlier == {j \in RowsOf(rows, rows[i].room) : j < i}
    <2>1. earlier \in SUBSET (1..Len(rows))
      BY DEF RowsOf
    <2>2. CASE earlier = {}
      BY <1>1, <1>3, <2>2 DEF Before
    <2>3. CASE earlier # {}
      <3>1. Max(earlier) \in earlier
        BY <1>2, <2>1, <2>3, MaxIsMember
      <3>2. Before(token, rows, i) = rows[Max(earlier)].users
        BY <2>3 DEF Before
      <3>3. PICK j \in 1..Len(rows) : j = Max(earlier) /\ rows[j].room = rows[i].room
        BY <3>1 DEF RowsOf
      <3> QED
        BY <1>1, <3>2, <3>3
    <2> QED
      BY <2>2, <2>3
  <1>5. Starts(token, rows) \in SUBSET Members
    BY <1>1, <1>2 DEF Starts, Members
  <1>6. Stops(token, rows) \in SUBSET Members
    BY <1>1, <1>2, <1>4 DEF Stops, Members
  <1>7. ASSUME NEW r \in Rooms PROVE AfterRows(token, rows)[r] \subseteq JoinedTo[r]
    <2>1. CASE RowsOf(rows, r) = {}
      BY <1>3, <2>1 DEF AfterRows
    <2>2. CASE RowsOf(rows, r) # {}
      <3>1. RowsOf(rows, r) \in SUBSET (1..Len(rows))
        BY DEF RowsOf
      <3>2. Max(RowsOf(rows, r)) \in RowsOf(rows, r)
        BY <1>2, <2>2, <3>1, MaxIsMember
      <3>3. AfterRows(token, rows)[r] = rows[Max(RowsOf(rows, r))].users
        BY <2>2 DEF AfterRows
      <3>4. PICK j \in 1..Len(rows) : j = Max(RowsOf(rows, r)) /\ rows[j].room = r
        BY <3>2 DEF RowsOf
      <3> QED
        BY <1>1, <3>3, <3>4
    <2> QED
      BY <2>1, <2>2
  <1>8. AfterRows(token, rows) \in [Rooms -> SUBSET Users]
    <2>1. AfterRows(token, rows) = [r \in Rooms |-> AfterRows(token, rows)[r]]
      BY DEF AfterRows
    <2>2. \A r \in Rooms : AfterRows(token, rows)[r] \in SUBSET Users
      BY <1>7
    <2> QED
      BY <2>1, <2>2
  <1> QED
    BY <1>4, <1>5, <1>6, <1>7, <1>8

(* HandleRows.                                                             *)
LEMMA HandleRowsTyped ==
  ASSUME TypingInv, NEW token \in Nat, NEW rows \in Seq(TypingRow), HandleRows(token, rows)
  PROVE  TypingInv'
  <1> USE TypingAssumption
  <1> DEFINE starts == Starts(token, rows)
             stops == Stops(token, rows)
  <1>1. starts \in SUBSET Members /\ stops \in SUBSET Members
    BY ChangesAreMembers
  <1>2. rooms' \in [Rooms -> SUBSET Users] /\ RoomsJoined'
    BY ChangesAreMembers DEF HandleRows, RoomsJoined
  <1>3. submitting' \in Seq(Work)
    <2>1. Notices(starts, TRUE) \in Seq(Work) /\ Notices(stops, FALSE) \in Seq(Work)
      BY <1>1, NoticesAreWork
    <2>2. submitting' = Notices(starts, TRUE) \o Notices(stops, FALSE)
      BY DEF HandleRows
    <2> QED
      BY <2>1, <2>2, ConcatProperties
  <1>4. lastPoke' \in [Members -> 0..LongAgo] /\ tried' \in [Members -> 0..TimeoutTicks]
    <2>1. LongAgo \in 0..LongAgo
      BY DEF LongAgo
    <2> QED
      BY <2>1 DEF HandleRows, TypingInv, TypingTypeOK
  <1>5. fate' \in [Members -> {"void", "pending", "said", "overtaken"}]
    BY DEF HandleRows, TypingInv, TypingTypeOK
  <1>6. serial' \in Nat /\ UNCHANGED <<work, tick, due, poking, said>>
    BY DEF HandleRows
  <1> QED
    BY <1>2, <1>3, <1>4, <1>5, <1>6 DEF TypingInv, TypingTypeOK

(* The head of a queue of work is work, and the rest is a queue.           *)
LEMMA SubmitTyped ==
  ASSUME TypingInv, NEW w \in Work, Submit(w)
  PROVE  /\ work' \in Seq(Work) /\ Len(work') <= WorkBuffer
         /\ tried' \in [Members -> 0..TimeoutTicks]
  <1> USE TypingAssumption
  <1>1. w.member \in Members
    BY DEF Work
  <1>2. CASE Len(work) < WorkBuffer
    <2>1. work' = Append(work, w) /\ tried' = tried
      BY <1>2 DEF Submit
    <2>2. work \in Seq(Work) /\ Len(work) \in Nat
      BY DEF TypingInv, TypingTypeOK
    <2>3. work' \in Seq(Work) /\ Len(work') = Len(work) + 1
      BY <2>1, <2>2, AppendIs
    <2> QED
      BY <1>2, <2>1, <2>2, <2>3 DEF TypingInv, TypingTypeOK
  <1>3. CASE ~(Len(work) < WorkBuffer)
    <2>1. work' = work /\ tried' = [tried EXCEPT ![w.member] = 0]
      BY <1>3 DEF Submit
    <2>2. tried \in [Members -> 0..TimeoutTicks] /\ 0 \in 0..TimeoutTicks
      BY DEF TypingInv, TypingTypeOK
    <2>3. tried' \in [Members -> 0..TimeoutTicks]
      BY <1>1, <2>1, <2>2
    <2> QED
      BY <2>1, <2>3 DEF TypingInv, TypingTypeOK
  <1> QED
    BY <1>2, <1>3

(* Each step of the three goroutines.                                      *)
LEMMA TypingStepTyped ==
  ASSUME TypingInv, TypingStep
  PROVE  TypingInv'
  <1> USE TypingAssumption
  <1>1. CASE SubmitNotice
    <2> DEFINE w == Head(submitting)
    <2>1. /\ w \in Work /\ Tail(submitting) \in Seq(Work) /\ submitting' = Tail(submitting)
          /\ Submit(w)
      <3>1. submitting \in Seq(Work) /\ submitting # <<>>
        BY <1>1 DEF SubmitNotice, TypingInv, TypingTypeOK
      <3> QED
        BY <1>1, <3>1, TailIs DEF SubmitNotice
    <2> HIDE DEF w
    <2>2. work' \in Seq(Work) /\ Len(work') <= WorkBuffer /\ tried' \in [Members -> 0..TimeoutTicks]
      BY <2>1, SubmitTyped
    <2>3. fate' \in [Members -> {"void", "pending", "said", "overtaken"}]
      BY <1>1 DEF SubmitNotice, TypingInv, TypingTypeOK
    <2> QED
      BY <1>1, <2>1, <2>2, <2>3 DEF SubmitNotice, TypingInv, TypingTypeOK, RoomsJoined
  <1>2. CASE Tick
    <2>1. LongAgo \in Nat
      BY DEF LongAgo
    <2>2. ASSUME NEW m \in Members
          PROVE  Older(lastPoke[m], LongAgo) \in 0..LongAgo
                 /\ Older(tried[m], TimeoutTicks) \in 0..TimeoutTicks
      BY <2>1 DEF Older, TypingInv, TypingTypeOK
    <2>3. lastPoke' \in [Members -> 0..LongAgo] /\ tried' \in [Members -> 0..TimeoutTicks]
      BY <1>2, <2>2 DEF Tick
    <2> QED
      BY <1>2, <2>3 DEF Tick, TypingInv, TypingTypeOK, RoomsJoined
  <1>3. CASE KeepAlive
    <2>1. PICK S \in SUBSET Members : due' = SetToSeq(S)
      BY <1>3 DEF KeepAlive
    <2>2. due' \in Seq(Members)
      BY <2>1, MembersInOrder
    <2> QED
      BY <1>3, <2>2 DEF KeepAlive, TypingInv, TypingTypeOK, RoomsJoined
  <1>4. CASE Reannounce
    <2> DEFINE w == [member |-> Head(due), typing |-> TRUE, diffed |-> FALSE]
    <2>1. Head(due) \in Members /\ Tail(due) \in Seq(Members) /\ due' = Tail(due) /\ Submit(w)
      <3>1. due \in Seq(Members) /\ due # <<>>
        BY <1>4 DEF Reannounce, TypingInv, TypingTypeOK
      <3> QED
        BY <1>4, <3>1, TailIs DEF Reannounce
    <2>2. w \in Work
      BY <2>1 DEF Work
    <2> HIDE DEF w
    <2>3. work' \in Seq(Work) /\ Len(work') <= WorkBuffer /\ tried' \in [Members -> 0..TimeoutTicks]
      BY <2>1, <2>2, SubmitTyped
    <2>4. fate' \in [Members -> {"void", "pending", "said", "overtaken"}]
      BY <1>4 DEF Reannounce, TypingInv, TypingTypeOK
    <2> QED
      BY <1>4, <2>1, <2>3, <2>4 DEF Reannounce, TypingInv, TypingTypeOK, RoomsJoined
  <1>5. ASSUME NEW reached \in BOOLEAN, Push(reached) PROVE TypingInv'
    <2> DEFINE w == Head(work)
    <2>1. work \in Seq(Work) /\ work # <<>>
      BY <1>5 DEF Push, TypingInv, TypingTypeOK
    <2>2. /\ w \in Work /\ Tail(work) \in Seq(Work) /\ Len(Tail(work)) = Len(work) - 1
          /\ Len(work) \in Nat /\ work' = Tail(work)
      BY <1>5, <2>1, TailIs DEF Push
    <2>3. w.member \in Members
      BY <2>2 DEF Work
    <2> HIDE DEF w
    <2>4. said' \in [Members -> {"nothing", "start", "stop"}]
      BY <1>5, <2>3 DEF Push, TypingInv, TypingTypeOK, w
    <2>5. tried' \in [Members -> 0..TimeoutTicks] /\ poking' \in Members \cup {Nobody}
      BY <1>5, <2>3 DEF Push, TypingInv, TypingTypeOK, w
    <2>6. fate' \in [Members -> {"void", "pending", "said", "overtaken"}]
      BY <1>5, <2>3 DEF Push, TypingInv, TypingTypeOK, w
    <2>7. Len(work') <= WorkBuffer /\ work' \in Seq(Work)
      BY <2>2 DEF TypingInv, TypingTypeOK
    <2> QED
      BY <1>5, <2>4, <2>5, <2>6, <2>7 DEF Push, TypingInv, TypingTypeOK, RoomsJoined
  <1>6. CASE RecordPoke
    <2>1. lastPoke' \in [Members -> 0..LongAgo]
      BY <1>6 DEF RecordPoke, TypingInv, TypingTypeOK, LongAgo
    <2> QED
      BY <1>6, <2>1 DEF RecordPoke, TypingInv, TypingTypeOK, RoomsJoined
  <1> QED
    BY <1>1, <1>2, <1>3, <1>4, <1>5, <1>6 DEF TypingStep

-----------------------------------------------------------------------------
(* Type correctness.                                                       *)

(* The subscriber's own fields.                                            *)
SubscriberType ==
  /\ live \in BOOLEAN /\ linked \in BOOLEAN /\ broken \in BOOLEAN
  /\ session \in {"connect", "follow", "wait"}
  /\ backoff \in {1, 2, 4, 8, 16, 32}

(* Positions are never ahead of what the writers can have allocated.       *)
PositionsBounded ==
  positions \in [Streams -> Nat] /\ \A s \in Streams : positions[s] <= MaxPosition[s]

(* Neither is what the handler was told.                                   *)
ToldBounded ==
  /\ told \in [Rooms -> (0..MaxBreaks) \X (0..MaxPosition["typing"])]
  /\ lastPoked \in 0..MaxPosition["events"]

StreamsInv == /\ ReplicationInv /\ LifeCounted /\ RememberInv /\ TypingInv
              /\ SubscriberType /\ PositionsBounded /\ ToldBounded

(* It is the type invariant of the module, and more.                       *)
LEMMA StreamsInvTyped == StreamsInv => StreamsTypeOK
  <1> SUFFICES ASSUME StreamsInv PROVE StreamsTypeOK
    OBVIOUS
  <1> USE ReplicationAssumption, StreamsAssumption
  <1>1. /\ \A s \in Streams : positions[s] \in 0..MaxPosition[s] /\ newest[s] \in 0..MaxPosition[s]
        /\ torn \subseteq Streams /\ breaks \in 0..MaxBreaks
    BY DEF StreamsInv, PositionsBounded, ReplicationInv, LineType, LifeCounted
  <1>2. \A s \in Streams : \A i \in DOMAIN pending[s] : pending[s][i].stream = s
    <2>1. \A s \in Streams : DOMAIN pending[s] = 1..Len(pending[s])
      BY DEF StreamsInv, ReplicationInv, LineType
    <2> QED
      BY <2>1 DEF StreamsInv, ReplicationInv, BufferOwn
  <1>3. ReplicationTypeOK
    BY <1>1, <1>2 DEF StreamsInv, SubscriberType, ReplicationTypeOK
  <1>4. life \in 0..MaxBreaks
    BY DEF StreamsInv, LifeCounted
  <1>5. latest \in [Rooms -> (0..MaxBreaks) \X (0..MaxPosition["typing"])]
    <2>1. latest \in [Rooms -> Nat \X Nat] /\ newest["typing"] \in 0..MaxPosition["typing"]
      BY <1>1 DEF StreamsInv, RememberInv, HistoryType
    <2>2. ASSUME NEW r \in Rooms
          PROVE  latest[r] \in (0..MaxBreaks) \X (0..MaxPosition["typing"])
      <3>1. latest[r][1] \in 0..MaxBreaks
        BY <1>4 DEF StreamsInv, RememberInv, LatestIssued
      <3>2. latest[r] \in Nat \X Nat /\ latest[r][2] <= newest["typing"]
        BY <2>1 DEF StreamsInv, RememberInv, LatestIssued
      <3> QED
        BY <2>1, <3>1, <3>2
    <2> QED
      BY <2>1, <2>2
  <1> QED
    BY <1>3, <1>4, <1>5 DEF StreamsInv, RememberInv, HistoryType, ToldBounded, TypingInv,
                            StreamsTypeOK

(* The start.                                                              *)
LEMMA StreamsInvInit == StreamsInit => StreamsInv
  <1> SUFFICES ASSUME StreamsInit PROVE StreamsInv
    OBVIOUS
  <1> USE ReplicationAssumption, StreamsAssumption, TypingAssumption, EmptyIsLines
  <1>1. ReplicationInv /\ LifeCounted /\ RememberInv
    BY ReplicationInvInit, LifeCountedInit, RememberInvInit DEF StreamsInit
  <1>2. TypingInv
    <2> USE DEF StreamsInit, TypingInit
    <2>1. serial \in Nat /\ rooms \in [Rooms -> SUBSET Users] /\ RoomsJoined
      BY DEF RoomsJoined
    <2>2. /\ work \in Seq(Work) /\ Len(work) <= WorkBuffer
          /\ submitting \in Seq(Work) /\ due \in Seq(Members)
      OBVIOUS
    <2>3. tick \in BOOLEAN /\ poking \in Members \cup {Nobody}
      OBVIOUS
    <2>4. lastPoke \in [Members -> 0..LongAgo] /\ tried \in [Members -> 0..TimeoutTicks]
      BY DEF LongAgo
    <2>5. /\ said \in [Members -> {"nothing", "start", "stop"}]
          /\ fate \in [Members -> {"void", "pending", "said", "overtaken"}]
      OBVIOUS
    <2> QED
      BY <2>1, <2>2, <2>3, <2>4, <2>5 DEF TypingInv, TypingTypeOK
  <1>3. SubscriberType
    BY DEF StreamsInit, ReplicationInit, SubscriberType
  <1>4. PositionsBounded /\ ToldBounded
    BY DEF StreamsInit, ReplicationInit, PositionsBounded, ToldBounded
  <1> QED
    BY <1>1, <1>2, <1>3, <1>4 DEF StreamsInv

(* Sessions move between their states, and the delay doubles up to its     *)
(* limit.                                                                  *)
LEMMA SubscriberTyped ==
  ASSUME SubscriberType, [StreamsNext]_allStreams
  PROVE  SubscriberType'
  <1> USE DEF SubscriberType
  <1>1. ASSUME NEW w \in Writers, TypistsChange(w) PROVE SubscriberType'
    BY <1>1 DEF TypistsChange, NewBatch, subscriberVars
  <1>2. ASSUME NEW w \in Writers, EventsPersisted(w) PROVE SubscriberType'
    BY <1>2 DEF EventsPersisted, NewBatch, subscriberVars
  <1>3. ASSUME NEW w \in Writers, WriterRestarts(w) PROVE SubscriberType'
    BY <1>3 DEF WriterRestarts, subscriberVars
  <1>4. ASSUME NEW w \in Writers, PublishRow(w) \/ PublishPosition(w) PROVE SubscriberType'
    BY <1>4 DEF PublishRow, PublishPosition, subscriberVars
  <1>5. CASE Subscribe
    BY <1>5 DEF Subscribe
  <1>6. CASE ConnectFails
    BY <1>6 DEF ConnectFails, SetNotLive, redisVars
  <1>7. CASE SessionEnds
    BY <1>7 DEF SessionEnds, SetNotLive
  <1>8. CASE Reconnect
    BY <1>8 DEF Reconnect, redisVars
  <1>9. CASE LinkLost
    BY <1>9 DEF LinkLost, subscriberVars
  <1>10. CASE LinkBack
    BY <1>10 DEF LinkBack, subscriberVars
  <1>11. CASE Receive
    <2>1. UNCHANGED <<live, session, backoff, linked>>
      BY <1>11 DEF Receive, HandleLine
    <2>2. broken' \in BOOLEAN
      BY <1>11 DEF Receive, HandleLine, HandleRDATA, HandlePOSITION
    <2> QED
      BY <2>1, <2>2
  <1>12. CASE UNCHANGED replicationVars
    BY <1>12 DEF replicationVars, subscriberVars, redisVars
  <1> QED
    BY <1>1, <1>2, <1>3, <1>4, <1>5, <1>6, <1>7, <1>8, <1>9, <1>10, <1>11, <1>12
       DEF StreamsNext, Subscription, allStreams

(* A message's token was allocated.                                        *)
LEMMA TokenBounded ==
  ASSUME NEW m \in Line
  PROVE  m.token \in 0..MaxPosition[m.stream]
  <1>1. MaxPosition[m.stream] \in Nat
    BY LineFields, ReplicationAssumption
  <1> QED
    BY <1>1, LineFields

(* Positions move only with a message.                                     *)
LEMMA PositionsTyped ==
  ASSUME ReplicationInv, PositionsBounded, [StreamsNext]_allStreams
  PROVE  PositionsBounded'
  <1>1. CASE HandleLine
    <2> DEFINE h == channel[1]
               t == h.token
               s == h.stream
    <2>1. /\ h \in Line
          /\ positions' = positions \/ positions' = Later(s, t)
      BY <1>1, HandledIs DEF HandleRDATA, HandlePOSITION
    <2>2. s \in Streams /\ t \in Nat /\ t <= MaxPosition[s]
      BY <2>1, LineFields, TokenBounded, ReplicationAssumption
    <2> HIDE DEF h, t, s
    <2> QED
      BY <2>1, <2>2 DEF PositionsBounded, Later
  <1>2. CASE UNCHANGED positions
    BY <1>2 DEF PositionsBounded
  <1>3. StreamsNext => HandleLine \/ UNCHANGED positions
    BY DEF StreamsNext, TypistsChange, EventsPersisted, WriterRestarts, NewBatch, Subscription,
           PublishRow, PublishPosition, Subscribe, ConnectFails, Reconnect, LinkLost, LinkBack,
           SessionEnds, Receive, subscriberVars, replicationVars
  <1> QED
    BY <1>1, <1>2, <1>3 DEF allStreams, replicationVars, subscriberVars

(* The rows of a typing batch, as they are handled.                        *)
LEMMA BatchOfTypingRows ==
  ASSUME ReplicationInv, HandleLine, channel[1].stream = "typing", Flushes(channel[1])
  PROVE  /\ Batch(channel[1]) \in Seq(Line)
         /\ \A i \in 1..Len(Batch(channel[1])) :
              Batch(channel[1])[i].cmd = "RDATA" /\ Batch(channel[1])[i].stream = "typing"
         /\ TypingRows(Batch(channel[1])) \in Seq(TypingRow)
  <1> DEFINE h == channel[1]
             p == pending["typing"]
             rows == Append(p, h)
  <1>1. h \in Line /\ h.cmd = "RDATA" /\ h.stream = "typing"
    BY HandledIs DEF Flushes
  <1>2. p \in Seq(Line) /\ Batch(h) = rows
    BY <1>1, StreamsAssumption DEF ReplicationInv, LineType, Batch
  <1>3. /\ rows \in Seq(Line) /\ Len(rows) = Len(p) + 1 /\ Len(p) \in Nat
        /\ (\A i \in 1..Len(p) : rows[i] = p[i]) /\ rows[Len(p) + 1] = h
    BY <1>1, <1>2, AppendIs
  <1> HIDE DEF rows, h
  <1>4. ASSUME NEW i \in 1..Len(rows)
        PROVE  rows[i] \in Line /\ rows[i].cmd = "RDATA" /\ rows[i].stream = "typing"
    <2>1. CASE i \in 1..Len(p)
      BY <1>3, <2>1, StreamsAssumption DEF ReplicationInv, BufferOwn
    <2>2. CASE i = Len(p) + 1
      BY <1>1, <1>3, <2>2
    <2> QED
      BY <1>3, <2>1, <2>2
  <1>5. \A i \in 1..Len(rows) : rows[i].row \in TypingRow
    BY <1>4, LineFields
  <1>6. DOMAIN rows = 1..Len(rows) /\ Len(rows) \in Nat
    BY <1>3
  <1>7. TypingRows(rows) \in [1..Len(rows) -> TypingRow]
    BY <1>5, <1>6 DEF TypingRows
  <1>8. TypingRows(rows) \in Seq(TypingRow)
    BY <1>6, <1>7
  <1> QED
    BY <1>2, <1>3, <1>4, <1>8 DEF h

(* What the handler was told came with a message.                          *)
LEMMA ToldTyped ==
  ASSUME ReplicationInv, ToldBounded, [StreamsNext]_allStreams
  PROVE  ToldBounded'
  <1> USE ReplicationAssumption, StreamsAssumption
  <1>1. CASE Receive
    <2> DEFINE h == channel[1]
    <2>1. HandleLine /\ Head(channel) = h /\ h \in Line
      BY <1>1, HandledIs DEF Receive
    <2>2. lastPoked' \in 0..MaxPosition["events"]
      <3>1. lastPoked' = lastPoked \/ (h.stream = "events" /\ lastPoked' = h.token)
        BY <1>1, <2>1 DEF Receive
      <3>2. h.token \in 0..MaxPosition[h.stream]
        BY <2>1, TokenBounded
      <3> QED
        BY <3>1, <3>2 DEF ToldBounded
    <2>3. CASE h.stream = "typing" /\ Flushes(h)
      <3> DEFINE rows == Batch(h)
                 newer(r) == RowsOf(TypingRows(rows), r)
      <3>1. told' = [r \in Rooms |->
               IF newer(r) # {} THEN <<rows[Max(newer(r))].row.life, rows[Max(newer(r))].at>>
               ELSE IF h.token < serial THEN <<h.row.life, 0>> ELSE told[r]]
        BY <1>1, <2>1, <2>3 DEF Receive, OnTypingRows
      <3>2. /\ rows \in Seq(Line)
            /\ \A i \in 1..Len(rows) : rows[i].cmd = "RDATA" /\ rows[i].stream = "typing"
        BY <2>1, <2>3, BatchOfTypingRows
      <3>3. Len(TypingRows(rows)) = Len(rows) /\ Len(rows) \in Nat
        BY <3>2, TypingRowsAre
      <3> HIDE DEF rows
      <3>4. ASSUME NEW m \in Line, m.cmd = "RDATA", m.stream = "typing"
            PROVE  m.row.life \in 0..MaxBreaks /\ m.at \in 0..MaxPosition["typing"]
        <4>1. m.row \in TypingRow /\ m.at \in Nat /\ m.at <= MaxPosition["typing"]
          BY <3>4, LineFields
        <4> QED
          BY <4>1 DEF TypingRow
      <3>5. ASSUME NEW r \in Rooms
            PROVE  told'[r] \in (0..MaxBreaks) \X (0..MaxPosition["typing"])
        <4>1. CASE newer(r) # {}
          <5>1. newer(r) \in SUBSET (1..Len(rows))
            BY <3>3 DEF RowsOf
          <5>2. Max(newer(r)) \in 1..Len(rows)
            BY <3>3, <4>1, <5>1, MaxIsMember
          <5>3. PICK j \in 1..Len(rows) : j = Max(newer(r))
            BY <5>2
          <5>4. told'[r] = <<rows[j].row.life, rows[j].at>> /\ rows[j] \in Line
            BY <3>1, <3>2, <4>1, <5>3
          <5>5. rows[j].row.life \in 0..MaxBreaks /\ rows[j].at \in 0..MaxPosition["typing"]
            BY <3>2, <3>4, <5>4
          <5> QED
            BY <5>4, <5>5
        <4>2. CASE newer(r) = {} /\ h.token < serial
          <5>1. h.row.life \in 0..MaxBreaks
            BY <2>1, <2>3, <3>4 DEF Flushes
          <5> QED
            BY <3>1, <4>2, <5>1
        <4>3. CASE newer(r) = {} /\ ~(h.token < serial)
          BY <3>1, <4>3 DEF ToldBounded
        <4> QED
          BY <4>1, <4>2, <4>3
      <3>6. told' = [r \in Rooms |-> told'[r]]
        BY <3>1
      <3> QED
        BY <2>2, <3>5, <3>6 DEF ToldBounded
    <2>4. CASE ~(h.stream = "typing" /\ Flushes(h))
      <3>1. told' = told
        BY <1>1, <2>1, <2>4 DEF Receive
      <3> QED
        BY <2>2, <3>1 DEF ToldBounded
    <2> QED
      BY <2>3, <2>4
  <1>2. CASE UNCHANGED <<told, lastPoked>>
    BY <1>2 DEF ToldBounded
  <1>3. StreamsNext => Receive \/ UNCHANGED <<told, lastPoked>>
    BY DEF StreamsNext, TypistsChange, EventsPersisted, WriterRestarts, streamsVars
  <1> QED
    BY <1>1, <1>2, <1>3 DEF allStreams, streamsVars

(* A step of the whole system is a step of the typing sender, a batch that *)
(* it handles, or none of its business.                                    *)
LEMMA TypingStepOrRows ==
  ASSUME ReplicationInv, [StreamsNext]_allStreams
  PROVE  \/ TypingStep \/ UNCHANGED typingVars
         \/ \E token \in Nat, rows \in Seq(TypingRow) : HandleRows(token, rows)
  <1>1. CASE Receive
    <2> DEFINE h == channel[1]
    <2>1. HandleLine /\ Head(channel) = h /\ h \in Line
      BY <1>1, HandledIs DEF Receive
    <2>2. CASE h.stream = "typing" /\ Flushes(h)
      <3>1. HandleRows(h.token, TypingRows(Batch(h)))
        BY <1>1, <2>1, <2>2 DEF Receive, OnTypingRows
      <3>2. TypingRows(Batch(h)) \in Seq(TypingRow) /\ h.token \in Nat
        BY <2>1, <2>2, BatchOfTypingRows, LineFields
      <3> QED
        BY <3>1, <3>2
    <2>3. CASE ~(h.stream = "typing" /\ Flushes(h))
      BY <1>1, <2>1, <2>3 DEF Receive
    <2> QED
      BY <2>2, <2>3
  <1>2. StreamsNext => Receive \/ TypingStep \/ UNCHANGED typingVars
    BY DEF StreamsNext, TypistsChange, EventsPersisted, WriterRestarts
  <1> QED
    BY <1>1, <1>2 DEF allStreams

(* The typing sender is touched by its own steps and by handleTyping.      *)
LEMMA TypingTyped ==
  ASSUME ReplicationInv, TypingInv, [StreamsNext]_allStreams
  PROVE  TypingInv'
  <1>1. CASE UNCHANGED typingVars
    BY <1>1 DEF typingVars, TypingInv, TypingTypeOK, RoomsJoined
  <1> QED
    BY <1>1, TypingStepOrRows, TypingStepTyped, HandleRowsTyped

(* Every step keeps all of it.                                             *)
LEMMA StreamsInvStep ==
  ASSUME StreamsInv, [StreamsNext]_allStreams
  PROVE  StreamsInv'
  BY ReplicationInvStep, LifeCountedStep, RememberInvStep, SubscriberTyped, PositionsTyped,
     ToldTyped, TypingTyped DEF StreamsInv

(* StreamsTypeOK: every variable of the replication client and of the      *)
(* typing sender keeps its type; the work channel never grows past its     *)
(* buffer, and no position past what a writer can have allocated.          *)
THEOREM StreamsTypeAlways == StreamsSpec => []StreamsTypeOK
  <1>1. StreamsInit => StreamsInv
    BY StreamsInvInit
  <1>2. StreamsInv /\ [StreamsNext]_allStreams => StreamsInv'
    BY StreamsInvStep
  <1>3. StreamsInv => StreamsTypeOK
    BY StreamsInvTyped
  <1> QED
    BY <1>1, <1>2, <1>3, PTL DEF StreamsSpec

-----------------------------------------------------------------------------
(* What a batch changes.                                                   *)

(* A row is compared with the nearest row of its room before it, or with   *)
(* what is remembered.                                                     *)
LEMMA BeforeIs ==
  ASSUME NEW token \in Nat, NEW rows \in Seq(TypingRow), NEW r \in Rooms,
         NEW i \in RowsOf(rows, r)
  PROVE  \/ /\ \A k \in RowsOf(rows, r) : ~(k < i)
            /\ Before(token, rows, i) = Remembered(token)[r]
         \/ \E j \in RowsOf(rows, r) :
              /\ j < i /\ Before(token, rows, i) = rows[j].users
              /\ \A k \in RowsOf(rows, r) : k < i => k <= j
  <1> DEFINE earlier == {j \in RowsOf(rows, r) : j < i}
  <1>1. rows[i].room = r /\ i \in 1..Len(rows) /\ Len(rows) \in Nat
    BY DEF RowsOf
  <1>2. Before(token, rows, i) = IF earlier = {} THEN Remembered(token)[r]
                                 ELSE rows[Max(earlier)].users
    BY <1>1 DEF Before
  <1>3. CASE earlier = {}
    BY <1>2, <1>3
  <1>4. CASE earlier # {}
    <2>1. earlier \in SUBSET (1..Len(rows))
      BY DEF RowsOf
    <2>2. Max(earlier) \in earlier /\ \A k \in earlier : Max(earlier) >= k
      BY <1>1, <1>4, <2>1, MaxIsMember
    <2>3. PICK j \in RowsOf(rows, r) : j = Max(earlier) /\ j < i
      BY <2>2
    <2>4. Before(token, rows, i) = rows[j].users
      BY <1>2, <1>4, <2>3
    <2>5. ASSUME NEW k \in RowsOf(rows, r), k < i PROVE k <= j
      <3>1. j >= k
        BY <2>2, <2>3, <2>5
      <3> QED
        BY <3>1 DEF RowsOf
    <2> QED
      BY <2>3, <2>4, <2>5
  <1> QED
    BY <1>3, <1>4

(* Who starts, row by row.                                                 *)
LEMMA StartsAre ==
  ASSUME NEW token \in Nat, NEW rows \in Seq(TypingRow), NEW r \in Rooms, NEW u \in OurUsers
  PROVE  <<r, u>> \in Starts(token, rows)
           <=> \E i \in RowsOf(rows, r) : u \in rows[i].users /\ u \notin Before(token, rows, i)
  BY DEF Starts, RowsOf

(* And who stops.                                                          *)
LEMMA StopsAre ==
  ASSUME NEW token \in Nat, NEW rows \in Seq(TypingRow), NEW r \in Rooms, NEW u \in OurUsers
  PROVE  <<r, u>> \in Stops(token, rows)
           <=> \E i \in RowsOf(rows, r) : u \notin rows[i].users /\ u \in Before(token, rows, i)
  BY DEF Stops, RowsOf

(* The room's set after the batch: its last row's, or what is remembered.  *)
LEMMA AfterIs ==
  ASSUME NEW token \in Nat, NEW rows \in Seq(TypingRow), NEW r \in Rooms
  PROVE  \/ RowsOf(rows, r) = {} /\ AfterRows(token, rows)[r] = Remembered(token)[r]
         \/ \E l \in RowsOf(rows, r) : /\ AfterRows(token, rows)[r] = rows[l].users
                                       /\ \A k \in RowsOf(rows, r) : k <= l
  <1>1. CASE RowsOf(rows, r) = {}
    BY <1>1 DEF AfterRows
  <1>2. CASE RowsOf(rows, r) # {}
    <2>1. RowsOf(rows, r) \in SUBSET (1..Len(rows)) /\ Len(rows) \in Nat
      BY DEF RowsOf
    <2>2. /\ Max(RowsOf(rows, r)) \in RowsOf(rows, r)
          /\ \A k \in RowsOf(rows, r) : Max(RowsOf(rows, r)) >= k
      BY <1>2, <2>1, MaxIsMember
    <2>3. AfterRows(token, rows)[r] = rows[Max(RowsOf(rows, r))].users
      BY <1>2 DEF AfterRows
    <2>4. PICK l \in RowsOf(rows, r) : l = Max(RowsOf(rows, r))
      BY <2>2
    <2>5. ASSUME NEW k \in RowsOf(rows, r) PROVE k <= l
      <3>1. l >= k /\ l \in Nat /\ k \in Nat
        BY <2>1, <2>2, <2>4
      <3> QED
        BY <3>1
    <2> QED
      BY <2>3, <2>4, <2>5
  <1> QED
    BY <1>1, <1>2

(* Whoever types after a batch and did not start in it typed before it.    *)
LEMMA TypedBefore ==
  ASSUME NEW token \in Nat, NEW rows \in Seq(TypingRow), NEW r \in Rooms, NEW u \in OurUsers,
         u \in AfterRows(token, rows)[r], <<r, u>> \notin Starts(token, rows)
  PROVE  u \in Remembered(token)[r]
  <1> DEFINE T == {i \in RowsOf(rows, r) : u \in rows[i].users}
  <1>1. CASE T = {}
    BY <1>1, AfterIs
  <1>2. CASE T # {}
    <2>1. T \in SUBSET Nat
      BY DEF RowsOf
    <2>2. PICK i \in T : \A k \in T : i <= k
      BY <1>2, <2>1, SmallestExists
    <2>3. i \in RowsOf(rows, r) /\ u \in rows[i].users /\ i \in Nat
      BY <2>1, <2>2
    <2>4. u \in Before(token, rows, i)
      BY <2>3, StartsAre
    <2>5. CASE Before(token, rows, i) = Remembered(token)[r]
      BY <2>4, <2>5
    <2>6. ASSUME NEW j \in RowsOf(rows, r), j < i, Before(token, rows, i) = rows[j].users
          PROVE  FALSE
      <3>1. j \in T /\ j \in Nat
        BY <2>1, <2>4, <2>6
      <3>2. i <= j
        BY <2>2, <3>1
      <3> QED
        BY <2>3, <2>6, <3>1, <3>2
    <2>7. \/ Before(token, rows, i) = Remembered(token)[r]
          \/ \E j \in RowsOf(rows, r) : j < i /\ Before(token, rows, i) = rows[j].users
      BY <2>3, BeforeIs
    <2> QED
      BY <2>5, <2>6, <2>7
  <1> QED
    BY <1>1, <1>2

(* Whoever does not type after a batch and did not stop in it did not type *)
(* before it.                                                              *)
LEMMA SilentBefore ==
  ASSUME NEW token \in Nat, NEW rows \in Seq(TypingRow), NEW r \in Rooms, NEW u \in OurUsers,
         u \notin AfterRows(token, rows)[r], <<r, u>> \notin Stops(token, rows)
  PROVE  u \notin Remembered(token)[r]
  <1> DEFINE T == {i \in RowsOf(rows, r) : u \notin rows[i].users}
  <1>1. CASE T = {}
    BY <1>1, AfterIs
  <1>2. CASE T # {}
    <2>1. T \in SUBSET Nat
      BY DEF RowsOf
    <2>2. PICK i \in T : \A k \in T : i <= k
      BY <1>2, <2>1, SmallestExists
    <2>3. i \in RowsOf(rows, r) /\ u \notin rows[i].users /\ i \in Nat
      BY <2>1, <2>2
    <2>4. u \notin Before(token, rows, i)
      BY <2>3, StopsAre
    <2>5. CASE Before(token, rows, i) = Remembered(token)[r]
      BY <2>4, <2>5
    <2>6. ASSUME NEW j \in RowsOf(rows, r), j < i, Before(token, rows, i) = rows[j].users
          PROVE  FALSE
      <3>1. j \in T /\ j \in Nat
        BY <2>1, <2>4, <2>6
      <3>2. i <= j
        BY <2>2, <3>1
      <3> QED
        BY <2>3, <2>6, <3>1, <3>2
    <2>7. \/ Before(token, rows, i) = Remembered(token)[r]
          \/ \E j \in RowsOf(rows, r) : j < i /\ Before(token, rows, i) = rows[j].users
      BY <2>3, BeforeIs
    <2> QED
      BY <2>5, <2>6, <2>7
  <1> QED
    BY <1>1, <1>2

(* Whoever starts in a batch and does not stop in it types after it.       *)
LEMMA StartedTypes ==
  ASSUME NEW token \in Nat, NEW rows \in Seq(TypingRow), NEW r \in Rooms, NEW u \in OurUsers,
         <<r, u>> \in Starts(token, rows), <<r, u>> \notin Stops(token, rows)
  PROVE  u \in AfterRows(token, rows)[r]
  <1> SUFFICES ASSUME u \notin AfterRows(token, rows)[r] PROVE FALSE
    OBVIOUS
  <1>1. PICK i \in RowsOf(rows, r) : u \in rows[i].users
    BY StartsAre
  <1>2. PICK l \in RowsOf(rows, r) : u \notin rows[l].users /\ \A k \in RowsOf(rows, r) : k <= l
    BY <1>1, AfterIs
  <1> DEFINE T == {k \in RowsOf(rows, r) : i < k /\ u \notin rows[k].users}
  <1>3. T \in SUBSET Nat /\ RowsOf(rows, r) \in SUBSET Nat
    BY DEF RowsOf
  <1>4. l \in T
    <2>1. i <= l /\ i # l
      BY <1>1, <1>2
    <2> QED
      BY <1>2, <1>3, <2>1
  <1>5. PICK k \in T : \A x \in T : k <= x
    BY <1>3, <1>4, SmallestExists
  <1>6. k \in RowsOf(rows, r) /\ i < k /\ u \notin rows[k].users /\ k \in Nat /\ i \in Nat
    BY <1>3, <1>5
  <1>7. PICK j \in RowsOf(rows, r) : /\ j < k /\ Before(token, rows, k) = rows[j].users
                                     /\ i <= j
    BY <1>6, BeforeIs
  <1>8. u \in rows[j].users
    <2> SUFFICES ASSUME u \notin rows[j].users PROVE FALSE
      OBVIOUS
    <2>1. j \in Nat /\ i # j
      BY <1>1, <1>3
    <2>2. j \in T
      BY <1>6, <1>7, <2>1
    <2>3. k <= j
      BY <1>5, <2>2
    <2> QED
      BY <1>6, <1>7, <2>1, <2>3
  <1> QED
    BY <1>6, <1>7, <1>8, StopsAre

(* Whoever stops in a batch and does not start in it is silent after it.   *)
LEMMA StoppedSilent ==
  ASSUME NEW token \in Nat, NEW rows \in Seq(TypingRow), NEW r \in Rooms, NEW u \in OurUsers,
         <<r, u>> \in Stops(token, rows), <<r, u>> \notin Starts(token, rows)
  PROVE  u \notin AfterRows(token, rows)[r]
  <1> SUFFICES ASSUME u \in AfterRows(token, rows)[r] PROVE FALSE
    OBVIOUS
  <1>1. PICK i \in RowsOf(rows, r) : u \notin rows[i].users
    BY StopsAre
  <1>2. PICK l \in RowsOf(rows, r) : u \in rows[l].users /\ \A k \in RowsOf(rows, r) : k <= l
    BY <1>1, AfterIs
  <1> DEFINE T == {k \in RowsOf(rows, r) : i < k /\ u \in rows[k].users}
  <1>3. T \in SUBSET Nat /\ RowsOf(rows, r) \in SUBSET Nat
    BY DEF RowsOf
  <1>4. l \in T
    <2>1. i <= l /\ i # l
      BY <1>1, <1>2
    <2> QED
      BY <1>2, <1>3, <2>1
  <1>5. PICK k \in T : \A x \in T : k <= x
    BY <1>3, <1>4, SmallestExists
  <1>6. k \in RowsOf(rows, r) /\ i < k /\ u \in rows[k].users /\ k \in Nat /\ i \in Nat
    BY <1>3, <1>5
  <1>7. PICK j \in RowsOf(rows, r) : /\ j < k /\ Before(token, rows, k) = rows[j].users
                                     /\ i <= j
    BY <1>6, BeforeIs
  <1>8. u \notin rows[j].users
    <2> SUFFICES ASSUME u \in rows[j].users PROVE FALSE
      OBVIOUS
    <2>1. j \in Nat /\ i # j
      BY <1>1, <1>3
    <2>2. j \in T
      BY <1>6, <1>7, <2>1
    <2>3. k <= j
      BY <1>5, <2>2
    <2> QED
      BY <1>6, <1>7, <2>1, <2>3
  <1> QED
    BY <1>6, <1>7, <1>8, StartsAre

-----------------------------------------------------------------------------
(* The keep-alive comes in time.                                           *)

(* A queue of work holds an announcement that m types.                     *)
Announces(q, m) == \E i \in 1..Len(q) : q[i].member = m /\ q[i].typing

(* An announcement of m is on its way.                                     *)
Coming(m) == \/ m = poking \/ Announces(work, m) \/ Announces(submitting, m)
             \/ \E i \in 1..Len(due) : due[i] = m

(* push has just tried whom it is about to record.                         *)
PokedWasTried(m) == m = poking => tried[m] = 0

(* A member was tried at least as recently as it was announced.            *)
TriedSince(m) == Types(m) => lastPoke[m] = LongAgo \/ tried[m] <= lastPoke[m]

(* Nobody whose announcement is old is forgotten: once KeepAlive has taken *)
(* the tick, an announcement is coming, or one has just failed.            *)
NotForgotten(m) ==
  Types(m) /\ ~tick /\ ~Coming(m) => tried[m] = 0 \/ lastPoke[m] # LongAgo

KeepInv == \A m \in Members : PokedWasTried(m) /\ TriedSince(m) /\ NotForgotten(m)

(* A submitted announcement is in the queue.                               *)
LEMMA AnnouncesAppended ==
  ASSUME NEW q \in Seq(Work), NEW w \in Work, NEW m,
         Announces(q, m) \/ (w.member = m /\ w.typing)
  PROVE  Announces(Append(q, w), m)
  <1> DEFINE r == Append(q, w)
  <1>1. /\ Len(r) = Len(q) + 1 /\ Len(q) \in Nat
        /\ (\A i \in 1..Len(q) : r[i] = q[i]) /\ r[Len(q) + 1] = w
    BY AppendIs
  <1> HIDE DEF r
  <1>2. \A i \in 1..Len(q) : i \in 1..Len(r)
    BY <1>1
  <1>3. Len(q) + 1 \in 1..Len(r)
    BY <1>1
  <1>4. Announces(r, m)
    BY <1>1, <1>2, <1>3 DEF Announces
  <1> QED
    BY <1>4 DEF r

(* Taking the head of a queue takes no other announcement.                 *)
LEMMA AnnouncesTail ==
  ASSUME NEW q \in Seq(Work), q # <<>>, NEW m, Announces(q, m)
  PROVE  Announces(Tail(q), m) \/ (Head(q).member = m /\ Head(q).typing)
  <1> DEFINE r == Tail(q)
  <1>1. /\ Head(q) = q[1] /\ Len(r) = Len(q) - 1 /\ Len(q) \in Nat
        /\ \A i \in 1..(Len(q) - 1) : r[i] = q[i + 1]
    BY TailIs
  <1> HIDE DEF r
  <1>2. PICK i \in 1..Len(q) : q[i].member = m /\ q[i].typing
    BY DEF Announces
  <1>3. CASE i = 1
    BY <1>1, <1>2, <1>3
  <1>4. CASE i # 1
    <2>1. i - 1 \in 1..Len(r) /\ r[i - 1] = q[i]
      BY <1>1, <1>4
    <2>2. Announces(r, m)
      BY <1>2, <2>1 DEF Announces
    <2> QED
      BY <2>2 DEF r
  <1> QED
    BY <1>3, <1>4

(* The same of the members that are due.                                   *)
LEMMA DueTail ==
  ASSUME NEW q \in Seq(Members), q # <<>>, NEW m, \E i \in 1..Len(q) : q[i] = m
  PROVE  (\E i \in 1..Len(Tail(q)) : Tail(q)[i] = m) \/ Head(q) = m
  <1> DEFINE r == Tail(q)
  <1>1. /\ Head(q) = q[1] /\ Len(r) = Len(q) - 1 /\ Len(q) \in Nat
        /\ \A i \in 1..(Len(q) - 1) : r[i] = q[i + 1]
    BY TailIs
  <1> HIDE DEF r
  <1>2. PICK i \in 1..Len(q) : q[i] = m
    OBVIOUS
  <1>3. CASE i = 1
    BY <1>1, <1>2, <1>3
  <1>4. CASE i # 1
    <2>1. i - 1 \in 1..Len(r) /\ r[i - 1] = q[i]
      BY <1>1, <1>4
    <2>2. \E k \in 1..Len(r) : r[k] = m
      BY <1>2, <2>1
    <2> QED
      BY <2>2 DEF r
  <1> QED
    BY <1>3, <1>4

(* A set of members, submitted in some order: each of them.                *)
LEMMA MembersListed ==
  ASSUME NEW S \in SUBSET Members, NEW m \in S
  PROVE  \E i \in 1..Len(SetToSeq(S)) : SetToSeq(S)[i] = m
  <1>1. /\ Cardinality(S) \in Nat
        /\ SetToSeq(S) \in [1..Cardinality(S) -> S]
        /\ \E i \in 1..Cardinality(S) : SetToSeq(S)[i] = m
    BY MembersFinite, SetToSeqIs
  <1>2. Len(SetToSeq(S)) = Cardinality(S)
    BY <1>1
  <1> QED
    BY <1>1, <1>2

(* submit either queues the work or counts as an attempt.                  *)
LEMMA SubmitIs ==
  ASSUME TypingInv, NEW w \in Work, Submit(w), NEW m \in Members
  PROVE  /\ Announces(work, m) => Announces(work', m)
         /\ w.member = m /\ w.typing => Announces(work', m) \/ tried'[m] = 0
         /\ tried'[m] = tried[m] \/ tried'[m] = 0
  <1>1. work \in Seq(Work) /\ tried \in [Members -> 0..TimeoutTicks] /\ w.member \in Members
    BY DEF TypingInv, TypingTypeOK, Work
  <1>2. CASE Len(work) < WorkBuffer
    <2>1. work' = Append(work, w) /\ tried' = tried
      BY <1>2 DEF Submit
    <2> QED
      BY <1>1, <2>1, AnnouncesAppended
  <1>3. CASE ~(Len(work) < WorkBuffer)
    <2>1. work' = work /\ tried' = [tried EXCEPT ![w.member] = 0]
      BY <1>3 DEF Submit
    <2> QED
      BY <1>1, <2>1
  <1> QED
    BY <1>2, <1>3

(* A step that takes no tick and loses no announcement without trying it.  *)
LEMMA KeepsComing ==
  ASSUME TypingInv, NEW m \in Members, PokedWasTried(m), TriedSince(m), NotForgotten(m),
         UNCHANGED <<rooms, lastPoke, tick>>,
         tried'[m] = tried[m] \/ tried'[m] = 0,
         m = poking' => m = poking \/ tried'[m] = 0,
         Coming(m) => Coming(m)' \/ tried'[m] = 0
  PROVE  PokedWasTried(m)' /\ TriedSince(m)' /\ NotForgotten(m)'
  <1>1. tried[m] \in Nat /\ lastPoke[m] \in Nat /\ LongAgo \in Nat
    BY TypingAssumption DEF TypingInv, TypingTypeOK, LongAgo
  <1>2. Types(m)' <=> Types(m)
    BY DEF Types
  <1>3. PokedWasTried(m)'
    BY DEF PokedWasTried
  <1>4. TriedSince(m)'
    BY <1>1, <1>2 DEF TriedSince
  <1>5. NotForgotten(m)'
    BY <1>1, <1>2 DEF NotForgotten
  <1> QED
    BY <1>3, <1>4, <1>5

(* Each step of the three goroutines.                                      *)
LEMMA KeepInvTypingStep ==
  ASSUME TypingInv, KeepInv, TypingStep
  PROVE  KeepInv'
  <1> SUFFICES ASSUME NEW m \in Members
               PROVE  PokedWasTried(m)' /\ TriedSince(m)' /\ NotForgotten(m)'
    BY DEF KeepInv
  <1>0. PokedWasTried(m) /\ TriedSince(m) /\ NotForgotten(m)
    BY DEF KeepInv
  <1>a. /\ tried[m] \in 0..TimeoutTicks /\ lastPoke[m] \in 0..LongAgo /\ LongAgo \in Nat
        /\ tried \in [Members -> 0..TimeoutTicks] /\ lastPoke \in [Members -> 0..LongAgo]
        /\ m # Nobody /\ TimeoutTicks \in Nat
    BY TypingAssumption DEF TypingInv, TypingTypeOK, LongAgo, Members
  <1>1. CASE SubmitNotice
    <2> DEFINE w == Head(submitting)
    <2>1. submitting \in Seq(Work) /\ submitting # <<>>
      BY <1>1 DEF SubmitNotice, TypingInv, TypingTypeOK
    <2>2. w \in Work
      BY <2>1, TailIs
    <2>3. /\ Submit(w) /\ submitting' = Tail(submitting)
          /\ UNCHANGED <<rooms, lastPoke, tick, due, poking>>
      BY <1>1 DEF SubmitNotice
    <2>4. Announces(submitting, m) => Announces(submitting', m) \/ (w.member = m /\ w.typing)
      BY <2>1, <2>3, AnnouncesTail
    <2> HIDE DEF w
    <2>5. /\ Announces(work, m) => Announces(work', m)
          /\ w.member = m /\ w.typing => Announces(work', m) \/ tried'[m] = 0
          /\ tried'[m] = tried[m] \/ tried'[m] = 0
      BY <2>2, <2>3, SubmitIs
    <2>6. Coming(m) => Coming(m)' \/ tried'[m] = 0
      BY <2>3, <2>4, <2>5 DEF Coming, Announces
    <2> QED
      BY <1>0, <2>3, <2>5, <2>6, KeepsComing
  <1>2. CASE Tick
    <2>1. /\ lastPoke'[m] = Older(lastPoke[m], LongAgo)
          /\ tried'[m] = IF Types(m) THEN Older(tried[m], TimeoutTicks) ELSE 0
          /\ UNCHANGED <<rooms, poking>> /\ poking = Nobody
      BY <1>2 DEF Tick
    <2>2. tick'
      BY <1>2, Zenon DEF Tick
    <2>3. Types(m)' <=> Types(m)
      BY <2>1 DEF Types
    <2>4. TriedSince(m)'
      BY <1>0, <1>a, <2>1, <2>3 DEF TriedSince, Older
    <2>5. PokedWasTried(m)'
      BY <1>a, <2>1 DEF PokedWasTried
    <2> QED
      BY <2>2, <2>4, <2>5 DEF NotForgotten
  <1>3. CASE KeepAlive
    <2> DEFINE surely == {n \in Members : Types(n) /\ SurelyDue(lastPoke[n])}
    <2>1. PICK early \in SUBSET {n \in Members : Types(n) /\ lastPoke[n] = PingTicks} :
            due' = SetToSeq(surely \cup early)
      BY <1>3 DEF KeepAlive
    <2>2. UNCHANGED <<rooms, lastPoke, poking, tried>>
      BY <1>3 DEF KeepAlive
    <2>3. Types(m)' <=> Types(m)
      BY <2>2 DEF Types
    <2>4. PokedWasTried(m)' /\ TriedSince(m)'
      BY <1>0, <2>2, <2>3 DEF PokedWasTried, TriedSince
    <2>5. ASSUME Types(m), lastPoke[m] = LongAgo PROVE Coming(m)'
      <3>1. m \in surely \cup early
        BY <2>5, TypingAssumption DEF SurelyDue, LongAgo
      <3>2. surely \cup early \in SUBSET Members
        OBVIOUS
      <3> HIDE DEF surely
      <3>3. \E i \in 1..Len(due') : due'[i] = m
        BY <2>1, <3>1, <3>2, MembersListed
      <3> QED
        BY <3>3 DEF Coming
    <2>6. NotForgotten(m)'
      BY <2>2, <2>3, <2>5 DEF NotForgotten
    <2> QED
      BY <2>4, <2>6
  <1>4. CASE Reannounce
    <2> DEFINE w == [member |-> Head(due), typing |-> TRUE, diffed |-> FALSE]
    <2>1. due \in Seq(Members) /\ due # <<>>
      BY <1>4 DEF Reannounce, TypingInv, TypingTypeOK
    <2>2. Head(due) \in Members
      BY <2>1, TailIs
    <2>3. w \in Work /\ w.member = Head(due) /\ w.typing
      BY <2>2 DEF Work
    <2>4. /\ Submit(w) /\ due' = Tail(due)
          /\ UNCHANGED <<rooms, lastPoke, tick, submitting, poking>>
      BY <1>4 DEF Reannounce
    <2>5. (\E i \in 1..Len(due) : due[i] = m) =>
            (\E i \in 1..Len(due') : due'[i] = m) \/ w.member = m
      BY <2>1, <2>3, <2>4, DueTail
    <2> HIDE DEF w
    <2>6. /\ Announces(work, m) => Announces(work', m)
          /\ w.member = m /\ w.typing => Announces(work', m) \/ tried'[m] = 0
          /\ tried'[m] = tried[m] \/ tried'[m] = 0
      BY <2>3, <2>4, SubmitIs
    <2>7. Coming(m) => Coming(m)' \/ tried'[m] = 0
      BY <2>3, <2>4, <2>5, <2>6 DEF Coming, Announces
    <2> QED
      BY <1>0, <2>4, <2>6, <2>7, KeepsComing
  <1>5. ASSUME NEW reached \in BOOLEAN, Push(reached)
        PROVE  PokedWasTried(m)' /\ TriedSince(m)' /\ NotForgotten(m)'
    <2> DEFINE w == Head(work)
    <2>1. work \in Seq(Work) /\ work # <<>>
      BY <1>5 DEF Push, TypingInv, TypingTypeOK
    <2>2. w \in Work /\ w.member \in Members
      <3>1. w \in Work
        BY <2>1, TailIs
      <3> HIDE DEF w
      <3> QED
        BY <3>1 DEF Work
    <2>3. /\ work' = Tail(work) /\ poking = Nobody
          /\ tried' = IF w.typing \/ ~reached THEN [tried EXCEPT ![w.member] = 0] ELSE tried
          /\ poking' = IF reached /\ w.typing THEN w.member ELSE Nobody
          /\ UNCHANGED <<rooms, lastPoke, tick, submitting, due>>
      BY <1>5 DEF Push
    <2>4. Announces(work, m) => Announces(work', m) \/ (w.member = m /\ w.typing)
      BY <2>1, <2>3, AnnouncesTail
    <2> HIDE DEF w
    <2>5. /\ tried'[m] = tried[m] \/ tried'[m] = 0
          /\ w.member = m /\ w.typing => tried'[m] = 0
          /\ m = poking' => tried'[m] = 0
      BY <1>a, <2>2, <2>3
    <2>6. Coming(m) => Coming(m)' \/ tried'[m] = 0
      BY <1>a, <2>3, <2>4, <2>5 DEF Coming, Announces
    <2> QED
      BY <1>0, <2>3, <2>5, <2>6, KeepsComing
  <1>6. CASE RecordPoke
    <2>1. /\ lastPoke' = [lastPoke EXCEPT ![poking] = 0] /\ poking' = Nobody /\ poking # Nobody
          /\ UNCHANGED <<rooms, work, submitting, tick, due, tried>>
      BY <1>6 DEF RecordPoke
    <2>2. Types(m)' <=> Types(m)
      BY <2>1 DEF Types
    <2>3. CASE m = poking
      <3>1. lastPoke'[m] = 0 /\ tried'[m] = 0
        BY <1>0, <1>a, <2>1, <2>3 DEF PokedWasTried
      <3> QED
        BY <1>a, <2>1, <3>1 DEF PokedWasTried, TriedSince, NotForgotten
    <2>4. CASE m # poking
      <3>1. lastPoke'[m] = lastPoke[m] /\ tried'[m] = tried[m]
        BY <1>a, <2>1, <2>4
      <3>2. Coming(m) => Coming(m)'
        BY <2>1, <2>4 DEF Coming, Announces
      <3>3. PokedWasTried(m)' /\ TriedSince(m)'
        BY <1>0, <1>a, <2>1, <2>2, <3>1 DEF PokedWasTried, TriedSince
      <3>4. NotForgotten(m)'
        BY <1>0, <2>1, <2>2, <3>1, <3>2 DEF NotForgotten
      <3> QED
        BY <3>3, <3>4
    <2> QED
      BY <2>3, <2>4
  <1> QED
    BY <1>1, <1>2, <1>3, <1>4, <1>5, <1>6 DEF TypingStep

(* handleTyping: whoever goes on typing typed before, and a new typist has *)
(* just been seen.                                                         *)
LEMMA KeepInvHandleRows ==
  ASSUME TypingInv, KeepInv, NEW token \in Nat, NEW rows \in Seq(TypingRow),
         HandleRows(token, rows)
  PROVE  KeepInv'
  <1> SUFFICES ASSUME NEW m \in Members
               PROVE  PokedWasTried(m)' /\ TriedSince(m)' /\ NotForgotten(m)'
    BY DEF KeepInv
  <1>0. PokedWasTried(m) /\ TriedSince(m) /\ NotForgotten(m)
    BY DEF KeepInv
  <1> DEFINE starts == Starts(token, rows)
             stops == Stops(token, rows)
  <1>1. /\ tried[m] \in Nat /\ lastPoke[m] \in Nat /\ LongAgo \in Nat
    BY TypingAssumption DEF TypingInv, TypingTypeOK, LongAgo
  <1>2. /\ rooms' = AfterRows(token, rows)
        /\ lastPoke'[m] = IF token < serial \/ m \in stops THEN LongAgo ELSE lastPoke[m]
        /\ tried'[m] = IF m \in starts \cup stops THEN 0 ELSE tried[m]
        /\ submitting = <<>> /\ UNCHANGED <<work, tick, due, poking>>
    BY DEF HandleRows
  <1>3. m[1] \in Rooms /\ m[2] \in OurUsers /\ m = <<m[1], m[2]>>
    BY DEF Members
  <1>4. CASE m \in starts \cup stops
    <2>1. tried'[m] = 0
      BY <1>2, <1>4
    <2>2. lastPoke'[m] \in Nat
      BY <1>1, <1>2
    <2> QED
      BY <2>1, <2>2 DEF PokedWasTried, TriedSince, NotForgotten
  <1>5. CASE m \notin starts \cup stops
    <2>1. Types(m)' => Types(m) /\ ~(token < serial)
      <3> SUFFICES ASSUME m[2] \in AfterRows(token, rows)[m[1]]
                   PROVE  m[2] \in rooms[m[1]] /\ ~(token < serial)
        BY <1>2 DEF Types
      <3>1. m[2] \in Remembered(token)[m[1]]
        BY <1>3, <1>5, TypedBefore
      <3> QED
        BY <1>3, <3>1 DEF Remembered
    <2>2. tried'[m] = tried[m] /\ (~(token < serial) => lastPoke'[m] = lastPoke[m])
      BY <1>2, <1>5
    <2>3. ~Announces(submitting, m)
      BY <1>2, EmptyIsLines DEF Announces
    <2>4. Coming(m) => Coming(m)'
      BY <1>2, <2>3 DEF Coming, Announces
    <2>5. PokedWasTried(m)' /\ TriedSince(m)'
      BY <1>0, <1>2, <2>1, <2>2 DEF PokedWasTried, TriedSince
    <2>6. NotForgotten(m)'
      BY <1>0, <1>2, <2>1, <2>2, <2>4 DEF NotForgotten
    <2> QED
      BY <2>5, <2>6
  <1> QED
    BY <1>4, <1>5

(* Nobody types at the start.                                              *)
LEMMA KeepInvInit == StreamsInit => KeepInv
  BY DEF StreamsInit, TypingInit, KeepInv, PokedWasTried, TriedSince, NotForgotten, Types,
         Members

(* Every step.                                                             *)
LEMMA KeepInvStep ==
  ASSUME ReplicationInv, TypingInv, KeepInv, [StreamsNext]_allStreams
  PROVE  KeepInv'
  <1>1. CASE UNCHANGED typingVars
    BY <1>1 DEF typingVars, KeepInv, PokedWasTried, TriedSince, NotForgotten, Types, Coming,
                Announces
  <1> QED
    BY <1>1, TypingStepOrRows, KeepInvTypingStep, KeepInvHandleRows

(* An announcement that is on its way is on its way.                       *)
LEMMA ComingIsOnItsWay ==
  ASSUME TypingInv, NEW m \in Members, Coming(m)
  PROVE  OnItsWay(m)
  <1>1. /\ DOMAIN work = 1..Len(work) /\ DOMAIN submitting = 1..Len(submitting)
        /\ DOMAIN due = 1..Len(due)
    BY DEF TypingInv, TypingTypeOK
  <1> QED
    BY <1>1 DEF Coming, Announces, OnItsWay

(* IndicatorKept: a user who goes on typing is announced again, or an      *)
(* attempt at it fails, before FederationTimeout, for any buffer, interval *)
(* and timeout with PingTicks + 1 < TimeoutTicks.                          *)
THEOREM IndicatorKeptAlways == StreamsSpec => []IndicatorKept
  <1>1. StreamsInit => StreamsInv /\ KeepInv
    BY StreamsInvInit, KeepInvInit
  <1>2. StreamsInv /\ KeepInv /\ [StreamsNext]_allStreams => (StreamsInv /\ KeepInv)'
    BY StreamsInvStep, KeepInvStep DEF StreamsInv
  <1>3. StreamsInv /\ KeepInv => IndicatorKept
    <2> SUFFICES ASSUME StreamsInv, KeepInv, NEW m \in Members, Types(m),
                        tried[m] >= TimeoutTicks, ~tick, ~OnItsWay(m)
                 PROVE  FALSE
      BY DEF IndicatorKept
    <2>1. TypingInv
      BY DEF StreamsInv
    <2>2. ~Coming(m)
      BY <2>1, ComingIsOnItsWay
    <2>3. /\ tried[m] \in Nat /\ lastPoke[m] \in 0..LongAgo /\ LongAgo = PingTicks + 1
          /\ PingTicks \in Nat /\ TimeoutTicks \in Nat /\ PingTicks + 1 < TimeoutTicks
      BY <2>1, TypingAssumption DEF TypingInv, TypingTypeOK, LongAgo
    <2>4. tried[m] = 0 \/ lastPoke[m] # LongAgo
      BY <2>2 DEF KeepInv, NotForgotten
    <2>5. lastPoke[m] = LongAgo \/ tried[m] <= lastPoke[m]
      BY DEF KeepInv, TriedSince
    <2> QED
      BY <2>3, <2>4, <2>5
  <1> QED
    BY <1>1, <1>2, <1>3, PTL DEF StreamsSpec

-----------------------------------------------------------------------------
(* The last notice is the truth.                                           *)

(* A queue holds nothing of m, or no change of m.                          *)
NoneOf(q, m) == \A j \in 1..Len(q) : q[j].member # m

NoChange(q, m) == \A j \in 1..Len(q) : ~(q[j].diffed /\ q[j].member = m)

(* The last change of m in the queue is a start; keep-alives may follow.   *)
LastStarts(q, m) ==
  \E i \in 1..Len(q) : /\ q[i].diffed /\ q[i].member = m /\ q[i].typing
                       /\ \A j \in 1..Len(q) : i < j => ~(q[j].diffed /\ q[j].member = m)

(* The last of m in the queue is a stop, and nothing of m follows.         *)
LastStops(q, m) ==
  \E i \in 1..Len(q) : /\ q[i].diffed /\ q[i].member = m /\ ~q[i].typing
                       /\ \A j \in 1..Len(q) : i < j => q[j].member # m

(* A change that is on its way and was neither lost nor overtaken says     *)
(* whether m types, behind everything else said of m.                      *)
PendingIsTrue(m) ==
  fate[m] = "pending" =>
    /\ Types(m) => LastStarts(submitting, m) \/ (NoneOf(submitting, m) /\ LastStarts(work, m))
    /\ ~Types(m) => LastStops(submitting, m) \/ (NoneOf(submitting, m) /\ LastStops(work, m))

(* A change that was said is the last, and only keep-alives of someone who *)
(* types follow it.                                                        *)
SaidIsTrue(m) ==
  fate[m] = "said" =>
    /\ NoneOf(submitting, m) /\ NoChange(work, m)
    /\ said[m] = "start" <=> Types(m)
    /\ ~Types(m) => NoneOf(work, m)

(* Only HandleRows submits stops, and it submits nothing but changes.      *)
KeepAlivesAnnounce == /\ \A i \in 1..Len(work) : ~work[i].diffed => work[i].typing
                      /\ \A i \in 1..Len(submitting) : submitting[i].diffed

NoticeInv == KeepAlivesAnnounce /\ \A m \in Members : PendingIsTrue(m) /\ SaidIsTrue(m)

(* Work of another member is submitted.                                    *)
LEMMA AppendOther ==
  ASSUME NEW q \in Seq(Work), NEW w \in Work, NEW m, w.member # m
  PROVE  /\ NoneOf(q, m) => NoneOf(Append(q, w), m)
         /\ NoChange(q, m) => NoChange(Append(q, w), m)
         /\ LastStarts(q, m) => LastStarts(Append(q, w), m)
         /\ LastStops(q, m) => LastStops(Append(q, w), m)
  <1> DEFINE r == Append(q, w)
  <1>1. /\ Len(r) = Len(q) + 1 /\ Len(q) \in Nat
        /\ (\A i \in 1..Len(q) : r[i] = q[i]) /\ r[Len(q) + 1] = w
    BY AppendIs
  <1> HIDE DEF r
  <1>2. \A j \in 1..Len(r) : j \in 1..Len(q) \/ r[j] = w
    BY <1>1
  <1>3. \A j \in 1..Len(q) : j \in 1..Len(r)
    BY <1>1
  <1>4. NoneOf(q, m) => NoneOf(r, m)
    BY <1>1, <1>2 DEF NoneOf
  <1>5. NoChange(q, m) => NoChange(r, m)
    BY <1>1, <1>2 DEF NoChange
  <1>6. LastStarts(q, m) => LastStarts(r, m)
    BY <1>1, <1>2, <1>3 DEF LastStarts
  <1>7. LastStops(q, m) => LastStops(r, m)
    BY <1>1, <1>2, <1>3 DEF LastStops
  <1> QED
    BY <1>4, <1>5, <1>6, <1>7 DEF r

(* A keep-alive is submitted.                                              *)
LEMMA AppendKeepAlive ==
  ASSUME NEW q \in Seq(Work), NEW w \in Work, NEW m, ~w.diffed
  PROVE  /\ NoChange(q, m) => NoChange(Append(q, w), m)
         /\ LastStarts(q, m) => LastStarts(Append(q, w), m)
  <1> DEFINE r == Append(q, w)
  <1>1. /\ Len(r) = Len(q) + 1 /\ Len(q) \in Nat
        /\ (\A i \in 1..Len(q) : r[i] = q[i]) /\ r[Len(q) + 1] = w
    BY AppendIs
  <1> HIDE DEF r
  <1>2. \A j \in 1..Len(r) : j \in 1..Len(q) \/ r[j] = w
    BY <1>1
  <1>3. \A j \in 1..Len(q) : j \in 1..Len(r)
    BY <1>1
  <1>4. NoChange(q, m) => NoChange(r, m)
    BY <1>1, <1>2 DEF NoChange
  <1>5. LastStarts(q, m) => LastStarts(r, m)
    BY <1>1, <1>2, <1>3 DEF LastStarts
  <1> QED
    BY <1>4, <1>5 DEF r

(* A change is submitted: it is the last.                                  *)
LEMMA AppendChange ==
  ASSUME NEW q \in Seq(Work), NEW w \in Work, w.diffed
  PROVE  /\ w.typing => LastStarts(Append(q, w), w.member)
         /\ ~w.typing => LastStops(Append(q, w), w.member)
  <1> DEFINE r == Append(q, w)
             i == Len(q) + 1
  <1>1. Len(r) = i /\ Len(q) \in Nat /\ r[i] = w
    BY AppendIs
  <1>2. i \in 1..Len(r) /\ \A j \in 1..Len(r) : ~(i < j)
    BY <1>1
  <1> HIDE DEF r, i
  <1>3. w.typing => LastStarts(r, w.member)
    BY <1>1, <1>2 DEF LastStarts
  <1>4. ~w.typing => LastStops(r, w.member)
    BY <1>1, <1>2 DEF LastStops
  <1> QED
    BY <1>3, <1>4 DEF r

(* The head of a queue is taken: it was the last change, or that one is    *)
(* still there.                                                            *)
LEMMA TakeHead ==
  ASSUME NEW q \in Seq(Work), q # <<>>, NEW m
  PROVE  /\ NoneOf(q, m) => NoneOf(Tail(q), m) /\ Head(q).member # m
         /\ NoChange(q, m) => NoChange(Tail(q), m) /\ ~(Head(q).diffed /\ Head(q).member = m)
         /\ LastStarts(q, m) =>
              \/ LastStarts(Tail(q), m)
              \/ /\ Head(q).diffed /\ Head(q).member = m /\ Head(q).typing
                 /\ NoChange(Tail(q), m)
         /\ LastStops(q, m) =>
              \/ LastStops(Tail(q), m)
              \/ /\ Head(q).diffed /\ Head(q).member = m /\ ~Head(q).typing
                 /\ NoneOf(Tail(q), m)
  <1> DEFINE r == Tail(q)
  <1>1. /\ Head(q) = q[1] /\ Len(r) = Len(q) - 1 /\ Len(q) \in Nat /\ Len(q) >= 1
        /\ \A i \in 1..(Len(q) - 1) : r[i] = q[i + 1]
    BY TailIs
  <1> HIDE DEF r
  <1>2. ASSUME NEW j \in 1..Len(r) PROVE j + 1 \in 1..Len(q) /\ r[j] = q[j + 1]
    BY <1>1
  <1>3. NoneOf(q, m) => NoneOf(r, m) /\ q[1].member # m
    BY <1>1, <1>2 DEF NoneOf
  <1>4. NoChange(q, m) => NoChange(r, m) /\ ~(q[1].diffed /\ q[1].member = m)
    BY <1>1, <1>2 DEF NoChange
  <1>5. ASSUME LastStarts(q, m)
        PROVE  \/ LastStarts(r, m)
               \/ q[1].diffed /\ q[1].member = m /\ q[1].typing /\ NoChange(r, m)
    <2>1. PICK i \in 1..Len(q) :
             /\ q[i].diffed /\ q[i].member = m /\ q[i].typing
             /\ \A j \in 1..Len(q) : i < j => ~(q[j].diffed /\ q[j].member = m)
      BY <1>5 DEF LastStarts
    <2>2. CASE i = 1
      <3>1. ASSUME NEW j \in 1..Len(r) PROVE ~(r[j].diffed /\ r[j].member = m)
        <4>1. j + 1 \in 1..Len(q) /\ r[j] = q[j + 1] /\ 1 < j + 1
          BY <1>2
        <4> QED
          BY <2>1, <2>2, <4>1
      <3> QED
        BY <2>1, <2>2, <3>1 DEF NoChange
    <2>3. CASE i # 1
      <3>1. PICK k \in 1..Len(r) : k = i - 1 /\ r[k] = q[i]
        BY <1>1, <2>3
      <3>2. ASSUME NEW j \in 1..Len(r), k < j PROVE ~(r[j].diffed /\ r[j].member = m)
        <4>1. j + 1 \in 1..Len(q) /\ r[j] = q[j + 1] /\ i < j + 1
          BY <1>2, <3>1, <3>2
        <4> QED
          BY <2>1, <4>1
      <3> QED
        BY <2>1, <3>1, <3>2 DEF LastStarts
    <2> QED
      BY <2>2, <2>3
  <1>6. ASSUME LastStops(q, m)
        PROVE  \/ LastStops(r, m)
               \/ q[1].diffed /\ q[1].member = m /\ ~q[1].typing /\ NoneOf(r, m)
    <2>1. PICK i \in 1..Len(q) :
             /\ q[i].diffed /\ q[i].member = m /\ ~q[i].typing
             /\ \A j \in 1..Len(q) : i < j => q[j].member # m
      BY <1>6 DEF LastStops
    <2>2. CASE i = 1
      <3>1. ASSUME NEW j \in 1..Len(r) PROVE r[j].member # m
        <4>1. j + 1 \in 1..Len(q) /\ r[j] = q[j + 1] /\ 1 < j + 1
          BY <1>2
        <4> QED
          BY <2>1, <2>2, <4>1
      <3> QED
        BY <2>1, <2>2, <3>1 DEF NoneOf
    <2>3. CASE i # 1
      <3>1. PICK k \in 1..Len(r) : k = i - 1 /\ r[k] = q[i]
        BY <1>1, <2>3
      <3>2. ASSUME NEW j \in 1..Len(r), k < j PROVE r[j].member # m
        <4>1. j + 1 \in 1..Len(q) /\ r[j] = q[j + 1] /\ i < j + 1
          BY <1>2, <3>1, <3>2
        <4> QED
          BY <2>1, <4>1
      <3> QED
        BY <2>1, <3>1, <3>2 DEF LastStops
    <2> QED
      BY <2>2, <2>3
  <1> QED
    BY <1>1, <1>3, <1>4, <1>5, <1>6 DEF r

(* A queue whose last change of m is known holds a change of m.            *)
LEMMA LastIsChange ==
  ASSUME NEW q, NEW m, LastStarts(q, m) \/ LastStops(q, m)
  PROVE  ~NoChange(q, m) /\ ~NoneOf(q, m)
  BY DEF LastStarts, LastStops, NoChange, NoneOf

(* Newest, of one queue and of two.                                        *)
LEMMA NewestIs ==
  ASSUME NEW w \in Work, NEW a \in Seq(Work), NEW b \in Seq(Work)
  PROVE  /\ Newest(w, a) <=> w.diffed /\ NoChange(a, w.member)
         /\ Newest(w, a \o b) <=> w.diffed /\ NoChange(a, w.member) /\ NoChange(b, w.member)
  <1> DEFINE r == a \o b
  <1>1. /\ r \in Seq(Work) /\ Len(r) = Len(a) + Len(b) /\ Len(a) \in Nat /\ Len(b) \in Nat
        /\ \A i \in 1..(Len(a) + Len(b)) : r[i] = IF i <= Len(a) THEN a[i] ELSE b[i - Len(a)]
    BY ConcatProperties
  <1> HIDE DEF r
  <1>2. DOMAIN a = 1..Len(a) /\ DOMAIN r = 1..Len(r)
    BY <1>1
  <1>3. Newest(w, a) <=> w.diffed /\ NoChange(a, w.member)
    BY <1>2 DEF Newest, NoChange
  <1>4. Newest(w, r) <=> w.diffed /\ NoChange(r, w.member)
    BY <1>2 DEF Newest, NoChange
  <1>5. NoChange(r, w.member) <=> NoChange(a, w.member) /\ NoChange(b, w.member)
    <2>1. ASSUME NoChange(r, w.member) PROVE NoChange(a, w.member)
      <3>1. \A j \in 1..Len(a) : j \in 1..Len(r) /\ r[j] = a[j]
        BY <1>1
      <3> QED
        BY <2>1, <3>1 DEF NoChange
    <2>2. ASSUME NoChange(r, w.member) PROVE NoChange(b, w.member)
      <3> SUFFICES ASSUME NEW j \in 1..Len(b)
                   PROVE  ~(b[j].diffed /\ b[j].member = w.member)
        BY DEF NoChange
      <3> DEFINE k == Len(a) + j
      <3>a. k \in 1..(Len(a) + Len(b)) /\ ~(k <= Len(a)) /\ k - Len(a) = j
        BY <1>1
      <3>1. k \in 1..Len(r) /\ r[k] = b[j]
        <4> HIDE DEF k
        <4> QED
          BY <1>1, <3>a
      <3>2. ~(r[Len(a) + j].diffed /\ r[Len(a) + j].member = w.member)
        BY <2>2, <3>1 DEF NoChange
      <3> QED
        BY <3>1, <3>2
    <2>3. ASSUME NoChange(a, w.member), NoChange(b, w.member) PROVE NoChange(r, w.member)
      <3>1. ASSUME NEW j \in 1..Len(r) PROVE ~(r[j].diffed /\ r[j].member = w.member)
        <4>1. CASE j <= Len(a)
          BY <1>1, <2>3, <4>1 DEF NoChange
        <4>2. CASE ~(j <= Len(a))
          <5>1. j - Len(a) \in 1..Len(b) /\ r[j] = b[j - Len(a)]
            BY <1>1, <4>2
          <5> QED
            BY <2>3, <5>1 DEF NoChange
        <4> QED
          BY <4>1, <4>2
      <3> QED
        BY <3>1 DEF NoChange
    <2> QED
      BY <2>1, <2>2, <2>3
  <1> QED
    BY <1>3, <1>4, <1>5 DEF r

(* What HandleRows submits: the starts, then the stops, each member once.  *)
LEMMA NoticesSay ==
  ASSUME NEW S \in SUBSET Members, NEW m
  PROVE  /\ m \in S => LastStarts(Notices(S, TRUE), m) /\ LastStops(Notices(S, FALSE), m)
         /\ m \notin S => NoneOf(Notices(S, TRUE), m) /\ NoneOf(Notices(S, FALSE), m)
  <1> DEFINE n == Cardinality(S)
             f == SetToSeq(S)
  <1>1. /\ n \in Nat /\ f \in [1..n -> S]
        /\ \A i, j \in 1..n : f[i] = f[j] => i = j
        /\ \A x \in S : \E i \in 1..n : f[i] = x
    BY MembersFinite, SetToSeqIs
  <1> HIDE DEF n, f
  <1>2. ASSUME NEW typing \in BOOLEAN
        PROVE  /\ Len(Notices(S, typing)) = n
               /\ \A i \in 1..n : /\ Notices(S, typing)[i].member = f[i]
                                  /\ Notices(S, typing)[i].typing = typing
                                  /\ Notices(S, typing)[i].diffed
    <2>1. Notices(S, typing) = [i \in 1..n |->
                                 [member |-> f[i], typing |-> typing, diffed |-> TRUE]]
      BY DEF Notices, n, f
    <2>2. Len(Notices(S, typing)) = n
      BY NoticesAreWork DEF n
    <2>3. ASSUME NEW i \in 1..n
          PROVE  /\ Notices(S, typing)[i].member = f[i]
                 /\ Notices(S, typing)[i].typing = typing /\ Notices(S, typing)[i].diffed
      BY <2>1
    <2> QED
      BY <2>2, <2>3
  <1> DEFINE on == Notices(S, TRUE)
             off == Notices(S, FALSE)
  <1>3. Len(on) = n /\ \A i \in 1..n : on[i].member = f[i] /\ on[i].typing /\ on[i].diffed
    BY <1>2
  <1>4. Len(off) = n /\ \A i \in 1..n : off[i].member = f[i] /\ ~off[i].typing /\ off[i].diffed
    BY <1>2
  <1> HIDE DEF on, off
  <1>5. ASSUME m \in S PROVE LastStarts(on, m) /\ LastStops(off, m)
    <2>1. PICK i \in 1..n : f[i] = m
      BY <1>1, <1>5
    <2>2. ASSUME NEW j \in 1..n, i < j PROVE f[j] # m
      BY <1>1, <2>1, <2>2
    <2> QED
      BY <1>3, <1>4, <2>1, <2>2 DEF LastStarts, LastStops
  <1>6. ASSUME m \notin S PROVE NoneOf(on, m) /\ NoneOf(off, m)
    BY <1>1, <1>3, <1>4, <1>6 DEF NoneOf
  <1> QED
    BY <1>5, <1>6 DEF on, off

(* One queue after the other.                                              *)
LEMMA ConcatSays ==
  ASSUME NEW a \in Seq(Work), NEW b \in Seq(Work), NEW m
  PROVE  /\ NoneOf(a, m) /\ NoneOf(b, m) => NoneOf(a \o b, m)
         /\ LastStarts(a, m) /\ NoneOf(b, m) => LastStarts(a \o b, m)
         /\ LastStops(b, m) => LastStops(a \o b, m)
  <1> DEFINE r == a \o b
  <1>1. /\ r \in Seq(Work) /\ Len(r) = Len(a) + Len(b) /\ Len(a) \in Nat /\ Len(b) \in Nat
        /\ \A i \in 1..(Len(a) + Len(b)) : r[i] = IF i <= Len(a) THEN a[i] ELSE b[i - Len(a)]
    BY ConcatProperties
  <1> HIDE DEF r
  <1>2. \A i \in 1..Len(a) : i \in 1..Len(r) /\ r[i] = a[i]
    BY <1>1
  <1>3. \A i \in 1..Len(b) : Len(a) + i \in 1..Len(r) /\ r[Len(a) + i] = b[i]
    BY <1>1
  <1>4. ASSUME NEW j \in 1..Len(r)
        PROVE  \/ j \in 1..Len(a) /\ r[j] = a[j]
               \/ j > Len(a) /\ j - Len(a) \in 1..Len(b) /\ r[j] = b[j - Len(a)]
    BY <1>1
  <1>5. NoneOf(a, m) /\ NoneOf(b, m) => NoneOf(r, m)
    BY <1>4 DEF NoneOf
  <1>6. ASSUME LastStarts(a, m), NoneOf(b, m) PROVE LastStarts(r, m)
    <2>1. PICK i \in 1..Len(a) :
             /\ a[i].diffed /\ a[i].member = m /\ a[i].typing
             /\ \A j \in 1..Len(a) : i < j => ~(a[j].diffed /\ a[j].member = m)
      BY <1>6 DEF LastStarts
    <2>2. ASSUME NEW j \in 1..Len(r), i < j PROVE ~(r[j].diffed /\ r[j].member = m)
      BY <1>4, <1>6, <2>1, <2>2 DEF NoneOf
    <2> QED
      BY <1>2, <2>1, <2>2 DEF LastStarts
  <1>7. ASSUME LastStops(b, m) PROVE LastStops(r, m)
    <2>1. PICK i \in 1..Len(b) :
             /\ b[i].diffed /\ b[i].member = m /\ ~b[i].typing
             /\ \A j \in 1..Len(b) : i < j => b[j].member # m
      BY <1>7 DEF LastStops
    <2>2. PICK k \in 1..Len(r) : k = Len(a) + i /\ r[k] = b[i]
      BY <1>3
    <2>3. ASSUME NEW j \in 1..Len(r), k < j PROVE r[j].member # m
      <3>1. j - Len(a) \in 1..Len(b) /\ r[j] = b[j - Len(a)] /\ i < j - Len(a)
        BY <1>1, <1>4, <2>2, <2>3
      <3> QED
        BY <2>1, <3>1
    <2> QED
      BY <2>1, <2>2, <2>3 DEF LastStops
  <1> QED
    BY <1>5, <1>6, <1>7 DEF r

(* HandleRows.                                                             *)
LEMMA NoticeInvHandleRows ==
  ASSUME TypingInv, NoticeInv, NEW token \in Nat, NEW rows \in Seq(TypingRow),
         HandleRows(token, rows)
  PROVE  NoticeInv'
  <1> DEFINE starts == Starts(token, rows)
             stops == Stops(token, rows)
             on == Notices(starts, TRUE)
             off == Notices(stops, FALSE)
  <1>1. starts \in SUBSET Members /\ stops \in SUBSET Members
    BY ChangesAreMembers
  <1>2. /\ on \in Seq(Work) /\ Len(on) \in Nat /\ \A i \in 1..Len(on) : on[i].diffed
        /\ off \in Seq(Work) /\ Len(off) \in Nat /\ \A i \in 1..Len(off) : off[i].diffed
    BY <1>1, NoticesAreWork
  <1>3. /\ rooms' = AfterRows(token, rows) /\ submitting = <<>> /\ submitting' = on \o off
        /\ UNCHANGED <<work, said>>
    BY DEF HandleRows
  <1>4. /\ Len(on \o off) = Len(on) + Len(off)
        /\ \A i \in 1..(Len(on) + Len(off)) :
             (on \o off)[i] = IF i <= Len(on) THEN on[i] ELSE off[i - Len(on)]
    BY <1>2, ConcatProperties
  <1> HIDE DEF on, off
  <1>5. KeepAlivesAnnounce'
    <2>1. ASSUME NEW i \in 1..Len(submitting') PROVE submitting'[i].diffed
      <3>1. i \in 1..(Len(on) + Len(off)) /\ submitting'[i] = (on \o off)[i]
        BY <1>3, <1>4
      <3>2. i <= Len(on) \/ i - Len(on) \in 1..Len(off)
        BY <1>2, <3>1
      <3> QED
        BY <1>2, <1>4, <3>1, <3>2
    <2>2. \A i \in 1..Len(work') : ~work'[i].diffed => work'[i].typing
      BY <1>3 DEF NoticeInv, KeepAlivesAnnounce
    <2> QED
      BY <2>1, <2>2 DEF KeepAlivesAnnounce
  <1>6. ASSUME NEW m \in Members PROVE PendingIsTrue(m)' /\ SaidIsTrue(m)'
    <2>1. m[1] \in Rooms /\ m[2] \in OurUsers /\ m = <<m[1], m[2]>>
      BY DEF Members
    <2>2. fate'[m] = IF m \in (starts \ stops) \cup (stops \ starts) THEN "pending"
                     ELSE IF token < serial \/ m \in starts THEN "void" ELSE fate[m]
      BY DEF HandleRows
    <2>3. Types(m)' <=> m[2] \in AfterRows(token, rows)[m[1]]
      BY <1>3 DEF Types
    <2>4. CASE m \in starts \ stops
      <3>1. Types(m)'
        BY <2>1, <2>3, <2>4, StartedTypes
      <3>2. LastStarts(on, m) /\ NoneOf(off, m)
        BY <1>1, <2>4, NoticesSay DEF on, off
      <3>3. LastStarts(submitting', m)
        BY <1>2, <1>3, <3>2, ConcatSays
      <3> QED
        BY <2>2, <2>4, <3>1, <3>3 DEF PendingIsTrue, SaidIsTrue
    <2>5. CASE m \in stops \ starts
      <3>1. ~Types(m)'
        BY <2>1, <2>3, <2>5, StoppedSilent
      <3>2. LastStops(off, m)
        BY <1>1, <2>5, NoticesSay DEF off
      <3>3. LastStops(submitting', m)
        BY <1>2, <1>3, <3>2, ConcatSays
      <3> QED
        BY <2>2, <2>5, <3>1, <3>3 DEF PendingIsTrue, SaidIsTrue
    <2>6. CASE (m \in starts /\ m \in stops) \/ token < serial
      <3>1. fate'[m] = "void" \/ m \in starts \ stops \/ m \in stops \ starts
        BY <2>2, <2>6
      <3> QED
        BY <2>4, <2>5, <3>1 DEF PendingIsTrue, SaidIsTrue
    <2>7. CASE m \notin starts /\ m \notin stops /\ ~(token < serial)
      <3>1. fate'[m] = fate[m]
        BY <2>2, <2>7
      <3>2. Remembered(token)[m[1]] = rooms[m[1]]
        BY <2>7 DEF Remembered
      <3>3. Types(m)' <=> Types(m)
        BY <2>1, <2>3, <2>7, <3>2, TypedBefore, SilentBefore DEF Types
      <3>4. NoneOf(submitting, m) /\ ~LastStarts(submitting, m) /\ ~LastStops(submitting, m)
        BY <1>3, EmptyIsLines DEF NoneOf, LastStarts, LastStops
      <3>5. NoneOf(submitting', m)
        BY <1>1, <1>2, <1>3, <2>7, NoticesSay, ConcatSays DEF on, off
      <3>6. PendingIsTrue(m) /\ SaidIsTrue(m)
        BY DEF NoticeInv
      <3>7. PendingIsTrue(m)'
        BY <1>3, <3>1, <3>3, <3>4, <3>5, <3>6 DEF PendingIsTrue
      <3>8. SaidIsTrue(m)'
        BY <1>3, <3>1, <3>3, <3>5, <3>6 DEF SaidIsTrue
      <3> QED
        BY <3>7, <3>8
    <2> QED
      BY <2>4, <2>5, <2>6, <2>7
  <1> QED
    BY <1>5, <1>6 DEF NoticeInv

(* A notice is submitted, or dropped by the full channel.                  *)
LEMMA NoticeInvSubmits ==
  ASSUME TypingInv, NoticeInv, SubmitNotice
  PROVE  NoticeInv'
  <1> DEFINE w == Head(submitting)
             next == Tail(submitting)
  <1>1. /\ submitting \in Seq(Work) /\ submitting # <<>> /\ work \in Seq(Work)
        /\ fate \in [Members -> {"void", "pending", "said", "overtaken"}]
    BY DEF SubmitNotice, TypingInv, TypingTypeOK
  <1>2. /\ w \in Work /\ w = submitting[1] /\ next \in Seq(Work) /\ Len(submitting) \in Nat
        /\ Len(submitting) >= 1 /\ Len(next) = Len(submitting) - 1
        /\ \A i \in 1..(Len(submitting) - 1) : next[i] = submitting[i + 1]
    BY <1>1, TailIs
  <1>3. /\ Submit(w) /\ submitting' = next /\ UNCHANGED <<rooms, said>>
        /\ fate' = IF Len(work) >= WorkBuffer /\ Newest(w, next)
                   THEN [fate EXCEPT ![w.member] = "void"] ELSE fate
    BY DEF SubmitNotice
  <1>4. /\ \A i \in 1..Len(submitting) : submitting[i].diffed
        /\ \A i \in 1..Len(work) : ~work[i].diffed => work[i].typing
    BY DEF NoticeInv, KeepAlivesAnnounce
  <1>5. \A n : /\ NoneOf(submitting, n) => NoneOf(next, n) /\ w.member # n
               /\ LastStarts(submitting, n) =>
                    \/ LastStarts(next, n)
                    \/ w.diffed /\ w.member = n /\ w.typing /\ NoChange(next, n)
               /\ LastStops(submitting, n) =>
                    \/ LastStops(next, n)
                    \/ w.diffed /\ w.member = n /\ ~w.typing /\ NoneOf(next, n)
    BY <1>1, TakeHead
  <1> HIDE DEF w, next
  <1>6. w.diffed /\ \A i \in 1..Len(next) : next[i].diffed
    BY <1>2, <1>4
  <1>7. \A n : NoChange(next, n) <=> NoneOf(next, n)
    BY <1>6 DEF NoChange, NoneOf
  <1>8. Newest(w, next) <=> NoChange(next, w.member)
    BY <1>2, <1>6, NewestIs
  <1>9. Len(work) \in Nat /\ WorkBuffer \in Nat /\ w.member \in Members
    BY <1>1, <1>2, TypingAssumption DEF Work
  <1>10. ASSUME NEW m \in Members PROVE PendingIsTrue(m) /\ SaidIsTrue(m) /\ (Types(m)' <=> Types(m))
    BY <1>3 DEF NoticeInv, Types
  <1>11. CASE Len(work) < WorkBuffer
    <2>1. work' = Append(work, w) /\ fate' = fate
      BY <1>3, <1>9, <1>11 DEF Submit
    <2>2. ASSUME NEW m \in Members PROVE PendingIsTrue(m)' /\ SaidIsTrue(m)'
      <3>1. CASE w.member = m
        <4>1. ~NoneOf(submitting, m)
          BY <1>5, <3>1
        <4>2. w.typing => LastStarts(work', m)
          BY <1>1, <1>2, <1>6, <2>1, <3>1, AppendChange
        <4>3. ~w.typing => LastStops(work', m)
          BY <1>1, <1>2, <1>6, <2>1, <3>1, AppendChange
        <4>4. PendingIsTrue(m)'
          BY <1>3, <1>5, <1>7, <1>10, <2>1, <4>1, <4>2, <4>3 DEF PendingIsTrue
        <4>5. SaidIsTrue(m)'
          BY <1>10, <2>1, <4>1 DEF SaidIsTrue
        <4> QED
          BY <4>4, <4>5
      <3>2. CASE w.member # m
        <4>1. /\ NoneOf(work, m) => NoneOf(work', m)
              /\ NoChange(work, m) => NoChange(work', m)
              /\ LastStarts(work, m) => LastStarts(work', m)
              /\ LastStops(work, m) => LastStops(work', m)
          BY <1>1, <1>2, <2>1, <3>2, AppendOther
        <4>2. PendingIsTrue(m)'
          BY <1>3, <1>5, <1>10, <2>1, <3>2, <4>1 DEF PendingIsTrue
        <4>3. SaidIsTrue(m)'
          BY <1>3, <1>5, <1>10, <2>1, <4>1 DEF SaidIsTrue
        <4> QED
          BY <4>2, <4>3
      <3> QED
        BY <3>1, <3>2
    <2>3. KeepAlivesAnnounce'
      <3>1. /\ Len(work') = Len(work) + 1
            /\ (\A i \in 1..Len(work) : work'[i] = work[i]) /\ work'[Len(work) + 1] = w
        BY <1>1, <1>2, <2>1, AppendIs
      <3>2. ASSUME NEW i \in 1..Len(work'), ~work'[i].diffed PROVE work'[i].typing
        <4>1. i \in 1..Len(work)
          BY <1>6, <1>9, <3>1, <3>2
        <4> QED
          BY <1>4, <3>1, <3>2, <4>1
      <3> QED
        BY <1>3, <1>6, <3>2 DEF KeepAlivesAnnounce
    <2> QED
      BY <2>2, <2>3 DEF NoticeInv
  <1>12. CASE ~(Len(work) < WorkBuffer)
    <2>1. /\ work' = work
          /\ fate' = IF Newest(w, next) THEN [fate EXCEPT ![w.member] = "void"] ELSE fate
      BY <1>3, <1>9, <1>12 DEF Submit
    <2>2. ASSUME NEW m \in Members PROVE PendingIsTrue(m)' /\ SaidIsTrue(m)'
      <3>1. CASE w.member = m /\ Newest(w, next)
        <4>1. fate'[m] = "void"
          BY <1>1, <2>1, <3>1
        <4> QED
          BY <4>1 DEF PendingIsTrue, SaidIsTrue
      <3>2. CASE ~(w.member = m /\ Newest(w, next))
        <4>1. fate'[m] = fate[m]
          BY <1>1, <2>1, <3>2
        <4>2. ~(w.member = m /\ NoChange(next, m))
          BY <1>8, <3>2
        <4>3. PendingIsTrue(m)'
          BY <1>3, <1>5, <1>7, <1>10, <2>1, <4>1, <4>2 DEF PendingIsTrue
        <4>4. SaidIsTrue(m)'
          BY <1>3, <1>5, <1>10, <2>1, <4>1 DEF SaidIsTrue
        <4> QED
          BY <4>3, <4>4
      <3> QED
        BY <3>1, <3>2
    <2>3. KeepAlivesAnnounce'
      BY <1>3, <1>4, <1>6, <2>1 DEF KeepAlivesAnnounce
    <2> QED
      BY <2>2, <2>3 DEF NoticeInv
  <1> QED
    BY <1>11, <1>12

(* A keep-alive is submitted: behind a stop it overtakes.                  *)
LEMMA NoticeInvReannounces ==
  ASSUME TypingInv, NoticeInv, Reannounce
  PROVE  NoticeInv'
  <1> DEFINE h == Head(due)
             w == [member |-> h, typing |-> TRUE, diffed |-> FALSE]
  <1>1. /\ due \in Seq(Members) /\ due # <<>> /\ work \in Seq(Work) /\ submitting \in Seq(Work)
        /\ fate \in [Members -> {"void", "pending", "said", "overtaken"}]
    BY DEF Reannounce, TypingInv, TypingTypeOK
  <1>2. h \in Members
    BY <1>1, TailIs
  <1> HIDE DEF h
  <1>3. w \in Work /\ w.member = h /\ w.typing /\ ~w.diffed
    BY <1>2 DEF Work
  <1>4. /\ Submit(w) /\ UNCHANGED <<rooms, submitting, said>>
        /\ fate' = IF /\ Len(work) < WorkBuffer /\ ~Types(h) /\ fate[h] \in {"pending", "said"}
                      /\ \A i \in DOMAIN submitting : submitting[i].member # h
                   THEN [fate EXCEPT ![h] = "overtaken"] ELSE fate
    BY DEF Reannounce, h
  <1> HIDE DEF w
  <1>5. (\A i \in DOMAIN submitting : submitting[i].member # h) <=> NoneOf(submitting, h)
    BY <1>1 DEF NoneOf
  <1>6. Len(work) \in Nat /\ WorkBuffer \in Nat
    BY <1>1, TypingAssumption
  <1>7. ASSUME NEW m \in Members PROVE PendingIsTrue(m) /\ SaidIsTrue(m) /\ (Types(m)' <=> Types(m))
    BY <1>4 DEF NoticeInv, Types
  <1>8. /\ \A i \in 1..Len(submitting) : submitting[i].diffed
        /\ \A i \in 1..Len(work) : ~work[i].diffed => work[i].typing
    BY DEF NoticeInv, KeepAlivesAnnounce
  <1>9. CASE Len(work) < WorkBuffer
    <2>1. work' = Append(work, w)
      BY <1>4, <1>9 DEF Submit
    <2>2. ASSUME NEW m \in Members PROVE PendingIsTrue(m)' /\ SaidIsTrue(m)'
      <3>1. CASE m # h
        <4>1. /\ NoneOf(work, m) => NoneOf(work', m)
              /\ NoChange(work, m) => NoChange(work', m)
              /\ LastStarts(work, m) => LastStarts(work', m)
              /\ LastStops(work, m) => LastStops(work', m)
          BY <1>1, <1>3, <2>1, <3>1, AppendOther
        <4>2. fate'[m] = fate[m]
          BY <1>1, <1>4, <3>1
        <4>3. PendingIsTrue(m)'
          BY <1>4, <1>7, <4>1, <4>2 DEF PendingIsTrue
        <4>4. SaidIsTrue(m)'
          BY <1>4, <1>7, <4>1, <4>2 DEF SaidIsTrue
        <4> QED
          BY <4>3, <4>4
      <3>2. CASE m = h
        <4>1. /\ NoChange(work, m) => NoChange(work', m)
              /\ LastStarts(work, m) => LastStarts(work', m)
          BY <1>1, <1>3, <2>1, AppendKeepAlive
        <4>2. CASE Types(m)
          <5>1. fate'[m] = fate[m]
            BY <1>4, <3>2, <4>2
          <5>2. PendingIsTrue(m)'
            BY <1>4, <1>7, <4>1, <4>2, <5>1 DEF PendingIsTrue
          <5>3. SaidIsTrue(m)'
            BY <1>4, <1>7, <4>1, <4>2, <5>1 DEF SaidIsTrue
          <5> QED
            BY <5>2, <5>3
        <4>3. CASE ~Types(m) /\ NoneOf(submitting, m)
          <5>1. fate'[m] # "pending" /\ fate'[m] # "said"
            BY <1>1, <1>2, <1>4, <1>5, <1>9, <3>2, <4>3
          <5> QED
            BY <5>1 DEF PendingIsTrue, SaidIsTrue
        <4>4. CASE ~Types(m) /\ ~NoneOf(submitting, m)
          <5>1. fate'[m] = fate[m]
            BY <1>4, <1>5, <3>2, <4>4
          <5>2. PendingIsTrue(m)'
            BY <1>4, <1>7, <4>4, <5>1 DEF PendingIsTrue
          <5>3. SaidIsTrue(m)'
            BY <1>7, <4>4, <5>1 DEF SaidIsTrue
          <5> QED
            BY <5>2, <5>3
        <4> QED
          BY <4>2, <4>3, <4>4
      <3> QED
        BY <3>1, <3>2
    <2>3. KeepAlivesAnnounce'
      <3>1. /\ Len(work') = Len(work) + 1
            /\ (\A i \in 1..Len(work) : work'[i] = work[i]) /\ work'[Len(work) + 1] = w
        BY <1>1, <1>3, <2>1, AppendIs
      <3>2. ASSUME NEW i \in 1..Len(work'), ~work'[i].diffed PROVE work'[i].typing
        <4>1. CASE i \in 1..Len(work)
          BY <1>8, <3>1, <3>2, <4>1
        <4>2. CASE i = Len(work) + 1
          BY <1>3, <3>1, <4>2
        <4> QED
          BY <1>6, <3>1, <4>1, <4>2
      <3> QED
        BY <1>4, <1>8, <3>2 DEF KeepAlivesAnnounce
    <2> QED
      BY <2>2, <2>3 DEF NoticeInv
  <1>10. CASE ~(Len(work) < WorkBuffer)
    <2>1. work' = work /\ fate' = fate
      BY <1>4, <1>10 DEF Submit
    <2>2. ASSUME NEW m \in Members PROVE PendingIsTrue(m)' /\ SaidIsTrue(m)'
      BY <1>4, <1>7, <2>1 DEF PendingIsTrue, SaidIsTrue
    <2>3. KeepAlivesAnnounce'
      BY <1>4, <1>8, <2>1 DEF KeepAlivesAnnounce
    <2> QED
      BY <2>2, <2>3 DEF NoticeInv
  <1> QED
    BY <1>9, <1>10

(* push: the newest change is said or fails, and nothing older is counted. *)
LEMMA NoticeInvPushes ==
  ASSUME TypingInv, NoticeInv, NEW reached \in BOOLEAN, Push(reached)
  PROVE  NoticeInv'
  <1> DEFINE w == Head(work)
             next == Tail(work)
  <1>1. /\ work \in Seq(Work) /\ work # <<>> /\ submitting \in Seq(Work)
        /\ fate \in [Members -> {"void", "pending", "said", "overtaken"}]
        /\ said \in [Members -> {"nothing", "start", "stop"}]
    BY DEF Push, TypingInv, TypingTypeOK
  <1>2. /\ w \in Work /\ w = work[1] /\ next \in Seq(Work) /\ Len(work) \in Nat
        /\ Len(work) >= 1 /\ Len(next) = Len(work) - 1
        /\ \A i \in 1..(Len(work) - 1) : next[i] = work[i + 1]
    BY <1>1, TailIs
  <1>3. /\ work' = next /\ UNCHANGED <<rooms, submitting>>
        /\ said' = IF reached THEN [said EXCEPT ![w.member] = IF w.typing THEN "start" ELSE "stop"]
                   ELSE said
        /\ fate' = IF Newest(w, next \o submitting) /\ fate[w.member] = "pending"
                   THEN [fate EXCEPT ![w.member] = IF reached THEN "said" ELSE "void"]
                   ELSE fate
    BY DEF Push
  <1>4. \A n : /\ NoneOf(work, n) => NoneOf(next, n) /\ w.member # n
               /\ NoChange(work, n) => NoChange(next, n) /\ ~(w.diffed /\ w.member = n)
               /\ LastStarts(work, n) =>
                    \/ LastStarts(next, n)
                    \/ w.diffed /\ w.member = n /\ w.typing /\ NoChange(next, n)
               /\ LastStops(work, n) =>
                    \/ LastStops(next, n)
                    \/ w.diffed /\ w.member = n /\ ~w.typing /\ NoneOf(next, n)
    BY <1>1, TakeHead
  <1>5. /\ \A i \in 1..Len(submitting) : submitting[i].diffed
        /\ \A i \in 1..Len(work) : ~work[i].diffed => work[i].typing
    BY DEF NoticeInv, KeepAlivesAnnounce
  <1> HIDE DEF w, next
  <1>6. \A n : NoChange(submitting, n) <=> NoneOf(submitting, n)
    BY <1>5 DEF NoChange, NoneOf
  <1>7. /\ Newest(w, next \o submitting)
             <=> w.diffed /\ NoChange(next, w.member) /\ NoneOf(submitting, w.member)
        /\ w.member \in Members
    BY <1>1, <1>2, <1>6, NewestIs DEF Work
  <1>8. ~w.diffed => w.typing
    BY <1>2, <1>5
  <1>9. ASSUME NEW m \in Members PROVE PendingIsTrue(m) /\ SaidIsTrue(m) /\ (Types(m)' <=> Types(m))
    BY <1>3 DEF NoticeInv, Types
  <1>10. KeepAlivesAnnounce'
    <2>1. ASSUME NEW i \in 1..Len(next), ~next[i].diffed PROVE next[i].typing
      <3>1. i + 1 \in 1..Len(work) /\ next[i] = work[i + 1]
        BY <1>2
      <3> QED
        BY <1>5, <2>1, <3>1
    <2> QED
      BY <1>3, <1>5, <2>1 DEF KeepAlivesAnnounce
  <1>11. \A n : /\ LastStarts(next, n) \/ LastStops(next, n) => ~NoChange(next, n) /\ ~NoneOf(next, n)
                /\ LastStarts(submitting, n) \/ LastStops(submitting, n) => ~NoneOf(submitting, n)
    BY LastIsChange
  <1>12. \A n : NoneOf(next, n) => NoChange(next, n)
    BY DEF NoneOf, NoChange
  <1>13. ASSUME NEW m \in Members PROVE PendingIsTrue(m)' /\ SaidIsTrue(m)'
    <2>1. CASE w.member # m
      <3>1. fate'[m] = fate[m] /\ said'[m] = said[m]
        BY <1>1, <1>3, <1>7, <2>1
      <3>2. PendingIsTrue(m)'
        BY <1>3, <1>4, <1>9, <2>1, <3>1 DEF PendingIsTrue
      <3>3. SaidIsTrue(m)'
        BY <1>3, <1>4, <1>9, <2>1, <3>1 DEF SaidIsTrue
      <3> QED
        BY <3>2, <3>3
    <2>2. CASE w.member = m /\ fate[m] = "pending"
      <3>1. CASE Newest(w, next \o submitting)
        <4>1. fate'[m] = IF reached THEN "said" ELSE "void"
          BY <1>1, <1>3, <2>2, <3>1
        <4>2. reached => said'[m] = IF w.typing THEN "start" ELSE "stop"
          BY <1>1, <1>3, <2>2
        <4>3. NoChange(next, m) /\ NoneOf(submitting, m)
          BY <1>7, <2>2, <3>1
        <4>4. Types(m) => w.typing
          BY <1>4, <1>9, <1>11, <2>2, <4>3 DEF PendingIsTrue
        <4>5. ~Types(m) => ~w.typing /\ NoneOf(next, m)
          BY <1>4, <1>9, <1>11, <2>2, <4>3 DEF PendingIsTrue
        <4>6. PendingIsTrue(m)'
          BY <4>1 DEF PendingIsTrue
        <4>7. SaidIsTrue(m)'
          BY <1>3, <1>9, <4>1, <4>2, <4>3, <4>4, <4>5 DEF SaidIsTrue
        <4> QED
          BY <4>6, <4>7
      <3>2. CASE ~Newest(w, next \o submitting)
        <4>1. fate'[m] = "pending"
          BY <1>3, <2>2, <3>2
        <4>2. ~(w.diffed /\ NoChange(next, m) /\ NoneOf(submitting, m))
          BY <1>7, <2>2, <3>2
        <4>3. PendingIsTrue(m)'
          BY <1>3, <1>4, <1>9, <1>12, <2>2, <4>2 DEF PendingIsTrue
        <4> QED
          BY <4>1, <4>3 DEF SaidIsTrue
      <3> QED
        BY <3>1, <3>2
    <2>3. CASE w.member = m /\ fate[m] = "said"
      <3>1. fate'[m] = "said"
        BY <1>3, <2>3
      <3>2. /\ NoneOf(submitting, m) /\ NoChange(work, m) /\ Types(m) /\ said[m] = "start"
        BY <1>4, <1>9, <2>3 DEF SaidIsTrue
      <3>3. w.typing
        BY <1>4, <1>8, <2>3, <3>2
      <3>4. said'[m] = "start"
        BY <1>1, <1>3, <2>3, <3>2, <3>3
      <3> QED
        BY <1>3, <1>4, <1>9, <3>1, <3>2, <3>4 DEF PendingIsTrue, SaidIsTrue
    <2>4. CASE w.member = m /\ fate[m] # "said" /\ fate[m] # "pending"
      <3>1. fate'[m] = fate[m]
        BY <1>3, <2>4
      <3> QED
        BY <2>4, <3>1 DEF PendingIsTrue, SaidIsTrue
    <2> QED
      BY <2>1, <2>2, <2>3, <2>4
  <1> QED
    BY <1>10, <1>13 DEF NoticeInv

(* Nothing has been said at the start.                                     *)
LEMMA NoticeInvInit == StreamsInit => NoticeInv
  <1> SUFFICES ASSUME StreamsInit PROVE NoticeInv
    OBVIOUS
  <1>1. work = <<>> /\ submitting = <<>> /\ \A m \in Members : fate[m] = "void"
    BY DEF StreamsInit, TypingInit
  <1> QED
    BY <1>1, EmptyIsLines DEF NoticeInv, KeepAlivesAnnounce, PendingIsTrue, SaidIsTrue

(* Every step.                                                             *)
LEMMA NoticeInvStep ==
  ASSUME ReplicationInv, TypingInv, NoticeInv, [StreamsNext]_allStreams
  PROVE  NoticeInv'
  <1>1. ASSUME UNCHANGED <<work, submitting, rooms, said, fate>> PROVE NoticeInv'
    <2>1. KeepAlivesAnnounce'
      BY <1>1 DEF NoticeInv, KeepAlivesAnnounce
    <2>2. ASSUME NEW m \in Members PROVE PendingIsTrue(m)' /\ SaidIsTrue(m)'
      BY <1>1 DEF NoticeInv, PendingIsTrue, SaidIsTrue, Types
    <2> QED
      BY <2>1, <2>2 DEF NoticeInv
  <1>2. CASE TypingStep
    <2>1. CASE Tick \/ KeepAlive \/ RecordPoke
      BY <1>1, <2>1 DEF Tick, KeepAlive, RecordPoke
    <2> QED
      BY <1>2, <2>1, NoticeInvSubmits, NoticeInvReannounces, NoticeInvPushes DEF TypingStep
  <1>3. CASE UNCHANGED typingVars
    BY <1>1, <1>3 DEF typingVars
  <1> QED
    BY <1>2, <1>3, TypingStepOrRows, NoticeInvHandleRows

(* LastNoticeIsTrue: the last notice queued for a member says whether it   *)
(* types, for any rooms, users, batches and buffer, whenever the member's  *)
(* newest change was said and not overtaken by a keep-alive.               *)
THEOREM LastNoticeIsTrueAlways == StreamsSpec => []LastNoticeIsTrue
  <1>1. StreamsInit => StreamsInv /\ NoticeInv
    BY StreamsInvInit, NoticeInvInit
  <1>2. StreamsInv /\ NoticeInv /\ [StreamsNext]_allStreams => (StreamsInv /\ NoticeInv)'
    BY StreamsInvStep, NoticeInvStep DEF StreamsInv
  <1>3. NoticeInv => LastNoticeIsTrue
    BY DEF NoticeInv, SaidIsTrue, LastNoticeIsTrue
  <1> QED
    BY <1>1, <1>2, <1>3, PTL DEF StreamsSpec
=============================================================================
