--------------------------- MODULE Routing_proofs ---------------------------
(* Proofs about Routing.tla for every value of its constants: which server *)
(* an event or a receipt reaches, however late it is routed.               *)
EXTENDS Routing, TLAPS, SequenceTheorems, FiniteSetTheorems,
        WellFoundedInduction

-----------------------------------------------------------------------------
(* The tables, as sequences.                                               *)

Events == [kind : Kinds, by : Users, on : Users, prevs : SUBSET Nat]
Deltas == UNION {[D -> Memberships] : D \in SUBSET Users}
Groups == [prev : Nat, delta : Deltas]

(* A group hangs on an older one or on none.                               *)
Grows(gs) == gs \in Seq(Groups) /\ \A g \in 1..Len(gs) : gs[g].prev \in 0..g - 1

(* c is what Chain is for the groups gs, and StateOf what StateAt is.      *)
Edges(c, gs) == c = [g \in 0..Len(gs) |-> IF g = 0 THEN {} ELSE {g} \cup c[gs[g].prev]]

StateOf(c, gs, g) ==
  [u \in Users |->
     LET naming == {h \in c[g] : u \in DOMAIN gs[h].delta}
     IN  IF naming = {} THEN "none"
         ELSE gs[CHOOSE h \in naming : \A i \in naming : i <= h].delta[u]]

(* hs is gs with groups appended.                                          *)
Later(gs, hs) == Grows(hs) /\ Len(gs) <= Len(hs) /\ \A g \in 1..Len(gs) : hs[g] = gs[g]

(* st is the state at the group g of gs: StateAt(g), if gs is the table.   *)
Holds(gs, g, st) == \A c : Edges(c, gs) => StateOf(c, gs, g) = st

-----------------------------------------------------------------------------
(* The inductive invariant.                                                *)

(* The tables and the truth have a row for every event.                    *)
RoomShape ==
  /\ events \in Seq(Events) /\ Len(events) >= 1 /\ Grows(groups)
  /\ groupOf \in Seq(Nat) /\ Len(groupOf) = Len(events)
  /\ \A e \in 1..Len(events) : groupOf[e] \in 0..Len(groups)
  /\ before \in Seq(States) /\ Len(before) = Len(events)
  /\ after \in Seq(States) /\ Len(after) = Len(events)
  /\ current \in States /\ inRoom \in States
  /\ tips \subseteq 1..Len(events) /\ joinList \subseteq Servers
  /\ resync \in {"partial", "events", "current", "full"}

(* Every event but the first follows on older ones, and each member's      *)
(* state before it is the state after one of those.                        *)
FollowsOn ==
  \A e \in 1..Len(events) :
    /\ events[e].prevs \subseteq 1..e - 1
    /\ e # 1 => events[e].prevs # {}
    /\ e # 1 => \A u \in Users : \E p \in events[e].prevs : before[e][u] = after[p][u]

(* Once the events' state has been fetched, a group an event has is the    *)
(* state after it; once the current state has, it is the truth; and the    *)
(* join's list is there until then.                                        *)
TablesTrue ==
  /\ (resync = "full") <=> (joinList = {})
  /\ resync # "partial" =>
       \A e \in 1..Len(events) : groupOf[e] # 0 => Holds(groups, groupOf[e], after[e])
  /\ resync \in {"current", "full"} => current = inRoom

(* The room's goroutine: what it has read still holds, whatever the tables *)
(* have become.                                                            *)
ResolverShape ==
  /\ handled \in 0..Len(events) /\ routed.event \in 0..handled
  /\ pc \in {"off", "idle", "partial", "groups", "cache", "query", "current"}
  /\ group \in 0..Len(groups)
  /\ pc \notin {"off", "idle"} =>
       handled < Len(events) /\ Eligible(Event) /\ Event.prevs # {}
  /\ pc \in {"groups", "cache", "query", "current"} => joinList = {}
  /\ pc \in {"cache", "query"} => group # 0 /\ Holds(groups, group, before[handled + 1])

(* A cached answer is the answer of the query.                             *)
CacheIs(c, gs) ==
  /\ c \in Seq([group : Nat \ {0}, hosts : SUBSET Servers]) /\ Len(c) <= CacheMax
  /\ \A i \in 1..Len(c) :
       /\ c[i].group <= Len(gs)
       /\ \E st \in States : Holds(gs, c[i].group, st) /\ c[i].hosts = Hosts(st)

CacheTrue == CacheIs(cache, groups)

(* Who has stayed is in the state before the event, in the room and, while *)
(* there is a list of the join, on it.                                     *)
StayedKnown ==
  /\ stayed \in Seq(SUBSET Servers) /\ Len(stayed) = Len(events)
  /\ stayed[1] = {}
  /\ \A e \in 1..Len(events) :
       /\ stayed[e] \subseteq Hosts(before[e]) \cap Hosts(inRoom)
       /\ joinList # {} => stayed[e] \subseteq joinList

(* Between the two reads of a receipt.                                     *)
ReceiptShape ==
  rpc = "one" => stayedFor \subseteq Known /\ (joinList = {} \/ atJoin = joinList)

RoutingInv ==
  /\ RoomShape /\ FollowsOn /\ TablesTrue /\ ResolverShape /\ CacheTrue
  /\ StayedKnown /\ ReceiptShape /\ ExactIsExact /\ StableMemberReached

-----------------------------------------------------------------------------
(* Numbers.                                                                *)

(* A non-empty set of numbers has a least one,                             *)
LEMMA HasLeast ==
  ASSUME NEW I \in SUBSET Nat, I # {}
  PROVE  \E i \in I : \A j \in I : i <= j
  <1> DEFINE R == {ss \in Nat \X Nat : ss[1] < ss[2]}
  <1>1. IsWellFoundedOn(R, Nat)
    BY NatLessThanWellFounded DEF OpToRel
  <1> HIDE DEF R
  <1>2. PICK i \in I : \A j \in I : ~ (<<j, i>> \in R)
    BY <1>1, WFMin
  <1>3. \A j \in I : ~ (j < i)
    BY <1>2 DEF R
  <1> QED
    BY <1>3

(* and one with a bound a greatest.                                        *)
LEMMA HasGreatest ==
  ASSUME NEW n \in Nat, NEW I \in SUBSET (0..n), I # {}
  PROVE  \E i \in I : \A j \in I : j <= i
  <1> DEFINE B == {b \in Nat : \A j \in I : j <= b}
  <1>1. n \in B /\ B \in SUBSET Nat
    OBVIOUS
  <1>2. PICK b \in B : \A x \in B : b <= x
    BY <1>1, HasLeast
  <1>3. CASE b \in I
    BY <1>3, <1>2
  <1>4. CASE b \notin I
    <2>1. \A j \in I : j <= b /\ j # b /\ j \in Nat
      BY <1>4, <1>2
    <2>2. b \in Nat /\ b # 0
      <3>1. b \in Nat
        BY <1>2
      <3>2. PICK j \in I : TRUE
        OBVIOUS
      <3> QED
        BY <3>1, <3>2, <2>1
    <2>3. b - 1 \in B
      BY <2>1, <2>2
    <2> QED
      BY <2>2, <2>3, <1>2
  <1> QED
    BY <1>3, <1>4

-----------------------------------------------------------------------------
(* The walk of the edges.                                                  *)

(* Every table of groups has its chains.                                   *)
LEMMA ChainsExist ==
  ASSUME NEW gs, Grows(gs)
  PROVE  \E c : Edges(c, gs)
  <1> DEFINE Upto(c, n) == c = [g \in 0..n |-> IF g = 0 THEN {} ELSE {g} \cup c[gs[g].prev]]
             Bad == {n \in 0..Len(gs) : ~ \E c : Upto(c, n)}
  <1>1. Len(gs) \in Nat /\ \A g \in 1..Len(gs) : gs[g].prev \in 0..g - 1
    BY DEF Grows
  <1>2. ASSUME Bad # {} PROVE FALSE
    <2>1. Bad \in SUBSET Nat
      BY <1>1
    <2>2. PICK m \in Bad : \A j \in Bad : m <= j
      BY <1>2, <2>1, HasLeast
    <2>3. m \in 0..Len(gs) /\ ~ \E c : Upto(c, m)
      BY <2>2
    <2>4. CASE m = 0
      <3> DEFINE c == [g \in 0..0 |-> {}]
      <3>1. \A g \in 0..0 : g = 0
        OBVIOUS
      <3>2. Upto(c, 0)
        BY <3>1
      <3> QED
        BY <2>3, <2>4, <3>2
    <2>5. CASE m # 0
      <3>1. m - 1 \in 0..Len(gs) /\ m - 1 \notin Bad
        <4> HIDE DEF Bad
        <4> QED
          BY <1>1, <2>2, <2>3, <2>5
      <3> DEFINE k == m - 1
      <3>1a. k \in 0..Len(gs) /\ k \notin Bad
        BY <3>1
      <3> HIDE DEF k
      <3>1b. \E c : Upto(c, k)
        <4> HIDE DEF Upto
        <4> QED
          BY <3>1a
      <3>2. PICK c : Upto(c, m - 1)
        BY <3>1b DEF k
      <3> DEFINE d == [g \in 0..m |-> IF g = m THEN {m} \cup c[gs[m].prev] ELSE c[g]]
      <3>3. m \in Nat /\ gs[m].prev \in 0..m - 1
        BY <1>1, <2>3, <2>5
      <3>4. \A g \in 0..m - 1 : d[g] = c[g]
        BY <3>3
      <3>5. d = [g \in 0..m |-> IF g = 0 THEN {} ELSE {g} \cup d[gs[g].prev]]
        <4>1. ASSUME NEW g \in 0..m PROVE d[g] = IF g = 0 THEN {} ELSE {g} \cup d[gs[g].prev]
          <5>1. CASE g = m
            <6>1. d[g] = {m} \cup c[gs[m].prev]
              BY <5>1
            <6>2. d[gs[m].prev] = c[gs[m].prev]
              BY <3>3, <3>4
            <6> QED
              BY <6>1, <6>2, <5>1, <2>5
          <5>2. CASE g # m
            <6>1. g \in 0..m - 1
              BY <5>2, <3>3
            <6>2. d[g] = c[g]
              BY <6>1, <3>4
            <6>3. c[g] = IF g = 0 THEN {} ELSE {g} \cup c[gs[g].prev]
              <7>1. \A f : Upto(f, m - 1) =>
                      f[g] = IF g = 0 THEN {} ELSE {g} \cup f[gs[g].prev]
                BY <6>1
              <7> QED
                BY <7>1, <3>2
            <6>4. CASE g = 0
              BY <6>2, <6>3, <6>4
            <6>5. CASE g # 0
              <7>1. g \in 1..Len(gs) /\ g <= m - 1
                BY <6>5, <6>1, <2>3, <1>1
              <7>2. gs[g].prev \in 0..m - 1
                BY <7>1, <1>1, <3>3
              <7> QED
                BY <7>2, <6>2, <6>3, <6>5, <3>4
            <6> QED
              BY <6>4, <6>5
          <5> QED
            BY <5>1, <5>2
        <4> DEFINE F(f, g) == IF g = 0 THEN {} ELSE {g} \cup f[gs[g].prev]
        <4>2. \A f : f = [g \in 0..m |-> f[g]] /\ (\A g \in 0..m : f[g] = F(f, g))
                       => f = [g \in 0..m |-> F(f, g)]
          OBVIOUS
        <4>3. d = [g \in 0..m |-> d[g]]
          OBVIOUS
        <4> HIDE DEF d
        <4> QED
          BY <4>1, <4>2, <4>3
      <3>6. Upto(d, m)
        BY <3>5
      <3> QED
        BY <3>6, <2>3
    <2> QED
      BY <2>4, <2>5
  <1>3. Len(gs) \notin Bad
    BY <1>2
  <1>4. \E c : Upto(c, Len(gs))
    BY <1>3, <1>1
  <1> QED
    BY <1>4 DEF Edges

(* What the equation says at one group.                                    *)
LEMMA EdgesAt ==
  ASSUME NEW gs, NEW c, Edges(c, gs), NEW g \in 0..Len(gs)
  PROVE  /\ g = 0 => c[g] = {}
         /\ g # 0 => c[g] = {g} \cup c[gs[g].prev]
  <1>1. \A f : f = [h \in 0..Len(gs) |-> IF h = 0 THEN {} ELSE {h} \cup f[gs[h].prev]]
          => /\ g = 0 => f[g] = {}
             /\ g # 0 => f[g] = {g} \cup f[gs[g].prev]
    OBVIOUS
  <1> QED
    BY <1>1 DEF Edges

(* Chain is what it is defined to be.                                      *)
LEMMA ChainIs == Grows(groups) => Edges(Chain, groups)
  <1> SUFFICES ASSUME Grows(groups) PROVE Edges(Chain, groups)
    OBVIOUS
  <1>1. \E c : c = [g \in 0..Len(groups) |-> IF g = 0 THEN {} ELSE {g} \cup c[groups[g].prev]]
    BY ChainsExist DEF Edges
  <1> QED
    BY <1>1 DEF Edges, Chain

(* A walk finds only groups up to the one it starts from.                  *)
LEMMA ChainBelow ==
  ASSUME NEW gs, Grows(gs), NEW c, Edges(c, gs)
  PROVE  \A g \in 0..Len(gs) : c[g] \subseteq 1..g
  <1> DEFINE Bad == {g \in 0..Len(gs) : ~ (c[g] \subseteq 1..g)}
  <1>1. Len(gs) \in Nat /\ \A g \in 1..Len(gs) : gs[g].prev \in 0..g - 1
    BY DEF Grows
  <1>2. ASSUME Bad # {} PROVE FALSE
    <2>1. Bad \in SUBSET Nat
      BY <1>1
    <2>2. PICK m \in Bad : \A j \in Bad : m <= j
      BY <1>2, <2>1, HasLeast
    <2>3. m \in 0..Len(gs) /\ ~ (c[m] \subseteq 1..m)
      BY <2>2
    <2>4. (m = 0 => c[m] = {}) /\ (m # 0 => c[m] = {m} \cup c[gs[m].prev])
      BY <2>3, EdgesAt
    <2>5. m # 0
      BY <2>3, <2>4
    <2> DEFINE p == gs[m].prev
    <2>6. p \in 0..m - 1 /\ p \in 0..Len(gs) /\ p < m
      BY <1>1, <2>3, <2>5
    <2> HIDE DEF p
    <2>7. p \notin Bad
      <3> HIDE DEF Bad
      <3> QED
        BY <2>2, <2>3, <2>6
    <2>8. c[p] \subseteq 1..p
      BY <2>6, <2>7
    <2>9. c[m] = {m} \cup c[p]
      BY <2>4, <2>5 DEF p
    <2> QED
      BY <2>3, <2>5, <2>6, <2>8, <2>9
  <1> QED
    BY <1>2

(* Groups appended later change no walk.                                   *)
LEMMA ChainKept ==
  ASSUME NEW gs, Grows(gs), NEW c, Edges(c, gs), NEW hs, Grows(hs), NEW d, Edges(d, hs),
         Len(gs) <= Len(hs), \A g \in 1..Len(gs) : hs[g] = gs[g]
  PROVE  \A g \in 0..Len(gs) : d[g] = c[g]
  <1> DEFINE Bad == {g \in 0..Len(gs) : d[g] # c[g]}
  <1>1. Len(gs) \in Nat /\ Len(hs) \in Nat /\ \A g \in 1..Len(gs) : gs[g].prev \in 0..g - 1
    BY DEF Grows
  <1>2. ASSUME Bad # {} PROVE FALSE
    <2>1. Bad \in SUBSET Nat
      BY <1>1
    <2>2. PICK m \in Bad : \A j \in Bad : m <= j
      BY <1>2, <2>1, HasLeast
    <2>3. m \in 0..Len(gs) /\ d[m] # c[m]
      BY <2>2
    <2>4. (m = 0 => c[m] = {}) /\ (m # 0 => c[m] = {m} \cup c[gs[m].prev])
      BY <2>3, EdgesAt
    <2>5. m \in 0..Len(hs)
      BY <1>1, <2>3
    <2>6. (m = 0 => d[m] = {}) /\ (m # 0 => d[m] = {m} \cup d[hs[m].prev])
      BY <2>5, EdgesAt
    <2>7. m # 0
      BY <2>3, <2>4, <2>6
    <2> DEFINE p == gs[m].prev
    <2>8. p \in 0..m - 1 /\ p \in 0..Len(gs) /\ p < m
      BY <1>1, <2>3, <2>7
    <2>9. hs[m].prev = p
      BY <1>1, <2>3, <2>7
    <2> HIDE DEF p
    <2>10. p \notin Bad
      <3> HIDE DEF Bad
      <3> QED
        BY <2>2, <2>3, <2>8
    <2>11. d[p] = c[p]
      BY <2>8, <2>10
    <2> QED
      BY <2>3, <2>4, <2>6, <2>7, <2>9, <2>11 DEF p
  <1> QED
    BY <1>2

(* so the state at a group never changes,                                  *)
LEMMA StateKept ==
  ASSUME NEW gs, Grows(gs), NEW c, Edges(c, gs), NEW hs, Grows(hs), NEW d, Edges(d, hs),
         Len(gs) <= Len(hs), \A g \in 1..Len(gs) : hs[g] = gs[g],
         NEW g \in 0..Len(gs)
  PROVE  StateOf(d, hs, g) = StateOf(c, gs, g)
  <1>1. d[g] = c[g]
    BY ChainKept
  <1>2. c[g] \subseteq 1..g
    BY ChainBelow
  <1>3. \A h \in c[g] : hs[h] = gs[h]
    <2>1. Len(gs) \in Nat
      BY DEF Grows
    <2> QED
      BY <1>2, <2>1
  <1>4. ASSUME NEW u \in Users
        PROVE  StateOf(d, hs, g)[u] = StateOf(c, gs, g)[u]
    <2> DEFINE N == {h \in c[g] : u \in DOMAIN gs[h].delta}
               M == {h \in d[g] : u \in DOMAIN hs[h].delta}
               x == CHOOSE h \in N : \A i \in N : i <= h
    <2>1. M = N
      BY <1>1, <1>3
    <2>2. StateOf(c, gs, g)[u] = IF N = {} THEN "none" ELSE gs[x].delta[u]
      BY DEF StateOf
    <2>3. StateOf(d, hs, g)[u] =
            IF M = {} THEN "none" ELSE hs[CHOOSE h \in M : \A i \in M : i <= h].delta[u]
      BY DEF StateOf
    <2>4. ASSUME N # {} PROVE x \in N
      <3>1. N \in SUBSET (0..g) /\ g \in Nat
        BY <1>2
      <3>2. \E h \in N : \A i \in N : i <= h
        <4> HIDE DEF N
        <4> QED
          BY <3>1, <2>4, HasGreatest
      <3> HIDE DEF N
      <3> QED
        BY <3>2
    <2>5. N # {} => hs[x] = gs[x]
      <3> HIDE DEF x
      <3> QED
        BY <2>4, <1>3
    <2> HIDE DEF N, M
    <2> QED
      BY <2>1, <2>2, <2>3, <2>5
  <1> QED
    BY <1>4 DEF StateOf

(* is what a group that stands alone says,                                 *)
LEMMA StateOfFull ==
  ASSUME NEW gs, Grows(gs), NEW c, Edges(c, gs), NEW g \in 1..Len(gs),
         gs[g].prev = 0, gs[g].delta \in States
  PROVE  StateOf(c, gs, g) = gs[g].delta
  <1>1. Len(gs) \in Nat /\ g \in 0..Len(gs) /\ 0 \in 0..Len(gs) /\ g # 0
    BY DEF Grows
  <1>2. c[g] = {g} \cup c[0] /\ c[0] = {}
    BY <1>1, EdgesAt
  <1>3. ASSUME NEW u \in Users
        PROVE  StateOf(c, gs, g)[u] = gs[g].delta[u]
    <2> DEFINE N == {h \in c[g] : u \in DOMAIN gs[h].delta}
    <2>1. N = {g}
      BY <1>2 DEF States
    <2>2. StateOf(c, gs, g)[u] =
            IF N = {} THEN "none" ELSE gs[CHOOSE h \in N : \A i \in N : i <= h].delta[u]
      BY DEF StateOf
    <2>3. (CHOOSE h \in {g} : \A i \in {g} : i <= h) = g
      BY <1>1
    <2> HIDE DEF N
    <2> QED
      BY <2>1, <2>2, <2>3
  <1> QED
    BY <1>3 DEF StateOf, States

(* and else the older group's with the changes.                            *)
LEMMA StateOfStep ==
  ASSUME NEW gs, Grows(gs), NEW c, Edges(c, gs), NEW g \in 1..Len(gs)
  PROVE  StateOf(c, gs, g) = With(StateOf(c, gs, gs[g].prev), gs[g].delta)
  <1> DEFINE p == gs[g].prev
  <1>1. Len(gs) \in Nat /\ g \in 0..Len(gs) /\ g # 0 /\ p \in 0..g - 1 /\ p \in 0..Len(gs)
    BY DEF Grows
  <1>2. c[g] = {g} \cup c[p]
    BY <1>1, EdgesAt
  <1>3. c[p] \subseteq 1..p
    BY <1>1, ChainBelow
  <1> HIDE DEF p
  <1>4. ASSUME NEW u \in Users
        PROVE  StateOf(c, gs, g)[u] = With(StateOf(c, gs, p), gs[g].delta)[u]
    <2> DEFINE N == {h \in c[g] : u \in DOMAIN gs[h].delta}
               M == {h \in c[p] : u \in DOMAIN gs[h].delta}
    <2>1. StateOf(c, gs, g)[u] =
            IF N = {} THEN "none" ELSE gs[CHOOSE h \in N : \A i \in N : i <= h].delta[u]
      BY DEF StateOf
    <2>2. StateOf(c, gs, p)[u] =
            IF M = {} THEN "none" ELSE gs[CHOOSE h \in M : \A i \in M : i <= h].delta[u]
      BY DEF StateOf
    <2>3. With(StateOf(c, gs, p), gs[g].delta)[u] =
            IF u \in DOMAIN gs[g].delta THEN gs[g].delta[u] ELSE StateOf(c, gs, p)[u]
      BY DEF With
    <2>4. CASE u \in DOMAIN gs[g].delta
      <3>1. g \in N /\ \A i \in N : i <= g
        BY <1>1, <1>2, <1>3, <2>4
      <3>2. N \subseteq Nat
        BY <1>1, <1>2, <1>3
      <3> HIDE DEF N
      <3>3. (CHOOSE h \in N : \A i \in N : i <= h) = g
        <4> DEFINE x == CHOOSE h \in N : \A i \in N : i <= h
        <4>1. x \in N /\ \A i \in N : i <= x
          BY <3>1
        <4> HIDE DEF x
        <4>2. x = g
          BY <4>1, <3>1, <3>2
        <4> QED
          BY <4>2 DEF x
      <3> QED
        BY <2>1, <2>3, <2>4, <3>1, <3>3
    <2>5. CASE u \notin DOMAIN gs[g].delta
      <3>1. N = M
        BY <1>2, <2>5
      <3> HIDE DEF N, M
      <3> QED
        BY <3>1, <2>1, <2>2, <2>3, <2>5
    <2> QED
      BY <2>4, <2>5
  <1> QED
    BY <1>4 DEF StateOf, With, p

(* It is a state.                                                          *)
LEMMA StateOfType ==
  ASSUME NEW gs, Grows(gs), NEW c, Edges(c, gs), NEW g \in 0..Len(gs)
  PROVE  StateOf(c, gs, g) \in States
  <1>1. c[g] \subseteq 1..g /\ Len(gs) \in Nat
    BY ChainBelow DEF Grows
  <1>2. ASSUME NEW u \in Users PROVE StateOf(c, gs, g)[u] \in Memberships
    <2> DEFINE N == {h \in c[g] : u \in DOMAIN gs[h].delta}
               x == CHOOSE h \in N : \A i \in N : i <= h
    <2>1. StateOf(c, gs, g)[u] = IF N = {} THEN "none" ELSE gs[x].delta[u]
      BY DEF StateOf
    <2>2. ASSUME N # {} PROVE x \in N
      <3>1. N \in SUBSET (0..g) /\ g \in Nat
        BY <1>1
      <3>2. \E h \in N : \A i \in N : i <= h
        <4> HIDE DEF N
        <4> QED
          BY <3>1, <2>2, HasGreatest
      <3> HIDE DEF N
      <3> QED
        BY <3>2
    <2>3. ASSUME N # {} PROVE gs[x].delta[u] \in Memberships
      <3> HIDE DEF x
      <3>1. x \in 1..Len(gs) /\ u \in DOMAIN gs[x].delta
        BY <2>2, <2>3, <1>1
      <3>2. gs[x].delta \in Deltas
        <4>1. gs[x] \in Groups
          BY <3>1 DEF Grows
        <4> QED
          BY <4>1 DEF Groups
      <3>3. PICK D \in SUBSET Users : gs[x].delta \in [D -> Memberships]
        BY <3>2 DEF Deltas
      <3> QED
        BY <3>1, <3>3
    <2> HIDE DEF N, x
    <2> QED
      BY <2>1, <2>3 DEF Memberships
  <1> QED
    BY <1>2 DEF StateOf, States

-----------------------------------------------------------------------------
(* Tables of groups that grow.                                             *)

(* The walk is the same whoever makes it.                                  *)
LEMMA HoldsOne ==
  ASSUME NEW gs, Grows(gs), NEW c, Edges(c, gs), NEW g \in 0..Len(gs)
  PROVE  Holds(gs, g, StateOf(c, gs, g))
  <1> SUFFICES ASSUME NEW d, Edges(d, gs) PROVE StateOf(d, gs, g) = StateOf(c, gs, g)
    BY DEF Holds
  <1>1. Len(gs) <= Len(gs)
    BY DEF Grows
  <1> QED
    BY <1>1, StateKept

LEMMA HoldsLater ==
  ASSUME NEW gs, Grows(gs), NEW hs, Later(gs, hs), NEW g \in 0..Len(gs), NEW st,
         Holds(gs, g, st)
  PROVE  Holds(hs, g, st)
  <1> SUFFICES ASSUME NEW d, Edges(d, hs) PROVE StateOf(d, hs, g) = st
    BY DEF Holds
  <1>1. PICK c : Edges(c, gs)
    BY ChainsExist
  <1>2. StateOf(c, gs, g) = st
    BY <1>1 DEF Holds
  <1> QED
    BY <1>1, <1>2, StateKept DEF Later

LEMMA LaterTwice ==
  ASSUME NEW fs, Grows(fs), NEW gs, Later(fs, gs), NEW hs, Later(gs, hs)
  PROVE  Later(fs, hs)
  <1>1. Len(fs) \in Nat /\ Len(gs) \in Nat /\ Len(hs) \in Nat
    BY DEF Later, Grows
  <1> QED
    BY <1>1 DEF Later

LEMMA LaterSame ==
  ASSUME NEW gs, Grows(gs)
  PROVE  Later(gs, gs)
  BY DEF Later, Grows

(* A group appended to a table, hanging on an older one or on none.        *)
LEMMA AppendGrows ==
  ASSUME NEW gs, Grows(gs), NEW x \in Groups, x.prev \in 0..Len(gs)
  PROVE  Later(gs, Append(gs, x)) /\ Len(Append(gs, x)) = Len(gs) + 1
         /\ Append(gs, x)[Len(gs) + 1] = x
  <1> DEFINE hs == Append(gs, x)
  <1>1. gs \in Seq(Groups) /\ Len(gs) \in Nat
    BY DEF Grows
  <1>2. hs \in Seq(Groups) /\ Len(hs) = Len(gs) + 1 /\ hs[Len(gs) + 1] = x
        /\ \A g \in 1..Len(gs) : hs[g] = gs[g]
    BY <1>1
  <1> HIDE DEF hs
  <1>3. \A g \in 1..Len(hs) : hs[g].prev \in 0..g - 1
    <2> TAKE g \in 1..Len(hs)
    <2>1. CASE g = Len(gs) + 1
      BY <2>1, <1>1, <1>2
    <2>2. CASE g # Len(gs) + 1
      <3>1. g \in 1..Len(gs)
        BY <2>2, <1>1, <1>2
      <3> QED
        BY <3>1, <1>2 DEF Grows
    <2> QED
      BY <2>1, <2>2
  <1>4. Grows(hs)
    BY <1>2, <1>3 DEF Grows
  <1>5. Later(gs, hs)
    BY <1>1, <1>2, <1>4 DEF Later
  <1> QED
    BY <1>2, <1>5 DEF hs

LEMMA StatesAreDeltas == States \subseteq Deltas
  <1> SUFFICES ASSUME NEW st \in States PROVE st \in Deltas
    OBVIOUS
  <1>1. st \in [Users -> Memberships] /\ Users \in SUBSET Users
    BY DEF States
  <1> QED
    BY <1>1 DEF Deltas

LEMMA AppendFull ==
  ASSUME NEW gs, Grows(gs), NEW st \in States
  PROVE  LET hs == Append(gs, [prev |-> 0, delta |-> st])
         IN  Later(gs, hs) /\ Len(hs) = Len(gs) + 1 /\ Holds(hs, Len(hs), st)
  <1> DEFINE x == [prev |-> 0, delta |-> st]
             hs == Append(gs, x)
  <1>1. x \in Groups /\ x.prev \in 0..Len(gs) /\ Len(gs) \in Nat
    BY StatesAreDeltas DEF Groups, Grows
  <1> HIDE DEF x
  <1>2. Later(gs, hs) /\ Len(hs) = Len(gs) + 1 /\ hs[Len(gs) + 1] = x
    BY <1>1, AppendGrows
  <1> HIDE DEF hs
  <1>3. Len(hs) \in 1..Len(hs) /\ hs[Len(hs)].prev = 0 /\ hs[Len(hs)].delta = st
    BY <1>1, <1>2 DEF x
  <1>4. Holds(hs, Len(hs), st)
    BY <1>2, <1>3, StateOfFull DEF Holds, Later
  <1> QED
    BY <1>2, <1>4 DEF hs, x

LEMMA AppendDelta ==
  ASSUME NEW gs, Grows(gs), NEW at \in 1..Len(gs), NEW delta \in Deltas, NEW st, Holds(gs, at, st)
  PROVE  LET hs == Append(gs, [prev |-> at, delta |-> delta])
         IN  Later(gs, hs) /\ Len(hs) = Len(gs) + 1 /\ Holds(hs, Len(hs), With(st, delta))
  <1> DEFINE x == [prev |-> at, delta |-> delta]
             hs == Append(gs, x)
  <1>1. x \in Groups /\ x.prev \in 0..Len(gs) /\ Len(gs) \in Nat /\ at \in 0..Len(gs)
    BY DEF Groups, Grows
  <1> HIDE DEF x
  <1>2. Later(gs, hs) /\ Len(hs) = Len(gs) + 1 /\ hs[Len(gs) + 1] = x
    BY <1>1, AppendGrows
  <1> HIDE DEF hs
  <1>3. Len(hs) \in 1..Len(hs) /\ hs[Len(hs)].prev = at /\ hs[Len(hs)].delta = delta
    BY <1>1, <1>2 DEF x
  <1>4. Holds(hs, at, st)
    BY <1>1, <1>2, HoldsLater
  <1>5. Holds(hs, Len(hs), With(st, delta))
    BY <1>2, <1>3, <1>4, StateOfStep DEF Holds, Later
  <1> QED
    BY <1>2, <1>5 DEF hs, x

(* StateAt in these terms.                                                 *)
LEMMA StateAtHolds ==
  ASSUME Grows(groups), NEW g \in 0..Len(groups)
  PROVE  Holds(groups, g, StateAt(g)) /\ StateAt(g) \in States
  <1>1. Edges(Chain, groups)
    BY ChainIs
  <1>2. StateAt(g) = StateOf(Chain, groups, g)
    BY DEF StateAt, StateOf
  <1> QED
    BY <1>1, <1>2, HoldsOne, StateOfType

LEMMA StateAtIs ==
  ASSUME Grows(groups), NEW g \in 0..Len(groups), NEW st, Holds(groups, g, st)
  PROVE  StateAt(g) = st
  <1>1. Edges(Chain, groups)
    BY ChainIs
  <1>2. StateAt(g) = StateOf(Chain, groups, g)
    BY DEF StateAt, StateOf
  <1> QED
    BY <1>1, <1>2 DEF Holds

-----------------------------------------------------------------------------
(* States of the members.                                                  *)

LEMMA ChangeType ==
  ASSUME NEW kind, NEW on \in Users
  PROVE  Change(kind, on) \in Deltas
  <1>1. \A m \in Memberships : [u \in {on} |-> m] \in [{on} -> Memberships]
    OBVIOUS
  <1>2. [u \in {} |-> "none"] \in [{} -> Memberships]
    OBVIOUS
  <1>3. {on} \in SUBSET Users /\ {} \in SUBSET Users
    OBVIOUS
  <1>4. (\A f \in [{on} -> Memberships] : f \in Deltas) /\ (\A f \in [{} -> Memberships] : f \in Deltas)
    BY <1>3 DEF Deltas
  <1>5. {"join", "leave", "invite"} \subseteq Memberships
    BY DEF Memberships
  <1> QED
    BY <1>1, <1>2, <1>4, <1>5 DEF Change

LEMMA WithType ==
  ASSUME NEW st \in States, NEW delta \in Deltas
  PROVE  With(st, delta) \in States
  <1>1. PICK D \in SUBSET Users : delta \in [D -> Memberships]
    BY DEF Deltas
  <1> QED
    BY <1>1 DEF With, States

LEMMA WithNothing ==
  ASSUME NEW st \in States, NEW delta, DOMAIN delta = {}
  PROVE  With(st, delta) = st
  BY DEF With, States

LEMMA PickedType ==
  ASSUME NEW S, NEW st, \A x \in S : st[x] \in States, NEW pick \in [Users -> S]
  PROVE  Picked(st, pick) \in States /\ \A u \in Users : Picked(st, pick)[u] = st[pick[u]][u]
  <1>1. \A u \in Users : st[pick[u]][u] \in Memberships
    BY DEF States
  <1> QED
    BY <1>1 DEF Picked, States

LEMMA PickedSame ==
  ASSUME NEW S, NEW st, NEW tt, \A x \in S : st[x] = tt[x], NEW pick \in [Users -> S]
  PROVE  Picked(st, pick) = Picked(tt, pick)
  BY DEF Picked

(* One state for all of them is the state picked.                          *)
LEMMA PickedOne ==
  ASSUME NEW S, NEW st, NEW one \in States, \A x \in S : st[x] = one, NEW pick \in [Users -> S]
  PROVE  Picked(st, pick) = one
  BY DEF Picked, States

LEMMA HostsType ==
  ASSUME NEW st
  PROVE  Hosts(st) \subseteq Servers
  BY RoomAssumption DEF Hosts

-----------------------------------------------------------------------------
(* What Persist reads.                                                     *)

(* The state Persist computes before the event.                            *)
Here(prevs, pick) ==
  IF Common(prevs) # 0 THEN StateAt(Common(prevs))
  ELSE Picked([p \in prevs |-> StoredAfter(p)], pick)

LEMMA CommonIs ==
  ASSUME RoomShape, NEW prevs \in SUBSET (1..Len(events)), prevs # {}
  PROVE  /\ Common(prevs) \in 0..Len(groups)
         /\ Common(prevs) # 0 => \A p \in prevs : groupOf[p] = Common(prevs)
  <1>1. (CHOOSE p \in prevs : TRUE) \in prevs
    OBVIOUS
  <1>2. \A p \in prevs : groupOf[p] \in 0..Len(groups)
    BY DEF RoomShape
  <1>3. 0 \in 0..Len(groups)
    BY DEF RoomShape, Grows
  <1> QED
    BY <1>1, <1>2, <1>3 DEF Common

LEMMA StoredAfterIs ==
  ASSUME RoomShape, TablesTrue, NEW e \in 1..Len(events)
  PROVE  StoredAfter(e) \in States /\ (resync # "partial" => StoredAfter(e) = after[e])
  <1>1. Grows(groups) /\ groupOf[e] \in 0..Len(groups) /\ after[e] \in States
    BY DEF RoomShape
  <1>2. StateAt(groupOf[e]) \in States
    BY <1>1, StateAtHolds
  <1>3. ASSUME resync # "partial", groupOf[e] # 0 PROVE StateAt(groupOf[e]) = after[e]
    <2>1. Holds(groups, groupOf[e], after[e])
      BY <1>3 DEF TablesTrue
    <2> QED
      BY <1>1, <2>1, StateAtIs
  <1> QED
    BY <1>1, <1>2, <1>3 DEF StoredAfter

(* It is the truth unless the state is partial.                            *)
LEMMA HereIs ==
  ASSUME RoomShape, TablesTrue, NEW prevs \in SUBSET (1..Len(events)), prevs # {},
         NEW pick \in [Users -> prevs]
  PROVE  Here(prevs, pick) \in States
         /\ (resync # "partial" => Here(prevs, pick) = Picked(after, pick))
  <1> DEFINE g == Common(prevs)
  <1>1. g \in 0..Len(groups) /\ (g # 0 => \A p \in prevs : groupOf[p] = g)
    BY CommonIs
  <1> HIDE DEF g
  <1>2. CASE g # 0
    <2>1. Here(prevs, pick) = StateAt(g)
      BY <1>2 DEF Here, g
    <2>2. StateAt(g) \in States
      BY <1>1, StateAtHolds DEF RoomShape
    <2>3. ASSUME resync # "partial" PROVE StateAt(g) = Picked(after, pick)
      <3>1. ASSUME NEW p \in prevs PROVE after[p] = StateAt(g)
        <4>1. p \in 1..Len(events) /\ groupOf[p] = g
          BY <1>1, <1>2
        <4>2. Holds(groups, g, after[p])
          BY <4>1, <1>2, <2>3 DEF TablesTrue
        <4> QED
          BY <4>2, <1>1, StateAtIs DEF RoomShape
      <3> QED
        BY <3>1, <2>2, PickedOne
    <2> QED
      BY <2>1, <2>2, <2>3
  <1>3. CASE g = 0
    <2> DEFINE st == [p \in prevs |-> StoredAfter(p)]
    <2>1. Here(prevs, pick) = Picked(st, pick)
      BY <1>3 DEF Here, g
    <2>2. \A p \in prevs : st[p] \in States /\ (resync # "partial" => st[p] = after[p])
      BY StoredAfterIs
    <2> HIDE DEF st
    <2>3. Picked(st, pick) \in States
      BY <2>2, PickedType
    <2>4. ASSUME resync # "partial" PROVE Picked(st, pick) = Picked(after, pick)
      <3>1. \A p \in prevs : st[p] = after[p]
        BY <2>2, <2>4
      <3> QED
        BY <3>1 DEF Picked
    <2> QED
      BY <2>1, <2>3, <2>4
  <1> QED
    BY <1>2, <1>3

(* What Persist leaves in the tables of groups: a state for the event.     *)
LEMMA PersistGroups ==
  ASSUME RoomShape, TablesTrue, NEW kind, NEW by, NEW on \in Users,
         NEW prevs \in SUBSET (1..Len(events)), prevs # {},
         NEW pick \in [Users -> prevs], Persist(kind, by, on, prevs, pick)
  PROVE  /\ Later(groups, groups')
         /\ \E k \in 0..Len(groups') :
              /\ groupOf' = Append(groupOf, k)
              /\ k # 0 => Holds(groups', k, With(Here(prevs, pick), Change(kind, on)))
  <1> DEFINE delta == Change(kind, on)
             g == Common(prevs)
             here == Here(prevs, pick)
             base == IF g # 0 THEN groups ELSE Append(groups, [prev |-> 0, delta |-> here])
             at == IF g # 0 THEN g ELSE Len(base)
             chained == IF DOMAIN delta = {} THEN base
                        ELSE Append(base, IF Cardinality(Chain[g]) >= MaxHops
                                          THEN [prev |-> 0, delta |-> With(here, delta)]
                                          ELSE [prev |-> at, delta |-> delta])
             new == IF chained = base THEN at ELSE Len(chained)
  <1>1. IF kind = "outOfBand" THEN groups' = groups /\ groupOf' = Append(groupOf, 0)
        ELSE groups' = chained /\ groupOf' = Append(groupOf, new)
    BY DEF Persist, Here
  <1>2. Grows(groups) /\ Len(groups) \in Nat
    BY DEF RoomShape, Grows
  <1>3. delta \in Deltas
    BY ChangeType
  <1>4. here \in States
    BY HereIs
  <1>5. g \in 0..Len(groups)
    BY CommonIs
  <1>6. g # 0 => here = StateAt(g)
    BY DEF Here
  <1> HIDE DEF delta, g, here
  <1>7. /\ Later(groups, base) /\ at \in 1..Len(base) /\ Holds(base, at, here)
    <2>1. CASE g # 0
      BY <2>1, <1>2, <1>5, <1>6, LaterSame, StateAtHolds
    <2>2. CASE g = 0
      <3> DEFINE hs == Append(groups, [prev |-> 0, delta |-> here])
      <3>1. Later(groups, hs) /\ Len(hs) = Len(groups) + 1 /\ Holds(hs, Len(hs), here)
        BY <1>2, <1>4, AppendFull
      <3>2. base = hs /\ at = Len(hs)
        BY <2>2
      <3> HIDE DEF hs, base, at
      <3> QED
        BY <3>1, <3>2, <1>2
    <2> QED
      BY <2>1, <2>2
  <1> HIDE DEF base, at
  <1>8. Grows(base) /\ Len(base) \in Nat
    BY <1>7 DEF Later, Grows
  <1>9. /\ Later(base, chained) /\ new \in 1..Len(chained) /\ Holds(chained, new, With(here, delta))
    <2>1. CASE DOMAIN delta = {}
      <3>1. chained = base /\ new = at
        BY <2>1
      <3>2. With(here, delta) = here
        BY <2>1, <1>4, WithNothing
      <3> HIDE DEF chained, new
      <3> QED
        BY <3>1, <3>2, <1>7, <1>8, LaterSame
    <2>2. CASE DOMAIN delta # {}
      <3> DEFINE full == Append(base, [prev |-> 0, delta |-> With(here, delta)])
                 step == Append(base, [prev |-> at, delta |-> delta])
      <3>1. chained = full \/ chained = step
        BY <2>2
      <3>2. Later(base, full) /\ Len(full) = Len(base) + 1 /\ Holds(full, Len(full), With(here, delta))
        <4>1. With(here, delta) \in States
          BY <1>3, <1>4, WithType
        <4> QED
          BY <4>1, <1>8, AppendFull
      <3>3. Later(base, step) /\ Len(step) = Len(base) + 1 /\ Holds(step, Len(step), With(here, delta))
        BY <1>3, <1>7, <1>8, AppendDelta
      <3> HIDE DEF full, step, chained
      <3>4. Later(base, chained) /\ Len(chained) = Len(base) + 1
            /\ Holds(chained, Len(chained), With(here, delta))
        BY <3>1, <3>2, <3>3
      <3>5. chained # base
        BY <3>4, <1>8
      <3>6. new = Len(chained)
        BY <3>5
      <3> HIDE DEF new
      <3> QED
        BY <3>4, <3>6, <1>8
    <2> QED
      BY <2>1, <2>2
  <1> HIDE DEF chained, new
  <1>10. CASE kind = "outOfBand"
    BY <1>10, <1>1, <1>2, LaterSame
  <1>11. CASE kind # "outOfBand"
    <2>1. Later(groups, chained)
      BY <1>2, <1>7, <1>9, LaterTwice
    <2>2. new \in 0..Len(chained)
      BY <1>9
    <2>3. groups' = chained /\ groupOf' = Append(groupOf, new)
      BY <1>1, <1>11
    <2> QED
      BY <2>1, <2>2, <2>3, <1>9 DEF here, delta
  <1> QED
    BY <1>10, <1>11

-----------------------------------------------------------------------------
(* A step of Synapse's.                                                    *)

(* What a step leaves to those who have read: events and groups are only   *)
(* appended, and the list of the join stays or goes.                       *)
Onward ==
  /\ Len(events) <= Len(events')
  /\ \A e \in 1..Len(events) : events'[e] = events[e] /\ before'[e] = before[e]
  /\ Later(groups, groups')
  /\ joinList' \in {joinList, {}}

(* An event is persisted, in tables that know it all or only some.         *)
LEMMA PersistShape ==
  ASSUME RoomShape, TablesTrue, NEW kind \in Kinds, NEW by \in Users, NEW on \in Users,
         NEW prevs \in SUBSET (1..Len(events)), prevs # {},
         NEW pick \in [Users -> prevs], Persist(kind, by, on, prevs, pick)
  PROVE  RoomShape' /\ Onward
  <1> DEFINE n == Len(events) + 1
             delta == Change(kind, on)
             here == Here(prevs, pick)
             ends == IF kind \in {"rejected", "outOfBand"} THEN tips ELSE (tips \ prevs) \cup {n}
             was == Picked(after, pick)
             truths == Append(after, With(was, delta))
             states == [e \in ends |-> IF e = n THEN With(here, delta) ELSE StoredAfter(e)]
             ev == [kind |-> kind, by |-> by, on |-> on, prevs |-> prevs]
  <1>1. /\ events' = Append(events, ev)
        /\ before' = Append(before, was) /\ after' = truths
        /\ tips' = ends
        /\ \E now \in Picks(truths, ends) :
             inRoom' = Picked(truths, now) /\ current' = Picked(states, now)
        /\ joinList' = joinList /\ resync' = resync
    BY DEF Persist, Here
  <1>2. /\ events \in Seq(Events) /\ Len(events) \in Nat /\ before \in Seq(States) /\ after \in Seq(States)
        /\ Len(before) = Len(events) /\ Len(after) = Len(events) /\ Len(events) >= 1
        /\ groupOf \in Seq(Nat) /\ Len(groupOf) = Len(events)
        /\ tips \subseteq 1..Len(events) /\ Grows(groups) /\ Len(groups) \in Nat
    BY DEF RoomShape, Grows
  <1>3. here \in States
    BY HereIs
  <1>4. delta \in Deltas
    BY ChangeType
  <1>5. was \in States
    <2>1. \A p \in prevs : after[p] \in States
      BY <1>2
    <2> QED
      BY <2>1, PickedType
  <1>6. ev \in Events
    BY DEF Events
  <1>7. Later(groups, groups')
        /\ \E k \in 0..Len(groups') : groupOf' = Append(groupOf, k)
    BY PersistGroups
  <1> HIDE DEF here, delta, was, ev
  <1>8. With(here, delta) \in States /\ With(was, delta) \in States
    BY <1>3, <1>4, <1>5, WithType
  <1>9. events' \in Seq(Events) /\ Len(events') = n /\ \A e \in 1..Len(events) : events'[e] = events[e]
    BY <1>1, <1>2, <1>6
  <1>10. before' \in Seq(States) /\ Len(before') = n /\ \A e \in 1..Len(events) : before'[e] = before[e]
    BY <1>1, <1>2, <1>5
  <1>11. truths \in Seq(States) /\ Len(truths) = n
    BY <1>2, <1>8
  <1>12. ends \subseteq 1..n
    <2>1. n \in 1..n /\ (1..Len(events)) \subseteq 1..n
      BY <1>2
    <2> HIDE DEF n
    <2> QED
      BY <2>1, <1>2
  <1>13. \A e \in ends : states[e] \in States
    <2>1. ASSUME NEW e \in ends PROVE states[e] \in States
      <3>1. CASE e = n
        BY <3>1, <1>8
      <3>2. CASE e # n
        <4>1. e \in 1..Len(events)
          BY <3>2, <1>2, <1>12
        <4>2. StoredAfter(e) \in States
          BY <4>1, StoredAfterIs
        <4>3. states[e] = StoredAfter(e)
          BY <3>2
        <4> QED
          BY <4>2, <4>3
      <3> QED
        BY <3>1, <3>2
    <2> QED
      BY <2>1
  <1>14. \A e \in ends : truths[e] \in States
    BY <1>11, <1>12
  <1> HIDE DEF n, ends, truths, states
  <1>15. PICK now \in Picks(truths, ends) :
           inRoom' = Picked(truths, now) /\ current' = Picked(states, now)
    BY <1>1
  <1>16. now \in [Users -> ends]
    BY DEF Picks
  <1>17. inRoom' \in States /\ current' \in States
    BY <1>13, <1>14, <1>15, <1>16, PickedType
  <1>18. groupOf' \in Seq(Nat) /\ Len(groupOf') = n
         /\ \A e \in 1..n : groupOf'[e] \in 0..Len(groups')
    <2>1. PICK k \in 0..Len(groups') : groupOf' = Append(groupOf, k)
      BY <1>7
    <2>2. Len(groups') \in Nat /\ Len(groups) <= Len(groups') /\ k \in Nat
      BY <1>7, <2>1 DEF Later, Grows
    <2>3. groupOf' \in Seq(Nat) /\ Len(groupOf') = n /\ groupOf'[n] = k
          /\ \A e \in 1..Len(events) : groupOf'[e] = groupOf[e]
      BY <2>1, <2>2, <1>2 DEF n
    <2>4. \A e \in 1..Len(events) : groupOf[e] \in 0..Len(groups)
      BY DEF RoomShape
    <2>5. ASSUME NEW e \in 1..n PROVE groupOf'[e] \in 0..Len(groups')
      <3>1. CASE e = n
        BY <3>1, <2>3
      <3>2. CASE e # n
        <4>1. e \in 1..Len(events)
          BY <3>2, <1>2 DEF n
        <4>2. groupOf'[e] = groupOf[e] /\ groupOf[e] \in 0..Len(groups)
          BY <4>1, <2>3, <2>4
        <4> QED
          BY <4>2, <2>2, <1>2
      <3> QED
        BY <3>1, <3>2
    <2> QED
      BY <2>3, <2>5
  <1>19. n = Len(events) + 1
    BY DEF n
  <1>20. joinList' \subseteq Servers /\ resync' \in {"partial", "events", "current", "full"}
    BY <1>1 DEF RoomShape
  <1>21. tips' \subseteq 1..n /\ n >= 1 /\ Len(events) <= n
    BY <1>1, <1>2, <1>12, <1>19
  <1>22. Grows(groups')
    BY <1>7 DEF Later
  <1>23. after' \in Seq(States) /\ Len(after') = n
    BY <1>1, <1>11
  <1>24. RoomShape'
    BY <1>9, <1>10, <1>17, <1>18, <1>20, <1>21, <1>22, <1>23 DEF RoomShape
  <1>25. Onward
    BY <1>1, <1>7, <1>9, <1>10, <1>21 DEF Onward
  <1> QED
    BY <1>24, <1>25

(* The event follows on its prev events.                                   *)
LEMMA PersistFollows ==
  ASSUME RoomShape, FollowsOn, NEW kind \in Kinds, NEW by \in Users, NEW on \in Users,
         NEW prevs \in SUBSET (1..Len(events)), prevs # {},
         NEW pick \in [Users -> prevs], Persist(kind, by, on, prevs, pick)
  PROVE  FollowsOn'
  <1> DEFINE n == Len(events) + 1
             was == Picked(after, pick)
             ev == [kind |-> kind, by |-> by, on |-> on, prevs |-> prevs]
  <1>1. events' = Append(events, ev) /\ before' = Append(before, was)
        /\ \E st : after' = Append(after, st)
    BY DEF Persist
  <1>2. /\ events \in Seq(Events) /\ Len(events) \in Nat /\ before \in Seq(States) /\ after \in Seq(States)
        /\ Len(before) = Len(events) /\ Len(after) = Len(events)
    BY DEF RoomShape
  <1>3. \A u \in Users : was[u] = after[pick[u]][u] /\ pick[u] \in prevs
    BY DEF Picked
  <1> HIDE DEF was
  <1>4. Len(events') = n /\ (\A e \in 1..Len(events) : events'[e] = events[e]) /\ events'[n].prevs = prevs
    BY <1>1, <1>2
  <1>5. before'[n] = was /\ \A e \in 1..Len(events) : before'[e] = before[e]
    BY <1>1, <1>2
  <1>6. \A e \in 1..Len(events) : after'[e] = after[e]
    BY <1>1, <1>2
  <1> SUFFICES ASSUME NEW e \in 1..n
               PROVE  /\ events'[e].prevs \subseteq 1..e - 1
                      /\ e # 1 => events'[e].prevs # {}
                      /\ e # 1 => \A u \in Users : \E p \in events'[e].prevs : before'[e][u] = after'[p][u]
    BY <1>4 DEF FollowsOn
  <1>7. CASE e = n
    <2>1. \A p \in prevs : after'[p] = after[p]
      BY <1>6
    <2>2. prevs \subseteq 1..e - 1
      BY <1>2, <1>7
    <2>3. events'[e].prevs = prevs /\ before'[e] = was
      BY <1>4, <1>5, <1>7
    <2>4. ASSUME NEW u \in Users PROVE \E p \in prevs : was[u] = after'[p][u]
      BY <2>1, <1>3
    <2> HIDE DEF n
    <2> QED
      BY <2>2, <2>3, <2>4
  <1>8. CASE e # n
    <2>1. e \in 1..Len(events)
      BY <1>2, <1>8
    <2> DEFINE S == events[e].prevs
    <2>2. /\ S \subseteq 1..e - 1 /\ (e # 1 => S # {})
          /\ e # 1 => \A u \in Users : \E p \in S : before[e][u] = after[p][u]
      BY <2>1 DEF FollowsOn
    <2>3. events'[e].prevs = S /\ before'[e] = before[e]
      BY <2>1, <1>4, <1>5
    <2> HIDE DEF S
    <2>4. \A p \in S : p \in 1..Len(events)
      BY <2>1, <2>2, <1>2
    <2> QED
      BY <2>2, <2>3, <2>4, <1>6
  <1> QED
    BY <1>7, <1>8

(* Tables that are true stay true.                                         *)
LEMMA PersistTrue ==
  ASSUME RoomShape, TablesTrue, NEW kind \in Kinds, NEW by \in Users, NEW on \in Users,
         NEW prevs \in SUBSET (1..Len(events)), prevs # {},
         NEW pick \in [Users -> prevs], Persist(kind, by, on, prevs, pick)
  PROVE  TablesTrue'
  <1> DEFINE n == Len(events) + 1
             delta == Change(kind, on)
             here == Here(prevs, pick)
             ends == IF kind \in {"rejected", "outOfBand"} THEN tips ELSE (tips \ prevs) \cup {n}
             was == Picked(after, pick)
             truths == Append(after, With(was, delta))
             states == [e \in ends |-> IF e = n THEN With(here, delta) ELSE StoredAfter(e)]
  <1>1. /\ after' = truths /\ Len(events') = n
        /\ \E now \in Picks(truths, ends) :
             inRoom' = Picked(truths, now) /\ current' = Picked(states, now)
        /\ joinList' = joinList /\ resync' = resync
    BY DEF Persist, Here, RoomShape
  <1>2. /\ Len(events) \in Nat /\ after \in Seq(States) /\ Len(after) = Len(events)
        /\ groupOf \in Seq(Nat) /\ Len(groupOf) = Len(events)
        /\ tips \subseteq 1..Len(events) /\ Grows(groups) /\ Len(groups) \in Nat
        /\ \A e \in 1..Len(events) : groupOf[e] \in 0..Len(groups)
    BY DEF RoomShape, Grows
  <1>3. resync # "partial" => here = was
    BY HereIs
  <1>4. PICK k \in 0..Len(groups') :
          /\ groupOf' = Append(groupOf, k)
          /\ k # 0 => Holds(groups', k, With(here, delta))
    BY PersistGroups
  <1>5. Later(groups, groups')
    BY PersistGroups
  <1> HIDE DEF here, was, delta
  <1>6. truths[n] = With(was, delta) /\ \A e \in 1..Len(events) : truths[e] = after[e]
    BY <1>2
  <1>7. groupOf'[n] = k /\ \A e \in 1..Len(events) : groupOf'[e] = groupOf[e]
    BY <1>2, <1>4
  <1>8. ASSUME resync # "partial", NEW e \in 1..n, groupOf'[e] # 0
        PROVE  Holds(groups', groupOf'[e], after'[e])
    <2>1. CASE e = n
      <3>1. Holds(groups', k, With(here, delta))
        BY <1>4, <1>7, <1>8, <2>1
      <3> HIDE DEF truths, n
      <3> QED
        BY <3>1, <1>1, <1>3, <1>6, <1>7, <1>8, <2>1
    <2>2. CASE e # n
      <3>1. e \in 1..Len(events)
        BY <1>2, <2>2
      <3>2. groupOf'[e] = groupOf[e] /\ after'[e] = after[e]
        <4> HIDE DEF truths
        <4> QED
          BY <3>1, <1>1, <1>6, <1>7
      <3>3. Holds(groups, groupOf[e], after[e]) /\ groupOf[e] \in 0..Len(groups)
        BY <3>1, <3>2, <1>2, <1>8 DEF TablesTrue
      <3>4. Holds(groups', groupOf[e], after[e])
        BY <3>3, <1>2, <1>5, HoldsLater
      <3> QED
        BY <3>2, <3>4
    <2> QED
      BY <2>1, <2>2
  <1>9. ASSUME resync # "partial" PROVE current' = inRoom'
    <2>1. ends \subseteq 1..n
      <3>1. n \in 1..n /\ (1..Len(events)) \subseteq 1..n
        BY <1>2
      <3> HIDE DEF n
      <3> QED
        BY <3>1, <1>2
    <2>2. ASSUME NEW e \in ends PROVE states[e] = truths[e]
      <3>1. CASE e = n
        <4>1. states[e] = With(here, delta)
          BY <3>1
        <4> QED
          BY <4>1, <3>1, <1>3, <1>6, <1>9
      <3>2. CASE e # n
        <4>1. e \in 1..Len(events)
          BY <3>2, <1>2, <2>1
        <4>2. StoredAfter(e) = after[e]
          BY <4>1, <1>9, StoredAfterIs
        <4>3. states[e] = StoredAfter(e)
          BY <3>2
        <4> QED
          BY <4>1, <4>2, <4>3, <1>6
      <3> QED
        BY <3>1, <3>2
    <2> HIDE DEF n, ends, truths, states
    <2>3. PICK now \in Picks(truths, ends) :
             inRoom' = Picked(truths, now) /\ current' = Picked(states, now)
      BY <1>1
    <2>4. now \in [Users -> ends]
      BY DEF Picks
    <2>5. Picked(truths, now) = Picked(states, now)
      BY <2>2, <2>4 DEF Picked
    <2> QED
      BY <2>3, <2>5
  <1> HIDE DEF n, truths
  <1>10. (resync' = "full") <=> (joinList' = {})
    BY <1>1 DEF TablesTrue
  <1> QED
    BY <1>1, <1>8, <1>9, <1>10 DEF TablesTrue

(* A purge takes a row away and changes none.                              *)
LEMMA PurgeStep ==
  ASSUME RoomShape, FollowsOn, TablesTrue, NEW e \in DOMAIN events, Purge(e)
  PROVE  RoomShape' /\ FollowsOn' /\ TablesTrue' /\ Onward
  <1>1. /\ groupOf' = [groupOf EXCEPT ![e] = 0]
        /\ events' = events /\ groups' = groups /\ current' = current /\ tips' = tips
        /\ joinList' = joinList /\ resync' = resync
        /\ before' = before /\ after' = after /\ inRoom' = inRoom
    BY DEF Purge, truth
  <1>2. /\ groupOf \in Seq(Nat) /\ Len(groupOf) = Len(events) /\ Len(events) \in Nat
        /\ Grows(groups) /\ Len(groups) \in Nat
    BY DEF RoomShape, Grows
  <1>3. groupOf' \in Seq(Nat) /\ Len(groupOf') = Len(events)
        /\ \A x \in 1..Len(events) : groupOf'[x] = groupOf[x] \/ groupOf'[x] = 0
    BY <1>1, <1>2
  <1>4. \A x \in 1..Len(events) : groupOf'[x] \in 0..Len(groups)
    <2>1. \A x \in 1..Len(events) : groupOf[x] \in 0..Len(groups)
      BY DEF RoomShape
    <2>2. 0 \in 0..Len(groups)
      BY <1>2
    <2> QED
      BY <2>1, <2>2, <1>3
  <1>5. RoomShape'
    BY <1>1, <1>3, <1>4 DEF RoomShape
  <1>6. FollowsOn'
    BY <1>1 DEF FollowsOn
  <1>7. TablesTrue'
    BY <1>1, <1>3 DEF TablesTrue
  <1>8. Onward
    <2>1. Later(groups, groups')
      BY <1>1, <1>2, LaterSame
    <2>2. Len(events) <= Len(events')
      BY <1>1, <1>2
    <2> QED
      BY <1>1, <2>1, <2>2 DEF Onward
  <1> QED
    BY <1>5, <1>6, <1>7, <1>8

(* The events' state becomes known: every event that had a group has a new *)
(* one, with the truth.                                                    *)
LEMMA EventsKnownStep ==
  ASSUME RoomShape, FollowsOn, TablesTrue, StateOfEventsKnown
  PROVE  RoomShape' /\ FollowsOn' /\ TablesTrue' /\ Onward
  <1> DEFINE L == Len(groups)
             n == Len(events)
             more == [e \in DOMAIN events |-> [prev |-> 0, delta |-> after[e]]]
             First(e) == CHOOSE x \in DOMAIN events :
                           after[x] = after[e] /\ (\A y \in DOMAIN events : after[y] = after[e] => x <= y)
  <1>1. /\ resync = "partial" /\ resync' = "events" /\ groups' = groups \o more
        /\ groupOf' = [e \in DOMAIN events |-> IF groupOf[e] = 0 THEN 0 ELSE L + First(e)]
        /\ events' = events /\ current' = current /\ tips' = tips
        /\ joinList' = joinList
        /\ before' = before /\ after' = after /\ inRoom' = inRoom
    BY DEF StateOfEventsKnown, truth
  <1>2. /\ groups \in Seq(Groups) /\ L \in Nat /\ n \in Nat /\ DOMAIN events = 1..n
        /\ after \in Seq(States) /\ Len(after) = n
        /\ \A g \in 1..L : groups[g].prev \in 0..g - 1
    BY DEF RoomShape, Grows
  <1>3. \A e \in 1..n : after[e] \in States
    BY <1>2
  <1>4. more \in Seq(Groups) /\ Len(more) = n
        /\ \A e \in 1..n : more[e] = [prev |-> 0, delta |-> after[e]]
    <2>1. \A e \in 1..n : [prev |-> 0, delta |-> after[e]] \in Groups
      BY <1>3, StatesAreDeltas DEF Groups
    <2>2. more = [e \in 1..n |-> [prev |-> 0, delta |-> after[e]]]
      BY <1>2
    <2> QED
      BY <1>2, <2>1, <2>2
  <1> HIDE DEF more, L, n
  <1>5. groups' \in Seq(Groups) /\ Len(groups') = L + n
        /\ (\A g \in 1..L : groups'[g] = groups[g]) /\ (\A e \in 1..n : groups'[L + e] = more[e])
    BY <1>1, <1>2, <1>4 DEF L
  <1>6. \A g \in 1..Len(groups') : groups'[g].prev \in 0..g - 1
    <2> TAKE g \in 1..Len(groups')
    <2>1. CASE g <= L
      <3>1. g \in 1..L
        BY <2>1, <1>2, <1>5
      <3> QED
        BY <3>1, <1>2, <1>5
    <2>2. CASE g > L
      <3>1. g - L \in 1..n /\ L + (g - L) = g
        BY <2>2, <1>2, <1>5
      <3>2. groups'[g] = more[g - L]
        BY <3>1, <1>5
      <3>3. groups'[g].prev = 0
        BY <3>1, <3>2, <1>4
      <3> QED
        BY <3>3
    <2> QED
      BY <2>1, <2>2, <1>2, <1>5
  <1>7. Grows(groups') /\ Later(groups, groups')
    <2>1. Grows(groups')
      BY <1>5, <1>6 DEF Grows
    <2>2. L <= Len(groups')
      BY <1>2, <1>5
    <2> QED
      BY <2>1, <2>2, <1>5 DEF Later, L
  <1>8. ASSUME NEW e \in 1..n PROVE First(e) \in 1..n /\ after[First(e)] = after[e]
    <2> DEFINE I == {x \in 1..n : after[x] = after[e]}
    <2>1. I \in SUBSET Nat /\ e \in I
      BY <1>2
    <2>2. PICK x \in I : \A y \in I : x <= y
      BY <2>1, HasLeast
    <2>3. x \in DOMAIN events /\ after[x] = after[e]
          /\ (\A y \in DOMAIN events : after[y] = after[e] => x <= y)
      BY <2>2, <1>2
    <2>4. First(e) \in DOMAIN events /\ after[First(e)] = after[e]
      BY <2>3
    <2> QED
      BY <2>4, <1>2
  <1> HIDE DEF First
  <1>9. \A e \in 1..n : groupOf'[e] = IF groupOf[e] = 0 THEN 0 ELSE L + First(e)
    BY <1>1, <1>2
  <1>10. groupOf' \in Seq(Nat) /\ Len(groupOf') = n /\ \A e \in 1..n : groupOf'[e] \in 0..Len(groups')
    <2>1. ASSUME NEW e \in 1..n PROVE groupOf'[e] \in 0..L + n /\ groupOf'[e] \in Nat
      <3>1. First(e) \in 1..n /\ groupOf'[e] = IF groupOf[e] = 0 THEN 0 ELSE L + First(e)
        BY <1>8, <1>9
      <3>2. L + First(e) \in 0..L + n /\ 0 \in 0..L + n
        BY <3>1, <1>2
      <3> QED
        BY <3>1, <3>2, <1>2
    <2>2. groupOf' = [e \in 1..n |-> groupOf'[e]]
      BY <1>1, <1>2
    <2>3. groupOf' \in Seq(Nat) /\ Len(groupOf') = n
      BY <2>1, <2>2, <1>2
    <2> QED
      BY <2>1, <2>3, <1>5
  <1>11. ASSUME NEW e \in 1..n, groupOf'[e] # 0 PROVE Holds(groups', groupOf'[e], after'[e])
    <2> DEFINE x == First(e)
               g == L + x
    <2>1. x \in 1..n /\ after[x] = after[e]
      BY <1>8
    <2>2. groupOf'[e] = g
      BY <1>9, <1>11
    <2>3. groups'[g] = more[x]
      BY <2>1, <1>5
    <2>4. groups'[g].prev = 0 /\ groups'[g].delta = after[e] /\ after[e] \in States
      BY <2>1, <2>3, <1>3, <1>4
    <2>5. g \in 1..Len(groups')
      BY <2>1, <1>2, <1>5
    <2> HIDE DEF g
    <2>6. Holds(groups', g, after[e])
      BY <2>4, <2>5, <1>7, StateOfFull DEF Holds
    <2> QED
      BY <2>2, <2>6, <1>1
  <1>12. RoomShape'
    BY <1>1, <1>7, <1>10 DEF RoomShape, n
  <1>13. FollowsOn'
    BY <1>1 DEF FollowsOn
  <1>14. TablesTrue'
    BY <1>1, <1>11 DEF TablesTrue, n
  <1>15. Onward
    <2>1. Len(events) <= Len(events')
      BY <1>1, <1>2 DEF n
    <2> QED
      BY <2>1, <1>1, <1>7 DEF Onward
  <1> QED
    BY <1>12, <1>13, <1>14, <1>15

(* The two last steps of a faster join.                                    *)
LEMMA JoinEndsStep ==
  ASSUME RoomShape, FollowsOn, TablesTrue, CurrentStateKnown \/ ClearPartialState
  PROVE  RoomShape' /\ FollowsOn' /\ TablesTrue' /\ Onward
  <1>1. /\ events' = events /\ groups' = groups /\ groupOf' = groupOf /\ tips' = tips
        /\ before' = before /\ after' = after /\ inRoom' = inRoom
        /\ \/ resync = "events" /\ resync' = "current" /\ current' = inRoom /\ joinList' = joinList
           \/ resync = "current" /\ resync' = "full" /\ current' = current /\ joinList' = {}
    BY DEF CurrentStateKnown, ClearPartialState, truth
  <1>2. RoomShape'
    BY <1>1 DEF RoomShape
  <1>3. FollowsOn'
    BY <1>1 DEF FollowsOn
  <1>4. TablesTrue'
    BY <1>1 DEF TablesTrue
  <1>5. Onward
    <2>1. Later(groups, groups')
      BY <1>1, LaterSame DEF RoomShape
    <2>2. Len(events) <= Len(events')
      BY <1>1 DEF RoomShape
    <2> QED
      BY <1>1, <2>1, <2>2 DEF Onward
  <1> QED
    BY <1>2, <1>3, <1>4, <1>5

LEMMA SynapseStep ==
  ASSUME RoomShape, FollowsOn, TablesTrue, Synapse
  PROVE  RoomShape' /\ FollowsOn' /\ TablesTrue' /\ Onward
  <1>1. CASE PersistSome
    <2>1. DOMAIN events = 1..Len(events)
      BY DEF RoomShape
    <2>2. PICK prevs \in SUBSET DOMAIN events, kind \in Kinds \ {"creation", "joined"}, by \in Users :
            /\ Follows(Domain[by] = Us \/ kind = "forwarded", prevs)
            /\ \E pick \in Picks(after, prevs), on \in Users : Persist(kind, by, on, prevs, pick)
      BY <1>1 DEF PersistSome
    <2>3. PICK pick \in Picks(after, prevs), on \in Users : Persist(kind, by, on, prevs, pick)
      BY <2>2
    <2>4. pick \in [Users -> prevs]
      BY DEF Picks
    <2>5. prevs # {} /\ prevs \in SUBSET (1..Len(events)) /\ kind \in Kinds
      BY <2>1, <2>2 DEF Follows
    <2> QED
      BY <2>3, <2>4, <2>5, PersistShape, PersistFollows, PersistTrue
  <1>2. CASE \E e \in DOMAIN events : Purge(e)
    BY <1>2, PurgeStep
  <1>3. CASE StateOfEventsKnown
    BY <1>3, EventsKnownStep
  <1>4. CASE CurrentStateKnown \/ ClearPartialState
    BY <1>4, JoinEndsStep
  <1> QED
    BY <1>1, <1>2, <1>3, <1>4 DEF Synapse

(* A room that is created, or joined with the state of some members.       *)
LEMMA RoomStarts == RoomInit => RoomShape /\ FollowsOn /\ TablesTrue
  <1> SUFFICES ASSUME RoomInit PROVE RoomShape /\ FollowsOn /\ TablesTrue
    OBVIOUS
  <1>1. PICK by \in Hers(Us) :
          /\ events = <<[kind |-> IF joinList = {} THEN "creation" ELSE "joined",
                         by |-> by, on |-> by, prevs |-> {}]>>
          /\ inRoom \in [Users -> {"none", "join"}]
    BY DEF RoomInit
  <1>2. /\ current = [u \in Users |-> IF joinList # {} /\ u \notin Seen THEN "none" ELSE inRoom[u]]
        /\ groups = <<[prev |-> 0, delta |-> current]>> /\ groupOf = <<1>> /\ tips = {1}
        /\ resync = (IF joinList = {} THEN "full" ELSE "partial") /\ joinList \in Joinable
        /\ before = <<[u \in Users |-> "none"]>> /\ after = <<inRoom>>
    BY DEF RoomInit
  <1>3. inRoom \in States /\ current \in States /\ [u \in Users |-> "none"] \in States
    BY <1>1, <1>2 DEF States, Memberships
  <1>4. by \in Users
    BY DEF Hers
  <1>5. events \in Seq(Events) /\ Len(events) = 1 /\ events[1].prevs = {}
    <2> DEFINE ev == [kind |-> IF joinList = {} THEN "creation" ELSE "joined",
                      by |-> by, on |-> by, prevs |-> {}]
    <2>1. ev \in Events /\ ev.prevs = {}
      BY <1>4 DEF Events, Kinds
    <2>2. events = <<ev>>
      BY <1>1
    <2> HIDE DEF ev
    <2> QED
      BY <2>1, <2>2
  <1>6. Grows(groups) /\ Len(groups) = 1 /\ groups[1].prev = 0 /\ groups[1].delta = current
    <2> DEFINE x == [prev |-> 0, delta |-> current]
    <2>1. x \in Groups /\ x.prev = 0 /\ x.delta = current
      BY <1>3, StatesAreDeltas DEF Groups
    <2>2. groups = <<x>>
      BY <1>2
    <2> HIDE DEF x
    <2>3. groups \in Seq(Groups) /\ Len(groups) = 1 /\ groups[1] = x
      BY <2>1, <2>2
    <2>4. \A g \in 1..1 : g = 1
      OBVIOUS
    <2> QED
      BY <2>1, <2>3, <2>4 DEF Grows
  <1>7. RoomShape
    <2>1. before \in Seq(States) /\ Len(before) = 1 /\ after \in Seq(States) /\ Len(after) = 1
      BY <1>2, <1>3
    <2>2. groupOf \in Seq(Nat) /\ Len(groupOf) = 1 /\ groupOf[1] = 1
      BY <1>2
    <2>3. \A e \in 1..1 : groupOf[e] \in 0..1
      BY <2>2
    <2>4. tips \subseteq 1..1 /\ joinList \subseteq Servers
      BY <1>2, RoomAssumption
    <2>5. resync \in {"partial", "events", "current", "full"}
      BY <1>2
    <2> QED
      BY <2>1, <2>2, <2>3, <2>4, <2>5, <1>3, <1>5, <1>6 DEF RoomShape
  <1>8. FollowsOn
    <2>1. \A e \in 1..1 : e = 1
      OBVIOUS
    <2> QED
      BY <2>1, <1>5 DEF FollowsOn
  <1>9. TablesTrue
    <2>1. CASE joinList = {}
      <3>1. current = inRoom
        BY <2>1, <1>1, <1>2
      <3>2. Holds(groups, 1, current)
        <4>1. 1 \in 1..Len(groups) /\ groups[1].delta \in States
          BY <1>3, <1>6
        <4> QED
          BY <4>1, <1>6, StateOfFull DEF Holds
      <3>3. \A e \in 1..Len(events) : groupOf[e] = 1 /\ after[e] = current
        <4>1. \A e \in 1..1 : e = 1
          OBVIOUS
        <4> QED
          BY <4>1, <3>1, <1>2, <1>5
      <3> QED
        BY <2>1, <3>1, <3>2, <3>3, <1>2 DEF TablesTrue
    <2>2. CASE joinList # {}
      BY <2>2, <1>2 DEF TablesTrue
    <2> QED
      BY <2>1, <2>2
  <1> QED
    BY <1>7, <1>8, <1>9

-----------------------------------------------------------------------------
(* What the goroutines keep while Synapse writes.                          *)

(* The two halves of StableMemberReached.                                  *)
EventReached ==
  routed.event # 0 /\ Eligible(events[routed.event]) =>
    (OurDestinations(stayed[routed.event]) \cap Whitelist)
        \ SendOnBehalfOf(events[routed.event]) \subseteq routed.ours

ReceiptReached == rpc = "done" => OurDestinations(stayedFor) \cap Awake \subseteq receipt

LEMMA StableIs == StableMemberReached <=> EventReached /\ ReceiptReached
  BY DEF StableMemberReached, EventReached, ReceiptReached

(* A cached state stays a state of the tables.                             *)
LEMMA CacheLater ==
  ASSUME NEW c, NEW gs, Grows(gs), CacheIs(c, gs), NEW hs, Later(gs, hs)
  PROVE  CacheIs(c, hs)
  <1>1. Len(gs) \in Nat /\ Len(hs) \in Nat /\ Len(gs) <= Len(hs)
    BY DEF Later, Grows
  <1>2. ASSUME NEW i \in 1..Len(c)
        PROVE  /\ c[i].group <= Len(hs)
               /\ \E st \in States : Holds(hs, c[i].group, st) /\ c[i].hosts = Hosts(st)
    <2> DEFINE g == c[i].group
    <2>1. g \in Nat /\ g <= Len(gs)
      <3>1. c \in Seq([group : Nat \ {0}, hosts : SUBSET Servers])
        BY DEF CacheIs
      <3>2. c[i] \in [group : Nat \ {0}, hosts : SUBSET Servers]
        <4>1. \A S : c \in Seq(S) => c[i] \in S
          OBVIOUS
        <4> QED
          BY <3>1, <4>1, Zenon
      <3>3. c[i].group <= Len(gs)
        BY DEF CacheIs
      <3> QED
        BY <3>2, <3>3
    <2>2. PICK st \in States : Holds(gs, g, st) /\ c[i].hosts = Hosts(st)
      BY DEF CacheIs
    <2> HIDE DEF g
    <2>3. g \in 0..Len(gs) /\ g <= Len(hs)
      BY <2>1, <1>1
    <2>4. Holds(hs, g, st)
      BY <2>2, <2>3, HoldsLater
    <2> QED
      BY <2>2, <2>3, <2>4 DEF g
  <1> QED
    BY <1>2 DEF CacheIs

LEMMA RoomStepResolver ==
  ASSUME RoutingInv, RoomStep, Onward
  PROVE  ResolverShape' /\ CacheTrue'
  <1>1. /\ handled' = handled /\ pc' = pc /\ group' = group /\ cache' = cache /\ routed' = routed
    BY DEF RoomStep, routeVars
  <1>2. /\ Len(events) <= Len(events') /\ Later(groups, groups')
        /\ \A e \in 1..Len(events) : events'[e] = events[e] /\ before'[e] = before[e]
        /\ joinList' \in {joinList, {}}
    BY DEF Onward
  <1>3. /\ Len(events) \in Nat /\ Grows(groups) /\ Len(groups) \in Nat
    BY DEF RoutingInv, RoomShape, Grows
  <1>4. Len(groups') \in Nat /\ Len(groups) <= Len(groups')
    BY <1>2 DEF Later, Grows
  <1>5. CacheTrue'
    BY <1>1, <1>2, <1>3, CacheLater DEF RoutingInv, CacheTrue
  <1>6. /\ handled \in 0..Len(events) /\ routed.event \in 0..handled /\ group \in 0..Len(groups)
        /\ pc \in {"off", "idle", "partial", "groups", "cache", "query", "current"}
        /\ pc \in {"groups", "cache", "query", "current"} => joinList = {}
    BY DEF RoutingInv, ResolverShape
  <1>7. Len(events') \in Nat /\ handled \in 0..Len(events') /\ group \in 0..Len(groups')
    <2>1. Len(events') \in Nat
      <3>1. RoomShape'
        BY SynapseStep DEF RoomStep, RoutingInv
      <3> QED
        BY <3>1 DEF RoomShape
    <2> QED
      BY <2>1, <1>2, <1>3, <1>4, <1>6
  <1>8. ASSUME pc \notin {"off", "idle"}
        PROVE  handled < Len(events') /\ Eligible(events'[handled + 1]) /\ events'[handled + 1].prevs # {}
    <2>1. handled < Len(events) /\ Eligible(events[handled + 1]) /\ events[handled + 1].prevs # {}
      BY <1>8 DEF RoutingInv, ResolverShape, Event
    <2>2. handled + 1 \in 1..Len(events)
      BY <2>1, <1>3, <1>6
    <2> QED
      BY <2>1, <2>2, <1>2, <1>3, <1>6, <1>7
  <1>9. ASSUME pc \in {"cache", "query"}
        PROVE  group # 0 /\ Holds(groups', group, before'[handled + 1])
    <2>1. group # 0 /\ Holds(groups, group, before[handled + 1]) /\ handled < Len(events)
      BY <1>9 DEF RoutingInv, ResolverShape
    <2>2. handled + 1 \in 1..Len(events)
      BY <2>1, <1>3, <1>6
    <2>3. Holds(groups', group, before[handled + 1])
      BY <2>1, <1>2, <1>3, <1>6, HoldsLater
    <2> QED
      BY <2>1, <2>2, <2>3, <1>2
  <1>10. pc \in {"groups", "cache", "query", "current"} => joinList' = {}
    BY <1>2, <1>6
  <1>11. ResolverShape'
    BY <1>1, <1>6, <1>7, <1>8, <1>9, <1>10 DEF ResolverShape, Event
  <1> QED
    BY <1>5, <1>11

(* Who stays is shrunk to who still does; for a new event it is who was    *)
(* there before it, and known.                                             *)
LEMMA RoomStepStayed ==
  ASSUME RoutingInv, RoomStep, Onward, RoomShape'
  PROVE  StayedKnown' /\ \A e \in 1..Len(events) : stayed'[e] \subseteq stayed[e]
  <1>1. stayed' = [e \in DOMAIN events' |->
          (IF e \in DOMAIN events THEN stayed[e]
           ELSE Hosts(before'[e]) \cap Hosts(inRoom) \cap KnownToJoin) \cap Hosts(inRoom')]
    BY DEF RoomStep
  <1>2. /\ Len(events) \in Nat /\ Len(events) >= 1 /\ DOMAIN events = 1..Len(events)
        /\ Len(events') \in Nat /\ DOMAIN events' = 1..Len(events') /\ Len(events) <= Len(events')
    BY DEF RoutingInv, RoomShape, Onward
  <1>3. /\ \A e \in 1..Len(events) : before'[e] = before[e]
        /\ joinList' \in {joinList, {}}
    BY DEF Onward
  <1>4. \A e \in 1..Len(events) : e \in 1..Len(events') /\ stayed'[e] = stayed[e] \cap Hosts(inRoom')
    BY <1>1, <1>2
  <1>5. \A e \in 1..Len(events') : e \notin 1..Len(events) =>
          stayed'[e] = Hosts(before'[e]) \cap Hosts(inRoom) \cap KnownToJoin \cap Hosts(inRoom')
    BY <1>1, <1>2
  <1>6. /\ stayed \in Seq(SUBSET Servers) /\ Len(stayed) = Len(events) /\ stayed[1] = {}
        /\ \A e \in 1..Len(events) :
             /\ stayed[e] \subseteq Hosts(before[e]) \cap Hosts(inRoom)
             /\ joinList # {} => stayed[e] \subseteq joinList
    BY DEF RoutingInv, StayedKnown
  <1>7. ASSUME NEW e \in 1..Len(events')
        PROVE  /\ stayed'[e] \in SUBSET Servers
               /\ stayed'[e] \subseteq Hosts(before'[e]) \cap Hosts(inRoom')
               /\ joinList' # {} => stayed'[e] \subseteq joinList'
    <2>1. CASE e \in 1..Len(events)
      <3>1. stayed[e] \in SUBSET Servers
        BY <2>1, <1>6
      <3> QED
        BY <2>1, <3>1, <1>3, <1>4, <1>6
    <2>2. CASE e \notin 1..Len(events)
      <3>1. Hosts(inRoom) \subseteq Servers
        BY HostsType
      <3> QED
        BY <2>2, <3>1, <1>3, <1>5 DEF KnownToJoin
    <2> QED
      BY <2>1, <2>2
  <1>8. stayed' \in Seq(SUBSET Servers) /\ Len(stayed') = Len(events')
    <2>1. stayed' = [e \in 1..Len(events') |-> stayed'[e]]
      BY <1>1, <1>2
    <2> QED
      BY <2>1, <1>2, <1>7
  <1>9. stayed'[1] = {}
    BY <1>2, <1>4, <1>6
  <1> QED
    BY <1>4, <1>7, <1>8, <1>9 DEF StayedKnown

LEMMA RoomStepReached ==
  ASSUME RoutingInv, RoomStep, Onward, \A e \in 1..Len(events) : stayed'[e] \subseteq stayed[e]
  PROVE  ReceiptShape' /\ ExactIsExact' /\ StableMemberReached'
  <1>1. /\ handled' = handled /\ routed' = routed /\ rpc' = rpc /\ atJoin' = atJoin /\ receipt' = receipt
        /\ stayedFor' = stayedFor \cap Known'
    BY DEF RoomStep, routeVars
  <1>2. /\ \A e \in 1..Len(events) : events'[e] = events[e] /\ before'[e] = before[e]
        /\ joinList' \in {joinList, {}}
    BY DEF Onward
  <1>3. ReceiptShape'
    BY <1>1, <1>2 DEF RoutingInv, ReceiptShape
  <1> DEFINE n == routed.event
  <1>4. n = 0 \/ n \in 1..Len(events)
    BY DEF RoutingInv, ResolverShape, RoomShape
  <1>5. ExactIsExact'
    <2>1. CASE n = 0
      BY <2>1, <1>1 DEF ExactIsExact
    <2>2. CASE n \in 1..Len(events)
      <3>1. events'[n] = events[n] /\ before'[n] = before[n]
        BY <2>2, <1>2
      <3>2. Rescinded(events[n], n)' = Rescinded(events[n], n)
        BY <3>1, <1>1 DEF Rescinded, HasInviteFor
      <3> QED
        BY <3>1, <3>2, <1>1 DEF RoutingInv, ExactIsExact
    <2> QED
      BY <2>1, <2>2, <1>4
  <1>6. EventReached'
    <2>1. CASE n = 0
      BY <2>1, <1>1 DEF EventReached
    <2>2. CASE n \in 1..Len(events)
      <3>1. events'[n] = events[n] /\ stayed'[n] \subseteq stayed[n]
        BY <2>2, <1>2
      <3>2. OurDestinations(stayed'[n]) \subseteq OurDestinations(stayed[n])
        BY <3>1 DEF OurDestinations
      <3>3. EventReached
        BY StableIs DEF RoutingInv
      <3> QED
        BY <3>1, <3>2, <3>3, <1>1 DEF EventReached
    <2> QED
      BY <2>1, <2>2, <1>4
  <1>7. ReceiptReached'
    <2>1. OurDestinations(stayedFor') \subseteq OurDestinations(stayedFor)
      BY <1>1 DEF OurDestinations
    <2>2. ReceiptReached
      BY StableIs DEF RoutingInv
    <2> QED
      BY <2>1, <2>2, <1>1 DEF ReceiptReached
  <1>8. StableMemberReached'
    BY <1>6, <1>7 DEF StableMemberReached, EventReached, ReceiptReached
  <1> QED
    BY <1>3, <1>5, <1>8

LEMMA RoomStepInv ==
  ASSUME RoutingInv, RoomStep
  PROVE  RoutingInv'
  <1>1. RoomShape' /\ FollowsOn' /\ TablesTrue' /\ Onward
    BY SynapseStep DEF RoomStep, RoutingInv
  <1>2. ResolverShape' /\ CacheTrue'
    BY <1>1, RoomStepResolver
  <1>3. StayedKnown' /\ \A e \in 1..Len(events) : stayed'[e] \subseteq stayed[e]
    BY <1>1, RoomStepStayed
  <1>4. ReceiptShape' /\ ExactIsExact' /\ StableMemberReached'
    BY <1>1, <1>3, RoomStepReached
  <1> QED
    BY <1>1, <1>2, <1>3, <1>4 DEF RoutingInv

-----------------------------------------------------------------------------
(* The room's goroutine.                                                   *)

(* There is one state at a group.                                          *)
LEMMA HoldsUnique ==
  ASSUME NEW gs, Grows(gs), NEW g, NEW st, Holds(gs, g, st), NEW tt, Holds(gs, g, tt)
  PROVE  st = tt
  <1>1. PICK c : Edges(c, gs)
    BY ChainsExist
  <1> QED
    BY <1>1 DEF Holds

(* What Put leaves in the cache is what was there, and the answer put.     *)
LEMMA PutEntries ==
  ASSUME CacheTrue, NEW hosts \in SUBSET Servers, group \in Nat \ {0}
  PROVE  /\ Put(hosts) \in Seq([group : Nat \ {0}, hosts : SUBSET Servers])
         /\ Len(Put(hosts)) <= CacheMax
         /\ \A j \in 1..Len(Put(hosts)) :
              \/ Put(hosts)[j] = [group |-> group, hosts |-> hosts]
              \/ \E i \in 1..Len(cache) : Put(hosts)[j] = cache[i]
  <1> DEFINE S == [group : Nat \ {0}, hosts : SUBSET Servers]
             x == [group |-> group, hosts |-> hosts]
             all == <<x>> \o Others
             m == IF Len(all) < CacheMax THEN Len(all) ELSE CacheMax
  <1>1. cache \in Seq(S) /\ Len(cache) \in Nat /\ DOMAIN cache = 1..Len(cache)
    BY DEF CacheTrue, CacheIs
  <1>2. x \in S
    OBVIOUS
  <1>3. CacheMax \in Nat \ {0}
    BY RoutingAssumption
  <1>4. Put(hosts) = SubSeq(all, 1, m)
    BY DEF Put
  <1> HIDE DEF S, x
  <1>5. /\ Others \in Seq(S)
        /\ \A j \in 1..Len(Others) : \E i \in 1..Len(cache) : Others[j] = cache[i]
    <2>1. CASE Entries = {}
      BY <2>1, <1>1 DEF Others
    <2>2. CASE Entries # {}
      <3> DEFINE k == CHOOSE i \in Entries : TRUE
                 head == SubSeq(cache, 1, k - 1)
                 tail == SubSeq(cache, k + 1, Len(cache))
      <3>1. k \in 1..Len(cache)
        <4>1. k \in Entries
          BY <2>2
        <4> QED
          BY <4>1, <1>1 DEF Entries
      <3>2. Others = head \o tail
        BY <2>2 DEF Others, RemoveAt
      <3> HIDE DEF k
      <3>3. head \in Seq(S) /\ Len(head) = k - 1 /\ \A j \in 1..Len(head) : head[j] = cache[j]
        BY <3>1, <1>1
      <3>4. tail \in Seq(S) /\ Len(tail) = Len(cache) - k /\ \A j \in 1..Len(tail) : tail[j] = cache[k + j]
        <4>1. k + 1 \in Int /\ Len(cache) \in Int /\ \A i \in k + 1..Len(cache) : cache[i] \in S
          BY <3>1, <1>1
        <4>2. /\ tail \in Seq(S)
              /\ Len(tail) = IF k + 1 <= Len(cache) THEN Len(cache) - (k + 1) + 1 ELSE 0
              /\ \A j \in 1..Len(cache) - (k + 1) + 1 : tail[j] = cache[k + 1 + j - 1]
          BY <4>1, SubSeqProperties
        <4> HIDE DEF tail
        <4>3. Len(tail) = Len(cache) - k
          <5> DEFINE L == Len(cache)
                     T == Len(tail)
          <5>1. T = IF k + 1 <= L THEN L - (k + 1) + 1 ELSE 0
            BY <4>2
          <5>2. L \in Nat /\ k \in 1..L
            BY <3>1, <1>1
          <5> HIDE DEF L, T
          <5>3. T = L - k
            BY <5>1, <5>2
          <5> QED
            BY <5>3 DEF L, T
        <4>4. \A j \in 1..Len(tail) : j \in 1..Len(cache) - (k + 1) + 1 /\ k + 1 + j - 1 = k + j
          BY <4>3, <3>1, <1>1
        <4> QED
          BY <4>2, <4>3, <4>4
      <3> HIDE DEF head, tail
      <3>5. Others \in Seq(S) /\ Len(Others) = Len(head) + Len(tail)
        BY <3>2, <3>3, <3>4, ConcatProperties
      <3>6. ASSUME NEW j \in 1..Len(Others) PROVE \E i \in 1..Len(cache) : Others[j] = cache[i]
        <4>1. CASE j <= k - 1
          <5>1. j \in 1..Len(head) /\ j \in 1..Len(cache)
            BY <4>1, <3>1, <3>3, <1>1
          <5>2. Others[j] = head[j]
            BY <5>1, <3>2, <3>3, <3>4
          <5> QED
            BY <5>1, <5>2, <3>3
        <4>2. CASE ~ (j <= k - 1)
          <5> DEFINE y == j - (k - 1)
          <5>1. y \in 1..Len(tail) /\ k + y \in 1..Len(cache) /\ j = Len(head) + y
            BY <4>2, <3>1, <3>3, <3>4, <3>5, <1>1
          <5> HIDE DEF y
          <5>2. Others[j] = tail[y]
            BY <5>1, <3>2, <3>3, <3>4
          <5> QED
            BY <5>1, <5>2, <3>4
        <4> QED
          BY <4>1, <4>2
      <3> QED
        BY <3>5, <3>6
    <2> QED
      BY <2>1, <2>2
  <1>6. /\ all \in Seq(S) /\ Len(all) = Len(Others) + 1 /\ Len(all) \in Nat /\ all[1] = x
        /\ \A j \in 1..Len(Others) : all[j + 1] = Others[j]
    BY <1>2, <1>5
  <1> HIDE DEF all
  <1>7. m \in Nat /\ m <= Len(all) /\ m <= CacheMax
    BY <1>3, <1>6
  <1> HIDE DEF m
  <1>8. Put(hosts) \in Seq(S) /\ Len(Put(hosts)) = m /\ \A j \in 1..m : Put(hosts)[j] = all[j]
    BY <1>4, <1>6, <1>7
  <1>9. ASSUME NEW j \in 1..m PROVE all[j] = x \/ \E i \in 1..Len(cache) : all[j] = cache[i]
    <2>1. CASE j = 1
      BY <2>1, <1>6
    <2>2. CASE j # 1
      <3> DEFINE y == j - 1
      <3>1. y \in 1..Len(Others) /\ j = y + 1
        BY <2>2, <1>6, <1>7
      <3> HIDE DEF y
      <3> QED
        BY <3>1, <1>5, <1>6
    <2> QED
      BY <2>1, <2>2
  <1> QED
    BY <1>7, <1>8, <1>9 DEF S, x

(* A cache with the answer of the query put into it is still true.         *)
LEMMA PutTrue ==
  ASSUME RoomShape, CacheTrue, group \in 1..Len(groups), NEW st \in States,
         Holds(groups, group, st)
  PROVE  CacheIs(Put(Hosts(st)), groups)
  <1> DEFINE c == Put(Hosts(st))
  <1>1. Hosts(st) \in SUBSET Servers
    BY HostsType
  <1>2. group \in Nat \ {0} /\ group <= Len(groups)
    BY DEF RoomShape, Grows
  <1>3. /\ c \in Seq([group : Nat \ {0}, hosts : SUBSET Servers]) /\ Len(c) <= CacheMax
        /\ \A j \in 1..Len(c) :
              \/ c[j] = [group |-> group, hosts |-> Hosts(st)]
              \/ \E i \in 1..Len(cache) : c[j] = cache[i]
    BY <1>1, <1>2, PutEntries
  <1> HIDE DEF c
  <1>4. ASSUME NEW j \in 1..Len(c)
        PROVE  c[j].group <= Len(groups)
               /\ \E tt \in States : Holds(groups, c[j].group, tt) /\ c[j].hosts = Hosts(tt)
    <2>1. CASE c[j] = [group |-> group, hosts |-> Hosts(st)]
      BY <2>1, <1>2
    <2>2. CASE \E i \in 1..Len(cache) : c[j] = cache[i]
      BY <2>2 DEF CacheTrue, CacheIs
    <2> QED
      BY <2>1, <2>2, <1>3
  <1>5. CacheIs(c, groups)
    BY <1>3, <1>4 DEF CacheIs
  <1> QED
    BY <1>5 DEF c

(* The room and who stays, unchanged.                                      *)
LEMMA RoomSame ==
  ASSUME RoutingInv, UNCHANGED <<roomVars, stayed>>
  PROVE  RoomShape' /\ FollowsOn' /\ TablesTrue' /\ StayedKnown'
  <1>1. /\ events' = events /\ groupOf' = groupOf /\ groups' = groups /\ current' = current
        /\ tips' = tips /\ joinList' = joinList /\ resync' = resync
        /\ before' = before /\ after' = after /\ inRoom' = inRoom /\ stayed' = stayed
    BY DEF roomVars, stored, truth
  <1>2. RoomShape /\ FollowsOn /\ TablesTrue /\ StayedKnown
    BY DEF RoutingInv
  <1>3. RoomShape'
    BY <1>1, <1>2 DEF RoomShape
  <1>4. FollowsOn'
    BY <1>1, <1>2 DEF FollowsOn
  <1>5. TablesTrue'
    BY <1>1, <1>2 DEF TablesTrue
  <1>6. StayedKnown'
    BY <1>1, <1>2 DEF StayedKnown
  <1> QED
    BY <1>3, <1>4, <1>5, <1>6

(* A route to enough servers, and to the right ones if it says so.         *)
LEMMA RouteReaches ==
  ASSUME RoutingInv, UNCHANGED <<roomVars, stayed>>, handled < Len(events),
         NEW hosts, NEW approximate \in BOOLEAN, Route(hosts, approximate),
         stayed[handled + 1] \subseteq hosts,
         ~ approximate => hosts = Hosts(before[handled + 1])
  PROVE  ExactIsExact' /\ EventReached'
         /\ handled' = handled + 1 /\ routed'.event = handled + 1 /\ pc' = "idle" /\ group' = 0
  <1> PICK n : n = handled + 1
    OBVIOUS
  <1> DEFINE ev == events[n]
             all == ((hosts \cup Rescinded(ev, n)) \ {Us}) \cap Whitelist
  <1>1. /\ handled' = n /\ pc' = "idle" /\ group' = 0
        /\ routed' = [event |-> n, all |-> all, approximate |-> approximate, ours |-> OurShard(all, ev)]
    BY DEF Route, Event
  <1>2. events' = events /\ before' = before /\ stayed' = stayed
    BY DEF roomVars, stored, truth
  <1>3. Rescinded(events[n], n)' = Rescinded(ev, n)
    BY <1>1, <1>2 DEF Rescinded, HasInviteFor
  <1>4. ExactIsExact'
    <2>1. ASSUME ~ approximate
          PROVE  all = ((Hosts(before[n]) \cup Rescinded(ev, n)) \ {Us}) \cap Whitelist
      BY <2>1
    <2> HIDE DEF ev, all
    <2>2. routed'.event = n /\ routed'.approximate = approximate /\ routed'.all = all
      BY <1>1
    <2> QED
      BY <2>1, <2>2, <1>2, <1>3 DEF ExactIsExact, ev
  <1>5. EventReached'
    <2>1. (OurDestinations(stayed[n]) \cap Whitelist) \ SendOnBehalfOf(ev) \subseteq OurShard(all, ev)
      BY DEF OurDestinations, OurShard
    <2> HIDE DEF ev, all
    <2>2. routed'.event = n /\ routed'.ours = OurShard(all, ev)
      BY <1>1
    <2> QED
      BY <2>1, <2>2, <1>2 DEF EventReached, ev
  <1> QED
    BY <1>1, <1>4, <1>5

(* The steps of the goroutine: what it reads holds, and it routes by it.   *)
LEMMA ResolverKeeps ==
  ASSUME RoutingInv, ResolverStep
  PROVE  ResolverShape' /\ CacheTrue' /\ ExactIsExact' /\ EventReached'
  <1>1. /\ UNCHANGED <<roomVars, stayed>>
        /\ events' = events /\ groups' = groups /\ joinList' = joinList
        /\ before' = before /\ stayed' = stayed
    BY DEF ResolverStep, roomVars, stored, truth
  <1>2. /\ handled \in 0..Len(events) /\ routed.event \in 0..handled /\ group \in 0..Len(groups)
        /\ Len(events) \in Nat /\ Len(groups) \in Nat /\ Len(events) >= 1 /\ Grows(groups)
    BY DEF RoutingInv, ResolverShape, RoomShape, Grows
  <1>3. /\ pc \notin {"off", "idle"} =>
             handled < Len(events) /\ Eligible(Event) /\ Event.prevs # {}
        /\ pc \in {"groups", "cache", "query", "current"} => joinList = {}
        /\ pc \in {"cache", "query"} => group # 0 /\ Holds(groups, group, before[handled + 1])
    BY DEF RoutingInv, ResolverShape
  <1>4. CacheTrue /\ ExactIsExact /\ EventReached /\ RoomShape /\ FollowsOn /\ TablesTrue
        /\ StayedKnown
    BY StableIs DEF RoutingInv
  (* Nothing is routed: what was true of the last route is.                *)
  <1>5. routed' = routed => ExactIsExact' /\ EventReached'
    BY <1>1, <1>4 DEF ExactIsExact, EventReached, Rescinded, HasInviteFor
  <1>6. cache' = cache => CacheTrue'
    BY <1>1, <1>4 DEF CacheTrue
  (* An event is routed: the goroutine is idle.                            *)
  <1>7. ASSUME handled < Len(events), handled' = handled + 1, routed'.event = handled + 1,
               pc' = "idle", group' = 0
        PROVE  ResolverShape'
    <2>1. handled + 1 \in 0..Len(events) /\ handled + 1 \in 0..handled + 1 /\ 0 \in 0..Len(groups)
      BY <1>2, <1>7
    <2> QED
      BY <2>1, <1>1, <1>7 DEF ResolverShape
  <1>8. handled < Len(events) =>
          /\ handled + 1 \in 1..Len(events)
          /\ stayed[handled + 1] \subseteq Hosts(before[handled + 1]) \cap Hosts(inRoom)
          /\ joinList # {} => stayed[handled + 1] \subseteq joinList
    <2>1. handled < Len(events) => handled + 1 \in 1..Len(events)
      BY <1>2
    <2> QED
      BY <2>1, <1>4 DEF StayedKnown
  <1>9. CASE HandleEvent
    <2>1. CASE (~Eligible(Event) \/ Event.prevs = {}) /\ Skip /\ handled < Len(events)
      <3>1. /\ handled' = handled + 1 /\ pc' = "idle" /\ group' = 0
            /\ routed' = [NotRouted EXCEPT !.event = handled + 1]
        BY <2>1 DEF Skip
      <3>2. routed' = [event |-> handled + 1, all |-> {}, ours |-> {}, approximate |-> TRUE]
        BY <3>1 DEF NotRouted
      <3>3. ExactIsExact'
        BY <3>2 DEF ExactIsExact
      <3>4. EventReached'
        <4>1. PICK n : n = handled + 1
          OBVIOUS
        <4>2. n \in 1..Len(events) /\ routed'.event = n /\ routed'.ours = {}
          BY <4>1, <3>2, <1>8, <2>1
        <4>3. CASE ~ Eligible(events[n])
          BY <4>2, <4>3, <1>1 DEF EventReached
        <4>4. CASE events[n].prevs = {}
          <5>1. n = 1
            BY <4>2, <4>4, <1>4 DEF FollowsOn
          <5>2. stayed'[n] = {}
            BY <5>1, <1>1, <1>4 DEF StayedKnown
          <5> QED
            BY <5>2, <4>2 DEF EventReached, OurDestinations
        <4> QED
          BY <4>1, <4>3, <4>4, <2>1 DEF Event
      <3>5. cache' = cache
        BY <1>9 DEF HandleEvent
      <3> QED
        BY <3>1, <3>2, <3>3, <3>4, <3>5, <1>6, <1>7, <2>1
    <2>2. CASE /\ Eligible(Event) /\ Event.prevs # {} /\ handled < Len(events)
               /\ pc' = "partial" /\ UNCHANGED <<handled, group, routed>>
      <3>1. ResolverShape'
        BY <2>2, <1>1, <1>2 DEF ResolverShape, Event
      <3>2. cache' = cache
        BY <1>9 DEF HandleEvent
      <3> QED
        BY <3>1, <3>2, <2>2, <1>5, <1>6
    <2> QED
      BY <2>1, <2>2, <1>9 DEF HandleEvent
  <1>10. CASE ReadPartialState
    <2>1. pc = "partial" /\ cache' = cache
      BY <1>10 DEF ReadPartialState
    <2>2. CASE joinList # {} /\ Route(joinList, TRUE)
      <3>1. handled < Len(events) /\ stayed[handled + 1] \subseteq joinList
        BY <2>1, <2>2, <1>3, <1>8
      <3>2. ExactIsExact' /\ EventReached'
            /\ handled' = handled + 1 /\ routed'.event = handled + 1 /\ pc' = "idle" /\ group' = 0
        BY <3>1, <2>2, <1>1, RouteReaches
      <3> QED
        BY <3>1, <3>2, <2>1, <1>6, <1>7
    <2>3. CASE joinList = {} /\ pc' = "groups" /\ UNCHANGED <<handled, group, routed>>
      <3>1. ResolverShape'
        BY <2>1, <2>3, <1>1, <1>2, <1>3 DEF ResolverShape, Event
      <3> QED
        BY <3>1, <2>1, <2>3, <1>5, <1>6
    <2> QED
      BY <2>2, <2>3, <1>10 DEF ReadPartialState
  <1>11. CASE ReadStateGroups
    <2> DEFINE ids == Event.prevs
    <2>1. /\ pc = "groups" /\ UNCHANGED <<handled, cache, routed>>
          /\ \/ /\ SingleGroup(ids)
                /\ pc' = "cache" /\ group' \in {groupOf[p] : p \in ids}
             \/ pc' = "current" /\ group' = group
      BY <1>11 DEF ReadStateGroups, PrevEvents
    <2>2. joinList = {} /\ handled < Len(events) /\ Eligible(Event) /\ ids # {}
      BY <2>1, <1>3
    <2>3. CASE SingleGroup(ids) /\ pc' = "cache" /\ group' \in {groupOf[p] : p \in ids}
      <3>1. PICK n : n = handled + 1
        OBVIOUS
      <3>2. n \in 1..Len(events) /\ Event = events[n]
        BY <3>1, <2>2, <1>8 DEF Event
      <3>3. ids \subseteq 1..n - 1 /\ (n # 1 => \A u \in Users : \E p \in ids : before[n][u] = after[p][u])
        BY <3>2, <1>4 DEF FollowsOn
      <3>4. n # 1
        BY <3>3, <2>2
      <3>5. PICK q \in ids : group' = groupOf[q]
        BY <2>3
      <3>6. \A p \in ids : p \in 1..Len(events) /\ groupOf[p] = group' /\ groupOf[p] # 0
        <4>1. \A p \in ids : groupOf[p] = groupOf[q] /\ groupOf[p] # 0
          BY <2>3 DEF SingleGroup, GetStateGroupsForEvents
        <4>2. \A p \in ids : p \in 1..Len(events)
          BY <3>2, <3>3, <1>2
        <4> QED
          BY <4>1, <4>2, <3>5
      <3>7. resync = "full"
        BY <2>2, <1>4 DEF TablesTrue
      <3>8. \A p \in ids : Holds(groups, group', after[p])
        BY <3>6, <3>7, <1>4 DEF TablesTrue
      <3>9. \A p \in ids : after[p] = after[q]
        BY <3>8, <1>2, HoldsUnique
      <3>10. before[n] = after[q]
        <4>1. before[n] \in States /\ after[q] \in States
          BY <3>2, <3>6, <1>4 DEF RoomShape
        <4>2. \A u \in Users : before[n][u] = after[q][u]
          BY <3>3, <3>4, <3>9
        <4> QED
          BY <4>1, <4>2 DEF States
      <3>11. group' \in 0..Len(groups) /\ group' # 0
        BY <3>5, <3>6, <1>4 DEF RoomShape
      <3>12. Holds(groups, group', before[n])
        BY <3>8, <3>10
      <3>13. ResolverShape'
        BY <3>1, <3>11, <3>12, <2>1, <2>2, <2>3, <1>1, <1>2 DEF ResolverShape, Event
      <3> QED
        BY <3>13, <2>1, <1>5, <1>6
    <2>4. CASE pc' = "current" /\ group' = group
      <3>1. ResolverShape'
        BY <2>1, <2>2, <2>4, <1>1, <1>2 DEF ResolverShape, Event
      <3> QED
        BY <3>1, <2>1, <1>5, <1>6
    <2> QED
      BY <2>1, <2>3, <2>4
  <1>12. CASE AskCache
    <2>1. pc = "cache"
      BY <1>12 DEF AskCache
    <2>2. handled < Len(events) /\ group # 0 /\ Holds(groups, group, before[handled + 1])
          /\ joinList = {} /\ Eligible(Event) /\ Event.prevs # {}
      BY <2>1, <1>3
    <2>3. group \in 1..Len(groups) /\ handled + 1 \in 1..Len(events)
      BY <2>2, <1>2, <1>8
    <2>4. before[handled + 1] \in States
      BY <2>3, <1>4 DEF RoomShape
    <2>5. ASSUME NEW i \in Entries, Route(cache[i].hosts, FALSE), cache' = Put(cache[i].hosts)
          PROVE  ResolverShape' /\ CacheTrue' /\ ExactIsExact' /\ EventReached'
      <3>1. i \in 1..Len(cache) /\ cache[i].group = group
        BY <1>4 DEF Entries, CacheTrue, CacheIs
      <3>2. PICK st \in States : Holds(groups, group, st) /\ cache[i].hosts = Hosts(st)
        BY <3>1, <1>4 DEF CacheTrue, CacheIs
      <3>3. st = before[handled + 1]
        BY <3>2, <2>2, <1>2, HoldsUnique
      <3>4. stayed[handled + 1] \subseteq cache[i].hosts /\ cache[i].hosts = Hosts(before[handled + 1])
        BY <3>2, <3>3, <2>2, <1>8
      <3>5. ExactIsExact' /\ EventReached'
            /\ handled' = handled + 1 /\ routed'.event = handled + 1 /\ pc' = "idle" /\ group' = 0
        BY <3>4, <2>2, <2>5, <1>1, RouteReaches
      <3>6. CacheIs(Put(Hosts(st)), groups)
        BY <3>2, <2>3, <1>4, PutTrue
      <3>7. CacheTrue'
        BY <3>2, <3>6, <2>5, <1>1 DEF CacheTrue
      <3> QED
        BY <3>5, <3>7, <2>2, <1>7
    <2>6. CASE pc' = "query" /\ UNCHANGED <<handled, group, cache, routed>>
      <3>1. ResolverShape'
        BY <2>2, <2>6, <1>1, <1>2 DEF ResolverShape, Event
      <3> QED
        BY <3>1, <2>6, <1>5, <1>6
    <2> QED
      BY <2>5, <2>6, <1>12 DEF AskCache
  <1>13. CASE QueryHosts
    <2>1. pc = "query" /\ Route(JoinedHostsAtStateGroup(group), FALSE)
          /\ cache' = Put(JoinedHostsAtStateGroup(group))
      BY <1>13 DEF QueryHosts
    <2>2. handled < Len(events) /\ group # 0 /\ Holds(groups, group, before[handled + 1])
      BY <2>1, <1>3
    <2>3. group \in 1..Len(groups) /\ handled + 1 \in 1..Len(events)
      BY <2>2, <1>2, <1>8
    <2> DEFINE st == before[handled + 1]
               hosts == JoinedHostsAtStateGroup(group)
    <2>4. st \in States
      BY <2>3, <1>4 DEF RoomShape
    <2>5. StateAt(group) = st
      BY <2>2, <1>2, StateAtIs
    <2>6. hosts = Hosts(st)
      BY <2>5 DEF JoinedHostsAtStateGroup
    <2>7. stayed[handled + 1] \subseteq hosts
      BY <2>2, <2>6, <1>8
    <2>8. ExactIsExact' /\ EventReached'
          /\ handled' = handled + 1 /\ routed'.event = handled + 1 /\ pc' = "idle" /\ group' = 0
      BY <2>1, <2>2, <2>6, <2>7, <1>1, RouteReaches
    <2>9. CacheIs(Put(hosts), groups)
      BY <2>2, <2>3, <2>4, <2>6, <1>4, PutTrue
    <2>10. CacheTrue'
      BY <2>1, <2>9, <1>1 DEF CacheTrue
    <2> QED
      BY <2>2, <2>8, <2>10, <1>7
  <1>14. CASE ReadCurrentHosts
    <2>1. pc = "current" /\ Route(CurrentJoinedHosts, TRUE) /\ cache' = cache
      BY <1>14 DEF ReadCurrentHosts
    <2>2. joinList = {} /\ handled < Len(events)
      BY <2>1, <1>3
    <2>3. current = inRoom
      BY <2>2, <1>4 DEF TablesTrue
    <2>4. stayed[handled + 1] \subseteq CurrentJoinedHosts
      BY <2>2, <2>3, <1>8 DEF CurrentJoinedHosts
    <2>5. ExactIsExact' /\ EventReached'
          /\ handled' = handled + 1 /\ routed'.event = handled + 1 /\ pc' = "idle" /\ group' = 0
      BY <2>1, <2>2, <2>4, <1>1, RouteReaches
    <2> QED
      BY <2>1, <2>2, <2>5, <1>6, <1>7
  <1>15. CASE ResolveFails
    <2>1. pc' = "idle" /\ group' = 0 /\ UNCHANGED <<handled, cache, routed>>
      BY <1>15 DEF ResolveFails
    <2>2. ResolverShape'
      BY <2>1, <1>1, <1>2 DEF ResolverShape
    <2> QED
      BY <2>1, <2>2, <1>5, <1>6
  <1> QED
    BY <1>9, <1>10, <1>11, <1>12, <1>13, <1>14, <1>15 DEF ResolverStep

LEMMA ResolverStepInv ==
  ASSUME RoutingInv, ResolverStep
  PROVE  RoutingInv'
  <1>1. ResolverShape' /\ CacheTrue' /\ ExactIsExact' /\ EventReached'
    BY ResolverKeeps
  <1>2. UNCHANGED <<roomVars, stayed>> /\ stayedFor' = stayedFor
        /\ rpc' = rpc /\ atJoin' = atJoin /\ receipt' = receipt
        /\ joinList' = joinList /\ inRoom' = inRoom /\ current' = current
    BY DEF ResolverStep, HandleEvent, ReadPartialState, ReadStateGroups, AskCache, QueryHosts,
         ReadCurrentHosts, ResolveFails, roomVars, stored, truth
  <1>3. RoomShape' /\ FollowsOn' /\ TablesTrue' /\ StayedKnown'
    BY <1>2, RoomSame
  <1>4. ReceiptShape'
    BY <1>2 DEF RoutingInv, ReceiptShape, Known, KnownToJoin, CurrentJoinedHosts
  <1>5. ReceiptReached'
    <2>1. ReceiptReached
      BY StableIs DEF RoutingInv
    <2> QED
      BY <1>2, <2>1 DEF ReceiptReached
  <1>6. StableMemberReached'
    BY <1>1, <1>5 DEF StableMemberReached, EventReached, ReceiptReached
  <1> QED
    BY <1>1, <1>3, <1>4, <1>6 DEF RoutingInv

-----------------------------------------------------------------------------
(* The receipt's goroutine.                                                *)

LEMMA ReceiptStepInv ==
  ASSUME RoutingInv, ReceiptStep
  PROVE  RoutingInv'
  <1>1. /\ UNCHANGED <<roomVars, stayed>>
        /\ handled' = handled /\ pc' = pc /\ group' = group /\ cache' = cache /\ routed' = routed
    BY DEF ReceiptStep, FirstRead, SecondRead
  <1>2. /\ events' = events /\ groups' = groups /\ before' = before /\ stayed' = stayed
        /\ joinList' = joinList /\ inRoom' = inRoom /\ current' = current
    BY <1>1 DEF roomVars, stored, truth
  <1>3. RoomShape' /\ FollowsOn' /\ TablesTrue' /\ StayedKnown'
    BY <1>1, RoomSame
  <1>4. ResolverShape /\ CacheTrue /\ ExactIsExact /\ EventReached /\ ReceiptReached
        /\ ReceiptShape /\ TablesTrue
    BY StableIs DEF RoutingInv
  <1>5. ResolverShape'
    BY <1>1, <1>2, <1>4 DEF ResolverShape, Event
  <1>6. CacheTrue'
    BY <1>1, <1>2, <1>4 DEF CacheTrue
  <1>7. ExactIsExact'
    BY <1>1, <1>2, <1>4 DEF ExactIsExact, Rescinded, HasInviteFor
  <1>8. EventReached'
    BY <1>1, <1>2, <1>4 DEF EventReached
  (* The list of the join is read first, and everyone known is on it or in *)
  (* the current state,                                                    *)
  <1>9. ASSUME FirstRead, stayedFor' = Known
        PROVE  ReceiptShape' /\ ReceiptReached'
    <2>1. rpc' = "one" /\ atJoin' = joinList
      BY <1>9 DEF FirstRead, RoomHostsOrder
    <2>2. Known' = Known
      BY <1>2 DEF Known, KnownToJoin, CurrentJoinedHosts
    <2>3. ReceiptShape'
      BY <2>1, <2>2, <1>2, <1>9 DEF ReceiptShape
    <2>4. ReceiptReached'
      BY <2>1 DEF ReceiptReached
    <2> QED
      BY <2>3, <2>4
  (* and still is when that is read, or the current state is the truth.    *)
  <1>10. ASSUME SecondRead, stayedFor' = stayedFor
         PROVE  ReceiptShape' /\ ReceiptReached'
    <2>1. rpc = "one" /\ rpc' = "done"
          /\ receipt' = OurDestinations(atJoin \cup CurrentJoinedHosts) \cap Awake
      BY <1>10 DEF SecondRead, RoomHostsOrder
    <2>2. stayedFor \subseteq Known /\ (joinList = {} \/ atJoin = joinList)
      BY <2>1, <1>4 DEF ReceiptShape
    <2>3. stayedFor \subseteq atJoin \cup CurrentJoinedHosts
      <3>1. CASE joinList = {}
        <4>1. current = inRoom
          BY <3>1, <1>4 DEF TablesTrue
        <4> QED
          BY <4>1, <2>2 DEF Known, CurrentJoinedHosts
      <3>2. CASE joinList # {}
        BY <3>2, <2>2 DEF Known, KnownToJoin
      <3> QED
        BY <3>1, <3>2
    <2>4. OurDestinations(stayedFor) \subseteq OurDestinations(atJoin \cup CurrentJoinedHosts)
      BY <2>3 DEF OurDestinations
    <2>5. ReceiptReached'
      BY <2>1, <2>4, <1>10 DEF ReceiptReached
    <2>6. ReceiptShape'
      BY <2>1 DEF ReceiptShape
    <2> QED
      BY <2>5, <2>6
  <1>11. ReceiptShape' /\ ReceiptReached'
    BY <1>9, <1>10 DEF ReceiptStep
  <1>12. StableMemberReached'
    BY <1>8, <1>11 DEF StableMemberReached, EventReached, ReceiptReached
  <1> QED
    BY <1>3, <1>5, <1>6, <1>7, <1>11, <1>12 DEF RoutingInv

-----------------------------------------------------------------------------
(* The theorems.                                                           *)

LEMMA RoutingStarts == RoutingInit => RoutingInv
  <1> SUFFICES ASSUME RoutingInit PROVE RoutingInv
    OBVIOUS
  <1>1. RoomShape /\ FollowsOn /\ TablesTrue
    BY RoomStarts DEF RoutingInit
  <1>2. /\ pc \in {"idle", "off"} /\ rpc = (IF pc = "idle" THEN "off" ELSE "idle")
        /\ handled \in {0, 1} /\ group = 0 /\ cache = <<>> /\ routed = NotRouted
        /\ stayed = <<{}>> /\ stayedFor = {}
    BY DEF RoutingInit
  <1>3. Len(events) = 1
    BY DEF RoutingInit, RoomInit
  <1>4. routed.event = 0
    BY <1>2 DEF NotRouted
  <1>5. ResolverShape
    BY <1>1, <1>2, <1>3, <1>4 DEF ResolverShape, RoomShape, Grows
  <1>6. CacheTrue
    BY <1>2, RoutingAssumption DEF CacheTrue, CacheIs
  <1>7. StayedKnown
    <2>1. stayed \in Seq(SUBSET Servers) /\ Len(stayed) = 1 /\ stayed[1] = {}
      BY <1>2
    <2>2. \A e \in 1..1 : e = 1
      OBVIOUS
    <2> QED
      BY <2>1, <2>2, <1>3 DEF StayedKnown
  <1>8. ReceiptShape /\ ExactIsExact /\ StableMemberReached
    BY <1>2, <1>4 DEF ReceiptShape, ExactIsExact, StableMemberReached
  <1> QED
    BY <1>1, <1>5, <1>6, <1>7, <1>8 DEF RoutingInv

LEMMA RoutingSteps == RoutingInv /\ [RoutingNext]_routingVars => RoutingInv'
  <1> SUFFICES ASSUME RoutingInv, [RoutingNext]_routingVars PROVE RoutingInv'
    OBVIOUS
  <1>1. CASE RoomStep
    BY <1>1, RoomStepInv
  <1>2. CASE ResolverStep
    BY <1>2, ResolverStepInv
  <1>3. CASE ReceiptStep
    BY <1>3, ReceiptStepInv
  <1>4. CASE UNCHANGED routingVars
    <2>1. /\ UNCHANGED <<roomVars, stayed>> /\ UNCHANGED routeVars /\ stayedFor' = stayedFor
      BY <1>4 DEF routingVars
    <2>2. /\ events' = events /\ groups' = groups /\ before' = before /\ stayed' = stayed
          /\ joinList' = joinList /\ inRoom' = inRoom /\ current' = current
          /\ handled' = handled /\ pc' = pc /\ group' = group /\ cache' = cache /\ routed' = routed
          /\ rpc' = rpc /\ atJoin' = atJoin /\ receipt' = receipt
      BY <2>1 DEF roomVars, stored, truth, routeVars
    <2>3. RoomShape' /\ FollowsOn' /\ TablesTrue' /\ StayedKnown'
      BY <2>1, RoomSame
    <2>4. ResolverShape /\ CacheTrue /\ ExactIsExact /\ StableMemberReached /\ ReceiptShape
      BY DEF RoutingInv
    <2>5. ResolverShape' /\ CacheTrue'
      BY <2>2, <2>4 DEF ResolverShape, CacheTrue, Event
    <2>6. ReceiptShape'
      BY <2>1, <2>2, <2>4 DEF ReceiptShape, Known, KnownToJoin, CurrentJoinedHosts
    <2>7. ExactIsExact'
      BY <2>2, <2>4 DEF ExactIsExact, Rescinded, HasInviteFor
    <2>8. StableMemberReached'
      BY <2>1, <2>2, <2>4 DEF StableMemberReached
    <2> QED
      BY <2>3, <2>5, <2>6, <2>7, <2>8 DEF RoutingInv
  <1> QED
    BY <1>1, <1>2, <1>3, <1>4 DEF RoutingNext

LEMMA RoutingInvAlways == RoutingSpec => []RoutingInv
  BY RoutingStarts, RoutingSteps, PTL DEF RoutingSpec

(* A route not marked approximate is exactly the servers in the room before *)
(* the event and the one whose invite it takes back, for any DAG, any       *)
(* chains of groups and any cache (Resolve in resolve.go).                  *)
THEOREM ExactIsExactAlways == RoutingSpec => []ExactIsExact
  <1>1. RoutingInv => ExactIsExact
    BY DEF RoutingInv
  <1> QED
    BY <1>1, RoutingInvAlways, PTL

(* A server that stays gets the event, and one that stays and is known of   *)
(* the receipt, whenever the room leaves partial state (Resolve, and        *)
(* roomHosts in ephemeral.go).                                              *)
THEOREM StableMemberReachedAlways == RoutingSpec => []StableMemberReached
  <1>1. RoutingInv => StableMemberReached
    BY DEF RoutingInv
  <1> QED
    BY <1>1, RoutingInvAlways, PTL

-----------------------------------------------------------------------------
(* The types.                                                              *)

(* What the invariant does not say: routes and lists are of servers.       *)
RoutesTyped ==
  /\ routed.all \subseteq Servers /\ routed.ours \subseteq routed.all
  /\ rpc \in {"off", "idle", "one", "done"}
  /\ {atJoin, hostsNow, receipt, stayedFor} \subseteq SUBSET Servers

LEMMA RouteTyped ==
  ASSUME NEW hosts, NEW approximate, Route(hosts, approximate)
  PROVE  routed'.all \subseteq Servers /\ routed'.ours \subseteq routed'.all
  <1> DEFINE all == ((hosts \cup Rescinded(Event, handled + 1)) \ {Us}) \cap Whitelist
             ours == OurShard(all, Event)
  <1>1. routed' = [event |-> handled + 1, all |-> all, approximate |-> approximate, ours |-> ours]
    BY DEF Route
  <1>2. all \subseteq Servers /\ ours \subseteq all
    BY RoutingAssumption DEF OurShard
  <1> HIDE DEF all, ours
  <1> QED
    BY <1>1, <1>2

LEMMA RoutesTypedStep ==
  ASSUME RoutingInv, RoutesTyped, [RoutingNext]_routingVars
  PROVE  RoutesTyped'
  <1>1. joinList \subseteq Servers
    BY DEF RoutingInv, RoomShape
  <1>2. CASE RoomStep
    <2>1. stayedFor' \subseteq stayedFor /\ UNCHANGED routeVars
      BY <1>2 DEF RoomStep
    <2> QED
      BY <2>1 DEF RoutesTyped, routeVars
  <1>3. CASE ResolverStep
    <2>1. rpc' = rpc /\ atJoin' = atJoin /\ hostsNow' = hostsNow /\ receipt' = receipt
          /\ stayedFor' = stayedFor
      BY <1>3 DEF ResolverStep, HandleEvent, ReadPartialState, ReadStateGroups, AskCache, QueryHosts,
           ReadCurrentHosts, ResolveFails
    <2>2. routed' = routed \/ Skip \/ \E hosts, approximate : Route(hosts, approximate)
      BY <1>3 DEF ResolverStep, HandleEvent, ReadPartialState, ReadStateGroups, AskCache, QueryHosts,
           ReadCurrentHosts, ResolveFails
    <2>3. routed'.all \subseteq Servers /\ routed'.ours \subseteq routed'.all
      <3>1. CASE routed' = routed
        BY <3>1 DEF RoutesTyped
      <3>2. CASE Skip
        BY <3>2 DEF Skip, NotRouted
      <3>3. CASE \E hosts, approximate : Route(hosts, approximate)
        BY <3>3, RouteTyped
      <3> QED
        BY <2>2, <3>1, <3>2, <3>3
    <2> QED
      BY <2>1, <2>3 DEF RoutesTyped
  <1>4. CASE ReceiptStep
    <2>1. routed' = routed
      BY <1>4 DEF ReceiptStep, FirstRead, SecondRead
    <2>2. CASE FirstRead /\ stayedFor' = Known
      <3>1. rpc' = "one" /\ receipt' = {} /\ atJoin' = joinList /\ hostsNow' = {}
        BY <2>2 DEF FirstRead, RoomHostsOrder
      <3>2. Known \subseteq Servers
        BY HostsType DEF Known
      <3> QED
        BY <3>1, <3>2, <2>1, <2>2, <1>1 DEF RoutesTyped
    <2>3. CASE SecondRead /\ stayedFor' = stayedFor
      <3>1. rpc' = "done" /\ atJoin' = {} /\ hostsNow' = {} /\ receipt' \subseteq Awake
        BY <2>3 DEF SecondRead
      <3>2. receipt' \subseteq Servers
        BY <3>1, RoutingAssumption
      <3> QED
        BY <3>1, <3>2, <2>1, <2>3 DEF RoutesTyped
    <2> QED
      BY <2>2, <2>3, <1>4 DEF ReceiptStep
  <1>5. CASE UNCHANGED routingVars
    BY <1>5 DEF RoutesTyped, routingVars, routeVars
  <1> QED
    BY <1>2, <1>3, <1>4, <1>5 DEF RoutingNext

LEMMA TypesFollow == RoutingInv /\ RoutesTyped => RoutingTypeOK
  <1> SUFFICES ASSUME RoutingInv, RoutesTyped PROVE RoutingTypeOK
    OBVIOUS
  <1>1. RoomShape /\ FollowsOn /\ ResolverShape /\ CacheTrue /\ StayedKnown
    BY DEF RoutingInv
  <1>2. /\ events \in Seq(Events) /\ Len(events) \in Nat /\ DOMAIN events = 1..Len(events)
        /\ Grows(groups) /\ groups \in Seq(Groups) /\ DOMAIN groups = 1..Len(groups)
        /\ Len(groups) \in Nat
    BY <1>1 DEF RoomShape, Grows
  <1>3. ASSUME NEW e \in 1..Len(events)
        PROVE  /\ events[e].kind \in Kinds /\ {events[e].by, events[e].on} \subseteq Users
               /\ events[e].prevs \subseteq 1..e - 1
    <2>1. events[e] \in Events /\ events[e].prevs \subseteq 1..e - 1
      BY <1>1, <1>2 DEF FollowsOn
    <2> QED
      BY <2>1 DEF Events
  <1>4. ASSUME NEW g \in 1..Len(groups)
        PROVE  groups[g].prev \in 0..g - 1 /\ DOMAIN groups[g].delta \subseteq Users
    <2>1. groups[g] \in Groups /\ groups[g].prev \in 0..g - 1
      BY <1>2 DEF Grows
    <2>2. groups[g].delta \in Deltas
      BY <2>1 DEF Groups
    <2> QED
      BY <2>1, <2>2 DEF Deltas
  <1>5. groupOf \in [DOMAIN events -> 0..Len(groups)]
    <2>1. groupOf = [e \in 1..Len(events) |-> groupOf[e]]
      BY <1>1 DEF RoomShape
    <2>2. \A e \in 1..Len(events) : groupOf[e] \in 0..Len(groups)
      BY <1>1 DEF RoomShape
    <2> QED
      BY <2>1, <2>2, <1>2
  <1>6. before \in [DOMAIN events -> States] /\ after \in [DOMAIN events -> States]
    BY <1>1, <1>2 DEF RoomShape
  <1>7. RoomTypeOK
    BY <1>1, <1>2, <1>3, <1>4, <1>5, <1>6 DEF RoomTypeOK, RoomShape
  <1>8. Len(cache) <= CacheMax /\ \A i \in DOMAIN cache : cache[i].group \in DOMAIN groups
    <2> DEFINE S == [group : Nat \ {0}, hosts : SUBSET Servers]
    <2>1. cache \in Seq(S) /\ Len(cache) <= CacheMax
          /\ \A i \in 1..Len(cache) : cache[i].group <= Len(groups)
      BY <1>1 DEF CacheTrue, CacheIs
    <2>2. \A x \in S : x.group \in Nat \ {0}
      OBVIOUS
    <2> HIDE DEF S
    <2>3. \A i \in DOMAIN cache : i \in 1..Len(cache) /\ cache[i] \in S
      BY <2>1
    <2>4. \A i \in DOMAIN cache : cache[i].group \in Nat \ {0} /\ cache[i].group <= Len(groups)
      BY <2>1, <2>2, <2>3
    <2>5. \A g \in Nat \ {0} : g <= Len(groups) => g \in DOMAIN groups
      BY <1>2
    <2> QED
      BY <2>1, <2>4, <2>5
  <1>9. stayed \in [DOMAIN events -> SUBSET Servers]
    BY <1>1, <1>2 DEF StayedKnown
  <1>10. /\ handled \in 0..Len(events) /\ routed.event \in 0..handled /\ group \in 0..Len(groups)
         /\ pc \in {"off", "idle", "partial", "groups", "cache", "query", "current"}
    BY <1>1 DEF ResolverShape
  <1> QED
    BY <1>7, <1>8, <1>9, <1>10 DEF RoutingTypeOK, RoutesTyped

(* What the worker reads, caches and routes is of the types the module      *)
(* declares, in every reachable state.                                      *)
THEOREM RoutingTypeAlways == RoutingSpec => []RoutingTypeOK
  <1>1. RoutingInit => RoutesTyped
    BY DEF RoutingInit, RoutesTyped, NotRouted
  <1>2. RoutingInv /\ RoutesTyped /\ [RoutingNext]_routingVars => RoutesTyped'
    BY RoutesTypedStep
  <1> QED
    BY <1>1, <1>2, RoutingInvAlways, TypesFollow, PTL DEF RoutingSpec
=============================================================================
