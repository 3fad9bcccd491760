------------------------------- MODULE Typing -------------------------------
(***************************************************************************)
(* sender.Typing: from the rooms' typing sets to start and stop notices.   *)
(* Three goroutines share it: the replication goroutine (HandleRows), the  *)
(* ticker's (KeepAlive) and the one consumer of the work channel (Run).    *)
(* A step is one critical section of t.mu, one channel operation, or one   *)
(* push.  One remote server stands for the servers of a room: a push       *)
(* either reaches its queue or does not.                                   *)
(*                                                                         *)
(* Time is counted in ticks of the keep-alive ticker, a quarter of         *)
(* FederationPingInterval.                                                 *)
(***************************************************************************)
EXTENDS Naturals, Sequences, FiniteSets, SequencesExt

CONSTANTS
  Rooms, Users,
  JoinedTo,       \* the rooms' local and remote members
  OurUsers,       \* those of this homeserver
  WorkBuffer,     \* typingWorkBuffer
  PingTicks,      \* FederationPingInterval in ticks
  TimeoutTicks,   \* FederationTimeout in ticks
  Nobody          \* no member

ASSUME TypingAssumption ==
  /\ IsFiniteSet(Rooms) /\ IsFiniteSet(Users)
  /\ OurUsers \subseteq Users /\ JoinedTo \in [Rooms -> SUBSET Users]
  /\ WorkBuffer \in Nat \ {0}
  /\ PingTicks \in Nat \ {0} /\ TimeoutTicks \in Nat /\ PingTicks + 1 < TimeoutTicks
  /\ Nobody \notin Rooms \X OurUsers

VARIABLES
  serial, rooms,
  lastPoke,     \* ticks since the last announcement; LongAgo if there is none
  work,         \* the channel
  submitting,   \* what HandleRows has still to submit
  tick,         \* a tick nobody has taken from the ticker yet
  due,          \* what KeepAlive has still to submit
  poking,       \* the member whose announcement push is about to record
  said,         \* the last notice queued for the remote, per member
  tried,        \* history: ticks since a typing member was last announced, or
                \* an attempt at it came to nothing
  fate          \* history: what became of the newest change of each member

typingVars == <<serial, rooms, lastPoke, work, submitting, tick, due, poking,
                said, tried, fate>>

Members == {m \in Rooms \X OurUsers : m[2] \in JoinedTo[m[1]]}

LongAgo == PingTicks + 1

Types(m) == m[2] \in rooms[m[1]]

(* One unit of work; diffed ones come from HandleRows, the others from     *)
(* KeepAlive.                                                              *)
Work == [member : Members, typing : BOOLEAN, diffed : BOOLEAN]

TypingTypeOK ==
  /\ serial \in Nat
  /\ rooms \in [Rooms -> SUBSET Users]
  /\ lastPoke \in [Members -> 0..LongAgo]
  /\ work \in Seq(Work) /\ Len(work) <= WorkBuffer
  /\ submitting \in Seq(Work) /\ due \in Seq(Members)
  /\ tick \in BOOLEAN /\ poking \in Members \cup {Nobody}
  /\ said \in [Members -> {"nothing", "start", "stop"}]
  /\ tried \in [Members -> 0..TimeoutTicks]
  /\ fate \in [Members -> {"void", "pending", "said", "overtaken"}]

(* NewTyping.                                                              *)
TypingInit ==
  /\ serial = 0 /\ rooms = [r \in Rooms |-> {}]
  /\ lastPoke = [m \in Members |-> LongAgo]
  /\ work = <<>> /\ submitting = <<>> /\ due = <<>>
  /\ tick = FALSE /\ poking = Nobody
  /\ said = [m \in Members |-> "nothing"]
  /\ tried = [m \in Members |-> 0]
  /\ fate = [m \in Members |-> "void"]

-----------------------------------------------------------------------------
(* HandleRows, on the replication goroutine.                               *)

(* Fault: the remembered sets outlive the writer that sent them.           *)
NeverForgets(token) == rooms

(* The sets a batch is compared with: none, once the writer has restarted. *)
Remembered(token) == IF token < serial THEN [r \in Rooms |-> {}] ELSE rooms

(* The rows of a batch that are about room r.                              *)
RowsOf(rows, r) == {i \in 1..Len(rows) : rows[i].room = r}

(* A row replaces the room's set, and is compared with the set before it:  *)
(* an earlier row's of the batch, or the remembered one.                   *)
Before(token, rows, i) ==
  LET earlier == {j \in RowsOf(rows, rows[i].room) : j < i}
  IN  IF earlier = {} THEN Remembered(token)[rows[i].room] ELSE rows[Max(earlier)].users

AfterRows(token, rows) ==
  [r \in Rooms |-> IF RowsOf(rows, r) = {} THEN Remembered(token)[r]
                   ELSE rows[Max(RowsOf(rows, r))].users]

Starts(token, rows) ==
  UNION {{rows[i].room} \X ((rows[i].users \ Before(token, rows, i)) \cap OurUsers) :
           i \in DOMAIN rows}

(* Fault: only a user whose start has been announced is seen to stop.      *)
AnnouncedStops(token, rows) ==
  UNION {{m \in {rows[i].room} \X ((Before(token, rows, i) \ rows[i].users) \cap OurUsers) :
            lastPoke[m] # LongAgo} : i \in DOMAIN rows}

Stops(token, rows) ==
  UNION {{rows[i].room} \X ((Before(token, rows, i) \ rows[i].users) \cap OurUsers) :
           i \in DOMAIN rows}

Notices(S, typing) ==
  [i \in 1..Cardinality(S) |->
     [member |-> SetToSeq(S)[i], typing |-> typing, diffed |-> TRUE]]

(* diff under the lock; the starts, then the stops, are submitted after.   *)
HandleRows(token, rows) ==
  LET starts == Starts(token, rows)
      stops == Stops(token, rows)
  IN  /\ submitting = <<>>
      /\ serial' = token
      /\ rooms' = AfterRows(token, rows)
      /\ lastPoke' = [m \in Members |->
           IF token < serial \/ m \in stops THEN LongAgo ELSE lastPoke[m]]
      /\ submitting' = Notices(starts, TRUE) \o Notices(stops, FALSE)
      /\ fate' = [m \in Members |->
           IF m \in (starts \ stops) \cup (stops \ starts) THEN "pending"
           ELSE IF token < serial \/ m \in starts THEN "void" ELSE fate[m]]
      /\ tried' = [m \in Members |-> IF m \in starts \cup stops THEN 0 ELSE tried[m]]
      /\ UNCHANGED <<work, tick, due, poking, said>>

(* Is w the newest change of its member, given what comes after it?        *)
Newest(w, after) ==
  w.diffed /\ \A i \in DOMAIN after : ~(after[i].diffed /\ after[i].member = w.member)

(* Fault: a full channel grows.                                            *)
SubmitAlways(w) == work' = Append(work, w) /\ UNCHANGED tried

(* submit: dropped when the channel is full.                               *)
Submit(w) ==
  IF Len(work) < WorkBuffer
  THEN work' = Append(work, w) /\ UNCHANGED tried
  ELSE UNCHANGED work /\ tried' = [tried EXCEPT ![w.member] = 0]

SubmitNotice ==
  /\ submitting # <<>>
  /\ Submit(Head(submitting))
  /\ submitting' = Tail(submitting)
  /\ fate' = IF Len(work) >= WorkBuffer /\ Newest(Head(submitting), Tail(submitting))
             THEN [fate EXCEPT ![Head(submitting).member] = "void"] ELSE fate
  /\ UNCHANGED <<serial, rooms, lastPoke, tick, due, poking, said>>

-----------------------------------------------------------------------------
(* The ticker and KeepAlive.                                               *)

Older(age, limit) == IF age < limit THEN age + 1 ELSE age

(* The ticker's channel holds one tick.  A push does not take a tick       *)
(* between its last enqueue and its last lock.                             *)
Tick ==
  /\ poking = Nobody
  /\ tick' = TRUE
  /\ lastPoke' = [m \in Members |-> Older(lastPoke[m], LongAgo)]
  /\ tried' = [m \in Members |-> IF Types(m) THEN Older(tried[m], TimeoutTicks) ELSE 0]
  /\ UNCHANGED <<serial, rooms, work, submitting, due, poking, said, fate>>

(* Fault: a ticker as slow as the interval sees each member one interval   *)
(* late.                                                                   *)
DueOneTickLater(age) == age > LongAgo

(* now - last >= FederationPingInterval, for a last announcement made some *)
(* time into its tick: surely due after PingTicks + 1 ticks, perhaps       *)
(* already after PingTicks.                                                *)
SurelyDue(age) == age > PingTicks

(* Under the lock: everyone still typing whose announcement is old.        *)
KeepAlive ==
  /\ tick /\ due = <<>>
  /\ tick' = FALSE
  /\ \E early \in SUBSET {m \in Members : Types(m) /\ lastPoke[m] = PingTicks} :
       due' = SetToSeq({m \in Members : Types(m) /\ SurelyDue(lastPoke[m])} \cup early)
  /\ UNCHANGED <<serial, rooms, lastPoke, work, submitting, poking, said, tried, fate>>

(* After it: submitted through the same channel as the changes.            *)
Reannounce ==
  /\ due # <<>>
  /\ LET m == Head(due)
     IN  /\ Submit([member |-> m, typing |-> TRUE, diffed |-> FALSE])
         /\ fate' = IF /\ Len(work) < WorkBuffer /\ ~Types(m)
                       /\ fate[m] \in {"pending", "said"}
                       /\ \A i \in DOMAIN submitting : submitting[i].member # m
                    THEN [fate EXCEPT ![m] = "overtaken"] ELSE fate
  /\ due' = Tail(due)
  /\ UNCHANGED <<serial, rooms, lastPoke, submitting, tick, poking, said>>

-----------------------------------------------------------------------------
(* Run, the only consumer, and push.                                       *)

(* push: reached is false when the room's servers cannot be read, none is  *)
(* ours to send to, or the server is backing off.                          *)
Push(reached) ==
  LET w == Head(work)
  IN  /\ work # <<>> /\ poking = Nobody
      /\ work' = Tail(work)
      /\ said' = IF reached
                 THEN [said EXCEPT ![w.member] = IF w.typing THEN "start" ELSE "stop"]
                 ELSE said
      /\ tried' = IF w.typing \/ ~reached THEN [tried EXCEPT ![w.member] = 0] ELSE tried
      /\ poking' = IF reached /\ w.typing THEN w.member ELSE Nobody
      /\ fate' = IF Newest(w, Tail(work) \o submitting) /\ fate[w.member] = "pending"
                 THEN [fate EXCEPT ![w.member] = IF reached THEN "said" ELSE "void"]
                 ELSE fate
      /\ UNCHANGED <<serial, rooms, lastPoke, submitting, tick, due>>

(* The announcement is recorded under the lock, whoever has stopped since. *)
RecordPoke ==
  /\ poking # Nobody
  /\ lastPoke' = [lastPoke EXCEPT ![poking] = 0]
  /\ poking' = Nobody
  /\ UNCHANGED <<serial, rooms, work, submitting, tick, due, said, tried, fate>>

TypingStep == \/ SubmitNotice \/ Tick \/ KeepAlive \/ Reannounce
              \/ (\E reached \in BOOLEAN : Push(reached)) \/ RecordPoke

-----------------------------------------------------------------------------
(* Properties.                                                             *)

OnItsWay(m) ==
  \/ m = poking
  \/ \E i \in DOMAIN due : due[i] = m
  \/ \E i \in DOMAIN work : work[i].member = m
  \/ \E i \in DOMAIN submitting : submitting[i].member = m

(* The last notice queued for a member is the truth: an indicator is on    *)
(* exactly while its user types.  Excepted are changes that were lost (a   *)
(* full channel, a failed push), sets forgotten with a restarted writer,   *)
(* users who stop and start within one batch merged from two (their start  *)
(* is submitted first), and the keep-alive that was decided before a stop  *)
(* and submitted after.                                                    *)
LastNoticeIsTrue ==
  \A m \in Members :
    fate[m] = "said" => (said[m] = "start" <=> Types(m))

(* The keep-alive comes in time: a user who goes on typing is announced    *)
(* again, or an attempt at it fails, before the remote expires the         *)
(* indicator after FederationTimeout, unless a tick or a notice is held up *)
(* somewhere in the worker.                                                *)
IndicatorKept ==
  \A m \in Members :
    Types(m) /\ tried[m] >= TimeoutTicks => tick \/ OnItsWay(m)

(* What KeepAlive's comment says of its submits: "a keep-alive cannot      *)
(* overtake a stop and leave an indicator switched on".                    *)
KeepAliveNeverOvertakes ==
  \A m \in Members : fate[m] = "overtaken" /\ ~OnItsWay(m) => said[m] # "start"
=============================================================================
