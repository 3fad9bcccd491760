------------------------ MODULE RetryLimiter_proofs ------------------------
(* Proofs about RetryLimiter.tla for every value of its constants.         *)
EXTENDS Integers, RetryLimiter, TLAPS

USE RetryLimiterAssumption

-----------------------------------------------------------------------------
(* The types.                                                              *)

(* The lower of two numbers is one of them.                                *)
LEMMA LowerIsOne ==
  ASSUME NEW a \in Nat, NEW b \in Nat
  PROVE  LowerOf(a, b) \in Nat /\ LowerOf(a, b) <= a /\ LowerOf(a, b) <= b
           /\ LowerOf(a, b) \in {a, b}
  BY DEF LowerOf

(* A grown interval is within the limits, and growth never shrinks it.     *)
LEMMA GrownIsInterval ==
  ASSUME NEW interval \in 0..MaxInterval, NEW i \in GrownInterval(interval)
  PROVE  i \in 1..MaxInterval /\ interval <= i
  <1>1. CASE interval = 0
    BY <1>1 DEF GrownInterval
  <1>2. CASE interval # 0
    <2>1. PICK g \in ((interval * 16) \div 10)..((interval * 28) \div 10) : i = LowerOf(g, MaxInterval)
      BY <1>2 DEF GrownInterval
    <2>2. (interval * 16) \div 10 \in Nat /\ interval <= (interval * 16) \div 10
      <3> DEFINE q == (interval * 16) \div 10
      <3>1. q \in Int /\ 10 * q <= interval * 16 /\ interval * 16 < 10 * q + 10
        BY SMT
      <3>2. interval \in Int /\ interval > 0
        BY <1>2
      <3> QED
        BY <3>1, <3>2
    <2>3. (interval * 28) \div 10 \in Int
      OBVIOUS
    <2>4. g \in Nat /\ interval <= g
      BY <2>1, <2>2, <2>3
    <2> QED
      BY <1>2, <2>1, <2>4 DEF LowerOf
  <1> QED
    BY <1>1, <1>2

(* Initially every variable has its type.                                  *)
LEMMA LimiterTypeInit == Init => LimiterTypeOK
  <1> SUFFICES ASSUME Init PROVE LimiterTypeOK
    OBVIOUS
  <1>1. TimingsOf(mine) \in Timings /\ mine.exists \in BOOLEAN
    BY DEF Init, NoRow, TimingsOf, Timings
  <1>2. TimingsOf(synapse) \in Timings /\ synapse.exists \in BOOLEAN
    <2>1. CASE synapse = NoRow
      BY <2>1 DEF NoRow, TimingsOf, Timings
    <2>2. ASSUME NEW i \in {MinInterval, MaxInterval},
                 synapse = RowOf([failure |-> 1, last |-> 1, interval |-> i])
          PROVE  TimingsOf(synapse) \in Timings /\ synapse.exists \in BOOLEAN
      <3>1. i \in 0..MaxInterval /\ 1 \in 0..MaxClock
        OBVIOUS
      <3> QED
        BY <2>2, <3>1 DEF RowOf, TimingsOf, Timings
    <2> QED
      BY <2>1, <2>2 DEF Init
  <1>3. Zero \in Timings
    BY DEF Zero, Timings
  <1>4. writer \in [Callers -> [step : {"idle", "mine", "synapse"}, timings : Timings]]
    BY <1>3 DEF Init, Idle
  <1>5. used \in [serverUps : 0..MaxServerUps, restarts : 0..MaxRestarts]
    BY DEF Init
  <1>6. loaded \in BOOLEAN /\ refused \in BOOLEAN /\ readable \in BOOLEAN
    BY Zenon DEF Init
  <1>7. cooldown \in 0..(MaxClock + MaxCooldown) /\ cooldownFor \in 0..MaxCooldown
          /\ now \in 1..MaxClock /\ attempt \in {"none", "loop", "catchUp"}
          /\ sweep \in {"none", "allowed", "overtaken"}
    BY DEF Init
  <1>8. NoOutage \in Outages /\ outage \in Outages
    BY <1>2 DEF Init, NoOutage, Outages, TimingsOf, Timings
  <1>9. heard \in BOOLEAN /\ intact \in BOOLEAN
    BY <1>6, Zenon DEF Init
  <1> QED
    BY <1>1, <1>2, <1>3, <1>4, <1>5, <1>6, <1>7, <1>8, <1>9 DEF Init, LimiterTypeOK

(* What a process reads is a record of timings.                            *)
LEMMA LoadedTimings ==
  LimiterTypeOK => LoadTimings \in Timings /\ Zero \in Timings /\ Effective \in Timings
  BY DEF LimiterTypeOK, LoadTimings, Timings, Zero, Effective

(* A row holds what was put in it.                                         *)
LEMMA RowHolds ==
  ASSUME NEW t \in Timings
  PROVE  TimingsOf(RowOf(t)) = t /\ RowOf(t).exists = TRUE
  BY DEF RowOf, TimingsOf, Timings

(* What is remembered of an outage is one, or none.                        *)
LEMMA RememberType ==
  ASSUME NEW o \in Outages, NEW kept \in BOOLEAN, Remember(o, kept)
  PROVE  outage' \in Outages /\ intact' \in BOOLEAN
  <1>1. NoOutage \in Outages
    BY DEF NoOutage, Outages
  <1>2. outage' \in Outages
    BY <1>1 DEF Remember
  <1>3. intact' \in BOOLEAN
    BY Zenon DEF Remember
  <1> QED
    BY <1>2, <1>3

(* Catch-up's answer is one.                                               *)
LEMMA SweepAfterType ==
  ASSUME LimiterTypeOK, NEW failure \in BOOLEAN
  PROVE  SweepAfter(failure) \in {"none", "allowed", "overtaken"}
  BY DEF SweepAfter, LimiterTypeOK

(* Every step keeps the types.                                             *)
LEMMA LimiterTypeStep == LimiterTypeOK /\ [Next]_vars => LimiterTypeOK'
  <1> SUFFICES ASSUME LimiterTypeOK, [Next]_vars PROVE LimiterTypeOK'
    OBVIOUS
  <1>z. Zero \in Timings /\ LoadTimings \in Timings
    BY LoadedTimings
  <1>o. outage \in Outages /\ NoOutage \in Outages /\ heard \in BOOLEAN /\ intact \in BOOLEAN
    BY DEF LimiterTypeOK, NoOutage, Outages
  <1>1. CASE Seed
    BY <1>1, <1>z DEF Seed, LimiterTypeOK, history
  <1>2. CASE StartAttempt \/ SweepAsks \/ CatchUpDials
    BY <1>2 DEF StartAttempt, SweepAsks, CatchUpDials, LimiterTypeOK, limiter, history
  <1>3. CASE AttemptSucceeds
    <2>1. writer' \in [Callers -> [step : {"idle", "mine", "synapse"}, timings : Timings]]
      BY <1>3, <1>z DEF AttemptSucceeds, LimiterTypeOK, Persist, Callers
    <2>2. refused' \in BOOLEAN /\ heard' \in BOOLEAN
      BY <1>3, Zenon DEF AttemptSucceeds
    <2> QED
      BY <1>3, <1>z, <1>o, <2>1, <2>2 DEF AttemptSucceeds, LimiterTypeOK
  <1>4. ASSUME NEW answered \in BOOLEAN, AttemptFails(answered) PROVE LimiterTypeOK'
    <2>1. state.interval \in 0..MaxInterval /\ state.failure \in 0..MaxClock /\ now \in 1..MaxClock
            /\ outage.first \in 0..MaxClock
      BY <1>o DEF LimiterTypeOK, Timings, Outages
    <2>2. state' \in Timings
      BY <1>4, <2>1, GrownIsInterval DEF AttemptFails, Timings, FailingSince
    <2>3. outage' \in Outages /\ intact' \in BOOLEAN
      <3> DEFINE o == [first |-> IF outage.first = 0 THEN now ELSE outage.first, last |-> now]
      <3>1. o \in Outages /\ Remember(o, intact)
        BY <1>4, <2>1 DEF AttemptFails, Outages
      <3> HIDE DEF o
      <3> QED
        BY <3>1, <1>o, RememberType
    <2>4. sweep' \in {"none", "allowed", "overtaken"}
      BY <1>4, SweepAfterType DEF AttemptFails
    <2> QED
      BY <1>4, <2>2, <2>3, <2>4 DEF AttemptFails, LimiterTypeOK, Persist, Callers
  <1>5. ASSUME NEW hint \in Hints, AttemptLimited(hint) PROVE LimiterTypeOK'
    <2>1. sweep' \in {"none", "allowed", "overtaken"}
      BY <1>5, SweepAfterType DEF AttemptLimited
    <2> DEFINE wanted == IF hint > 0 THEN hint
                         ELSE IF cooldownFor > 0 THEN cooldownFor * 2 ELSE BaseCooldown
    <2>2. wanted \in Nat
      BY DEF LimiterTypeOK
    <2>3. LowerOf(wanted, MaxCooldown) \in 0..MaxCooldown
      <3> HIDE DEF wanted
      <3> QED
        BY <2>2 DEF LowerOf
    <2>4. cooldownFor' \in 0..MaxCooldown /\ cooldown' = now + cooldownFor'
      BY <1>5, <2>3 DEF AttemptLimited
    <2>5. cooldown' \in 0..(MaxClock + MaxCooldown)
      <3> HIDE DEF wanted
      <3>1. /\ now \in Nat /\ now <= MaxClock
            /\ cooldownFor' \in Nat /\ cooldownFor' <= MaxCooldown
        BY <2>4 DEF LimiterTypeOK
      <3>2. now + cooldownFor' \in 0..(MaxClock + MaxCooldown)
        <4> DEFINE n == now
                   f == cooldownFor'
        <4>1. /\ n \in Nat /\ n <= MaxClock /\ MaxClock \in Nat
              /\ f \in Nat /\ f <= MaxCooldown /\ MaxCooldown \in Nat
          BY <3>1
        <4> HIDE DEF n, f
        <4>2. n + f \in 0..(MaxClock + MaxCooldown)
          BY <4>1
        <4> QED
          BY <4>2 DEF n, f
      <3> QED
        BY <2>4, <3>2
    <2> QED
      BY <1>5, <2>1, <2>4, <2>5 DEF AttemptLimited, LimiterTypeOK, history
  <1>6. CASE ServerUp
    <2>1. state' \in Timings
      BY <1>6, <1>z DEF ServerUp, LimiterTypeOK, Timings, LowerOf
    <2>2. TimingsOf(synapse') \in Timings /\ synapse'.exists \in BOOLEAN
      BY <1>6, <1>z, RowHolds DEF ServerUp
    <2>3. writer' \in [Callers -> [step : {"idle", "mine", "synapse"}, timings : Timings]]
      BY <1>6, <1>z, <2>1 DEF ServerUp, LimiterTypeOK, Persist, Callers
    <2>4. used' \in [serverUps : 0..MaxServerUps, restarts : 0..MaxRestarts]
      BY <1>6 DEF ServerUp, LimiterTypeOK
    <2>5. PICK o \in {outage, NoOutage}, k \in {intact, intact /\ loaded} : Remember(o, k)
      BY <1>6 DEF ServerUp
    <2>6. outage' \in Outages /\ intact' \in BOOLEAN
      <3>1. k \in BOOLEAN
        BY <2>5, <1>o
      <3> QED
        BY <2>5, <3>1, <1>o, RememberType
    <2>7. heard' \in BOOLEAN /\ loaded' \in BOOLEAN
      BY <1>6, <1>o DEF ServerUp, LimiterTypeOK
    <2> QED
      BY <1>6, <2>1, <2>2, <2>3, <2>4, <2>6, <2>7 DEF ServerUp, LimiterTypeOK
  <1>7. ASSUME NEW c \in Callers, WriteMine(c) \/ WriteSynapse(c) PROVE LimiterTypeOK'
    <2>1. writer[c].timings \in Timings
      BY DEF LimiterTypeOK
    <2>2. \A row \in {mine', synapse'} : TimingsOf(row) \in Timings /\ row.exists \in BOOLEAN
      BY <1>7, <2>1, RowHolds DEF WriteMine, WriteSynapse, LimiterTypeOK
    <2>3. writer' \in [Callers -> [step : {"idle", "mine", "synapse"}, timings : Timings]]
      BY <1>7, <1>z DEF WriteMine, WriteSynapse, LimiterTypeOK, Idle
    <2>4. outage' \in Outages /\ intact' \in BOOLEAN
      <3>1. CASE WriteMine(c)
        <4> DEFINE k == intact /\ mine'.exists /\ Matches(mine', outage)
        <4>1. k \in BOOLEAN /\ Remember(outage, k)
          BY <3>1 DEF WriteMine
        <4> HIDE DEF k
        <4> QED
          BY <4>1, <1>o, RememberType
      <3>2. CASE WriteSynapse(c)
        BY <3>2, <1>o DEF WriteSynapse, history
      <3> QED
        BY <1>7, <3>1, <3>2
    <2> QED
      BY <1>7, <2>2, <2>3, <2>4, <1>o DEF WriteMine, WriteSynapse, LimiterTypeOK, limiter, history
  <1>8. CASE Tick
    BY <1>8 DEF Tick, LimiterTypeOK, limiter, history
  <1>9. CASE Restart
    <2>1. writer' \in [Callers -> [step : {"idle", "mine", "synapse"}, timings : Timings]]
      BY <1>9, <1>z DEF Restart, Idle
    <2>2. used' \in [serverUps : 0..MaxServerUps, restarts : 0..MaxRestarts]
      BY <1>9 DEF Restart, LimiterTypeOK
    <2>3. loaded' \in BOOLEAN /\ refused' \in BOOLEAN /\ readable' \in BOOLEAN /\ heard' \in BOOLEAN
      BY <1>9, Zenon DEF Restart
    <2>4. outage' \in Outages /\ intact' \in BOOLEAN
      <3> DEFINE k == intact /\ readable' /\ \A c \in Callers : writer[c].step # "mine"
      <3>1. k \in BOOLEAN /\ Remember(outage, k)
        BY <1>9 DEF Restart
      <3> HIDE DEF k
      <3> QED
        BY <3>1, <1>o, RememberType
    <2> QED
      BY <1>9, <1>z, <2>1, <2>2, <2>3, <2>4 DEF Restart, LimiterTypeOK
  <1>10. CASE UNCHANGED vars
    BY <1>10 DEF vars, limiter, history, LimiterTypeOK
  <1> QED
    BY <1>1, <1>2, <1>3, <1>4, <1>5, <1>6, <1>7, <1>8, <1>9, <1>10 DEF Next

(* Every variable keeps its type: growth, clamps and cooldowns stay within *)
(* the configured limits whatever they are.                                *)
THEOREM LimiterTypeAlways == Spec => []LimiterTypeOK
  BY LimiterTypeInit, LimiterTypeStep, PTL DEF Spec

-----------------------------------------------------------------------------
(* The inductive invariant.                                                *)

(* Timings that a run of failures can leave: it began no later than the    *)
(* last failure, that is in the past, and there is an interval exactly     *)
(* when there was a failure.                                               *)
GoodTimings(t) ==
  /\ t.failure <= t.last /\ t.last <= now
  /\ t.interval > 0 => t.failure > 0
  /\ t.interval = 0 => t.last = 0

TimingsGood ==
  /\ GoodTimings(state) /\ GoodTimings(TimingsOf(mine)) /\ GoodTimings(TimingsOf(synapse))
  /\ \A c \in Callers : GoodTimings(writer[c].timings)
  /\ ~mine.exists => mine.last = 0

(* Before the rows are read there is no state, and nobody is at work.      *)
UnreadIsBlank ==
  ~loaded => /\ state = Zero /\ refused = FALSE /\ cooldown = 0
             /\ attempt = "none" /\ sweep = "none"
             /\ \A c \in Callers : writer[c].step = "idle"

(* Our row rules out no more than the limiter does.                        *)
RowCovered ==
  \/ TimingsDue(TimingsOf(mine), now)
  \/ state.last # 0 /\ mine.last + mine.interval <= state.last + state.interval

(* Until the server is heard from, our row lags the limiter by at most the *)
(* write of the latest failure, and what Due allowed catch-up stays due    *)
(* until the loop fails.                                                   *)
RowRemembered ==
  ~heard =>
    /\ writer["serverUp"].step = "idle"
    /\ writer["attempt"].step = "mine" => writer["attempt"].timings = state
    /\ loaded /\ readable => RowCovered
    /\ sweep = "allowed" => TimingsDue(state, now)

Writing == \E c \in Callers : writer[c].step = "mine"

(* The outage is on record: in memory, and in the row a restart would read *)
(* unless our row is about to be written.                                  *)
OutageOnRecord ==
  intact =>
    /\ IF loaded THEN Matches(state, outage) ELSE readable
    /\ ~Writing => Matches(LoadTimings, outage)
    /\ ~mine.exists => \A c \in Callers : writer[c].step # "synapse"
    /\ refused => mine.exists \/ writer["attempt"].step = "mine"

LimiterInv ==
  LimiterTypeOK /\ TimingsGood /\ UnreadIsBlank /\ RowRemembered /\ OutageOnRecord

(* Initially it holds: what Synapse recorded is a run of failures.         *)
LEMMA LimiterInvInit == Init => LimiterInv
  <1> SUFFICES ASSUME Init PROVE LimiterInv
    OBVIOUS
  <1>1. LimiterTypeOK
    BY LimiterTypeInit
  <1>2. GoodTimings(Zero) /\ GoodTimings(TimingsOf(NoRow))
    BY DEF Init, GoodTimings, Zero, TimingsOf, NoRow
  <1>3. GoodTimings(TimingsOf(synapse))
    <2>1. ASSUME NEW i \in {MinInterval, MaxInterval},
                 synapse = RowOf([failure |-> 1, last |-> 1, interval |-> i])
          PROVE  GoodTimings(TimingsOf(synapse))
      BY <2>1 DEF Init, GoodTimings, TimingsOf, RowOf
    <2> QED
      BY <1>2, <2>1 DEF Init
  <1>4. TimingsGood
    BY <1>2, <1>3 DEF Init, TimingsGood, NoRow, Idle
  <1>5. UnreadIsBlank
    BY DEF Init, UnreadIsBlank, Idle
  <1>6. RowRemembered
    BY DEF Init, RowRemembered, Callers, Idle
  <1>7. OutageOnRecord
    <2>1. ~mine.exists /\ ~loaded /\ (\A c \in Callers : writer[c].step = "idle") /\ refused = FALSE
      BY DEF Init, NoRow, Idle
    <2>2. intact => readable /\ Matches(LoadTimings, outage)
      BY <2>1 DEF Init, LoadTimings, TimingsOf, Matches
    <2> QED
      BY <2>1, <2>2 DEF OutageOnRecord
  <1> QED
    BY <1>1, <1>4, <1>5, <1>6, <1>7 DEF LimiterInv

(* Good timings stay good as time passes.                                  *)
LEMMA GoodLater ==
  ASSUME LimiterTypeOK, now' = now \/ now' = now + 1
  PROVE  \A t \in Timings : GoodTimings(t) =>
           /\ t.failure <= t.last /\ t.last <= now'
           /\ t.interval > 0 => t.failure > 0
           /\ t.interval = 0 => t.last = 0
  BY DEF LimiterTypeOK, Timings, GoodTimings

(* Only the clock and a failed attempt bear on what timings are good; all  *)
(* else copies them.                                                       *)
LEMMA TimingsGoodStep == LimiterInv /\ [Next]_vars => TimingsGood'
  <1> SUFFICES ASSUME LimiterInv, [Next]_vars PROVE TimingsGood'
    OBVIOUS
  <1> DEFINE G(t) == /\ t.failure <= t.last /\ t.last <= now'
                     /\ t.interval > 0 => t.failure > 0
                     /\ t.interval = 0 => t.last = 0
  <1>t. LimiterTypeOK /\ TimingsGood /\ UnreadIsBlank
    BY DEF LimiterInv
  <1>n. now' = now \/ now' = now + 1
    BY DEF Next, Seed, StartAttempt, SweepAsks, CatchUpDials, AttemptSucceeds, AttemptFails,
           AttemptLimited, ServerUp, WriteMine, WriteSynapse, Tick, Restart, vars
  <1>s. /\ state \in Timings /\ TimingsOf(mine) \in Timings /\ TimingsOf(synapse) \in Timings
        /\ \A c \in Callers : writer[c].timings \in Timings
        /\ writer \in [Callers -> [step : {"idle", "mine", "synapse"}, timings : Timings]]
    BY <1>t DEF LimiterTypeOK
  <1>g. /\ G(state) /\ G(TimingsOf(mine)) /\ G(TimingsOf(synapse))
        /\ \A c \in Callers : G(writer[c].timings)
    BY <1>t, <1>n, <1>s, GoodLater DEF TimingsGood
  <1>z. G(Zero) /\ Zero \in Timings
    BY <1>t, <1>n, LoadedTimings DEF Zero, LimiterTypeOK
  <1>q. SUFFICES /\ G(state') /\ G(TimingsOf(mine)') /\ G(TimingsOf(synapse)')
                 /\ \A c \in Callers : G(writer'[c].timings)
                 /\ ~mine'.exists => mine'.last = 0
    BY DEF TimingsGood, GoodTimings
  <1>m. ~mine.exists => mine.last = 0
    BY <1>t DEF TimingsGood
  <1> HIDE DEF G
  <1>1. CASE Seed
    BY <1>1, <1>g, <1>z, <1>m DEF Seed, LoadTimings, TimingsOf
  <1>2. CASE StartAttempt \/ SweepAsks \/ CatchUpDials
    BY <1>2, <1>g, <1>m DEF StartAttempt, SweepAsks, CatchUpDials, limiter, TimingsOf
  <1>3. CASE AttemptSucceeds
    BY <1>3, <1>g, <1>z, <1>m, <1>s DEF AttemptSucceeds, TimingsOf, Persist, Callers
  <1>4. ASSUME NEW answered \in BOOLEAN, AttemptFails(answered)
        PROVE  /\ G(state') /\ G(TimingsOf(mine)') /\ G(TimingsOf(synapse)')
               /\ \A c \in Callers : G(writer'[c].timings)
               /\ ~mine'.exists => mine'.last = 0
    <2>1. G(state')
      <3>1. PICK i \in GrownInterval(state.interval) :
                 state' = [failure |-> FailingSince, last |-> now, interval |-> i]
        BY <1>4 DEF AttemptFails
      <3>2. i \in 1..MaxInterval
        BY <3>1, <1>s, GrownIsInterval DEF Timings
      <3>3. FailingSince \in 1..now
        BY <1>t, <1>s DEF FailingSince, TimingsGood, GoodTimings, LimiterTypeOK, Timings
      <3>4. now' = now /\ now \in Nat
        BY <1>4, <1>t DEF AttemptFails, LimiterTypeOK
      <3> QED
        BY <3>1, <3>2, <3>3, <3>4 DEF G
    <2> QED
      BY <1>4, <2>1, <1>g, <1>m, <1>s DEF AttemptFails, TimingsOf, Persist, Callers
  <1>5. ASSUME NEW hint \in Hints, AttemptLimited(hint)
        PROVE  /\ G(state') /\ G(TimingsOf(mine)') /\ G(TimingsOf(synapse)')
               /\ \A c \in Callers : G(writer'[c].timings)
               /\ ~mine'.exists => mine'.last = 0
    BY <1>5, <1>g, <1>m DEF AttemptLimited, TimingsOf
  <1>6. CASE ServerUp
    <2>1. G(state')
      <3>1. CASE state' = [state EXCEPT !.interval = LowerOf(@, Hour)]
                 /\ ~(state.interval = 0 /\ state.last = 0)
        BY <3>1, <1>6, <1>g, <1>s, <1>n, LowerIsOne DEF G, Timings, ServerUp
      <3>2. CASE state' = Zero \/ state' = state
        BY <3>2, <1>g, <1>z
      <3> QED
        BY <1>6, <3>1, <3>2 DEF ServerUp
    <2>2. G(TimingsOf(synapse)')
      BY <1>6, <1>z, RowHolds DEF ServerUp
    <2>3. \A c \in Callers : G(writer'[c].timings)
      BY <1>6, <2>1, <1>g, <1>z, <1>s DEF ServerUp, Persist, Callers
    <2> QED
      BY <1>6, <2>1, <2>2, <2>3, <1>g, <1>m DEF ServerUp, TimingsOf
  <1>7. ASSUME NEW c \in Callers, WriteMine(c) \/ WriteSynapse(c)
        PROVE  /\ G(state') /\ G(TimingsOf(mine)') /\ G(TimingsOf(synapse)')
               /\ \A d \in Callers : G(writer'[d].timings)
               /\ ~mine'.exists => mine'.last = 0
    <2>1. TimingsOf(RowOf(writer[c].timings)) = writer[c].timings /\ RowOf(writer[c].timings).exists
      BY <1>s, RowHolds
    <2>2. G(TimingsOf(mine)') /\ G(TimingsOf(synapse)') /\ (~mine'.exists => mine'.last = 0)
      BY <1>7, <2>1, <1>g, <1>m DEF WriteMine, WriteSynapse
    <2>3. \A d \in Callers : G(writer'[d].timings)
      BY <1>7, <1>g, <1>z, <1>s DEF WriteMine, WriteSynapse, Idle
    <2> QED
      BY <1>7, <2>2, <2>3, <1>g DEF WriteMine, WriteSynapse, limiter
  <1>8. CASE Tick
    BY <1>8, <1>g, <1>m DEF Tick, limiter, TimingsOf
  <1>9. CASE Restart
    BY <1>9, <1>g, <1>z, <1>m DEF Restart, TimingsOf, Idle
  <1>10. CASE UNCHANGED vars
    BY <1>10, <1>g, <1>m DEF vars, limiter, TimingsOf
  <1> QED
    BY <1>1, <1>2, <1>3, <1>4, <1>5, <1>6, <1>7, <1>8, <1>9, <1>10 DEF Next

(* A process that has not read the rows has done nothing yet.              *)
LEMMA UnreadIsBlankStep == LimiterInv /\ [Next]_vars => UnreadIsBlank'
  <1> SUFFICES ASSUME LimiterInv, [Next]_vars, ~loaded' PROVE UnreadIsBlank'
    BY DEF UnreadIsBlank
  <1>t. LimiterTypeOK /\ UnreadIsBlank
    BY DEF LimiterInv
  <1>1. CASE Restart
    BY <1>1 DEF Restart, UnreadIsBlank, Idle
  <1>2. CASE ~Restart
    <2>1. ~loaded
      BY <1>2 DEF Next, Seed, StartAttempt, SweepAsks, CatchUpDials, AttemptSucceeds, AttemptFails,
             AttemptLimited, ServerUp, WriteMine, WriteSynapse, Tick, vars, limiter
    <2>2. /\ state = Zero /\ refused = FALSE /\ cooldown = 0
          /\ attempt = "none" /\ sweep = "none"
          /\ \A c \in Callers : writer[c].step = "idle"
      BY <1>t, <2>1 DEF UnreadIsBlank
    <2>3. CASE ServerUp
      BY <2>2, <2>3 DEF ServerUp, UnreadIsBlank, Zero
    <2>4. CASE Tick \/ UNCHANGED vars
      BY <2>2, <2>4 DEF Tick, vars, limiter, UnreadIsBlank
    <2> QED
      BY <1>2, <2>1, <2>2, <2>3, <2>4
         DEF Next, Seed, StartAttempt, SweepAsks, CatchUpDials, AttemptSucceeds, AttemptFails,
             AttemptLimited, WriteMine, WriteSynapse
  <1> QED
    BY <1>1, <1>2

(* A wait that is over stays over while the clock advances.                *)
LEMMA DueLater ==
  ASSUME NEW t \in Timings, NEW a \in Nat, NEW b \in Nat, a <= b, TimingsDue(t, a)
  PROVE  TimingsDue(t, b)
  BY DEF TimingsDue, Timings

(* Our row lags the limiter by at most a write, and what was due stays due *)
(* until somebody fails.                                                   *)
LEMMA RowRememberedStep == LimiterInv /\ [Next]_vars => RowRemembered'
  <1> SUFFICES ASSUME LimiterInv, [Next]_vars, ~heard' PROVE RowRemembered'
    BY DEF RowRemembered
  <1>t. /\ now \in Nat /\ state \in Timings /\ TimingsOf(mine) \in Timings
        /\ mine.last \in Nat /\ mine.interval \in Nat
        /\ writer \in [Callers -> [step : {"idle", "mine", "synapse"}, timings : Timings]]
    BY DEF LimiterInv, LimiterTypeOK, TimingsOf, Timings
  <1>g. UnreadIsBlank /\ (~mine.exists => mine.last = 0)
    BY DEF LimiterInv, TimingsGood
  <1>9. CASE Restart
    BY <1>9 DEF Restart, RowRemembered, Callers, Idle
  <1>0. CASE ~Restart
    <2>0. ~heard
      BY <1>0 DEF Next, Seed, StartAttempt, SweepAsks, CatchUpDials, AttemptSucceeds, AttemptFails,
             AttemptLimited, ServerUp, WriteMine, WriteSynapse, Tick, vars, history
    <2>r. /\ writer["serverUp"].step = "idle"
          /\ writer["attempt"].step = "mine" => writer["attempt"].timings = state
          /\ loaded /\ readable => RowCovered
          /\ sweep = "allowed" => TimingsDue(state, now)
      BY <2>0 DEF LimiterInv, RowRemembered
    <2>1. CASE Seed
      <3>1. writer["attempt"].step = "idle" /\ sweep = "none"
        BY <2>1, <1>g DEF Seed, UnreadIsBlank, Callers
      <3>2. readable => RowCovered'
        <4>1. CASE mine.exists
          BY <4>1, <2>1, <1>t DEF Seed, RowCovered, LoadTimings, TimingsOf, TimingsDue
        <4>2. CASE ~mine.exists
          BY <4>2, <2>1, <1>g DEF Seed, RowCovered, TimingsOf, TimingsDue
        <4> QED
          BY <4>1, <4>2
      <3> QED
        BY <2>1, <3>1, <3>2, <2>r DEF Seed, RowRemembered
    <2>2. CASE StartAttempt \/ SweepAsks \/ CatchUpDials
      BY <2>2, <2>r DEF StartAttempt, SweepAsks, CatchUpDials, DueNow, limiter, RowRemembered,
         RowCovered, TimingsOf
    <2>3. CASE AttemptSucceeds
      BY <2>3 DEF AttemptSucceeds
    <2>4. ASSUME NEW answered \in BOOLEAN, AttemptFails(answered) PROVE RowRemembered'
      <3>1. sweep' # "allowed"
        BY <2>4 DEF AttemptFails, SweepAfter
      <3>2. readable => RowCovered'
        <4>1. PICK i \in GrownInterval(state.interval) :
                   state' = [failure |-> FailingSince, last |-> now, interval |-> i]
          BY <2>4 DEF AttemptFails
        <4>2. i \in Nat /\ state.interval <= i /\ state.interval \in Nat
          BY <4>1, <1>t, GrownIsInterval DEF Timings
        <4>3. state.last <= now /\ now > 0 /\ state.last \in Nat
          BY <1>t DEF LimiterInv, TimingsGood, GoodTimings, LimiterTypeOK, Timings
        <4>4. loaded /\ mine' = mine /\ now' = now /\ readable' = readable
          BY <2>4, <1>g DEF AttemptFails, UnreadIsBlank
        <4> QED
          BY <4>1, <4>2, <4>3, <4>4, <2>r, <1>t DEF RowCovered, TimingsDue, TimingsOf
      <3>3. /\ writer'["serverUp"].step = "idle" /\ writer'["attempt"].timings = state'
            /\ readable' = readable
        BY <2>4, <2>r, <1>t DEF AttemptFails, Persist, Callers
      <3> QED
        BY <3>1, <3>2, <3>3 DEF RowRemembered
    <2>5. ASSUME NEW hint \in Hints, AttemptLimited(hint) PROVE RowRemembered'
      <3>1. sweep' = "allowed" => sweep = "allowed"
        BY <2>5 DEF AttemptLimited, SweepAfter
      <3> QED
        BY <2>5, <3>1, <2>r DEF AttemptLimited, RowRemembered, RowCovered, TimingsOf
    <2>6. CASE ServerUp
      <3>1. UNCHANGED <<state, loaded, writer, mine, now, readable, sweep>>
        BY <2>6 DEF ServerUp
      <3> QED
        BY <3>1, <2>r DEF RowRemembered, RowCovered, TimingsOf
    <2>7. ASSUME NEW c \in Callers, WriteMine(c) \/ WriteSynapse(c) PROVE RowRemembered'
      <3>1. c = "attempt" /\ UNCHANGED <<state, loaded, now, readable, sweep>>
        BY <2>7, <2>r DEF WriteMine, WriteSynapse, Callers, limiter
      <3>2. writer'["serverUp"].step = "idle" /\ writer'["attempt"].step # "mine"
        BY <2>7, <3>1, <2>r, <1>t DEF WriteMine, WriteSynapse, Callers, Idle
      <3>3. CASE mine' = mine
        BY <3>1, <3>2, <3>3, <2>r DEF RowRemembered, RowCovered, TimingsOf
      <3>4. CASE mine' = RowOf(state)
        <4>1. RowCovered'
          BY <3>1, <3>4, <1>t DEF RowCovered, TimingsOf, RowOf, TimingsDue, Timings
        <4> QED
          BY <3>1, <3>2, <4>1, <2>r DEF RowRemembered
      <3> QED
        BY <2>7, <3>1, <3>3, <3>4, <2>r DEF WriteMine, WriteSynapse
    <2>8. CASE Tick
      <3>1. /\ TimingsDue(TimingsOf(mine), now) => TimingsDue(TimingsOf(mine), now + 1)
            /\ TimingsDue(state, now) => TimingsDue(state, now + 1)
        BY <1>t, DueLater
      <3> QED
        BY <2>8, <3>1, <2>r DEF Tick, limiter, RowRemembered, RowCovered, TimingsOf
    <2>10. CASE UNCHANGED vars
      BY <2>10, <2>r DEF vars, limiter, RowRemembered, RowCovered, TimingsOf
    <2> QED
      BY <1>0, <2>1, <2>2, <2>3, <2>4, <2>5, <2>6, <2>7, <2>8, <2>10 DEF Next
  <1> QED
    BY <1>0, <1>9

(* What is on record stays so: a failure or a recovery is in memory at     *)
(* once and on its way to the row.                                         *)
LEMMA OutageOnRecordStep == LimiterInv /\ [Next]_vars => OutageOnRecord'
  <1> SUFFICES ASSUME LimiterInv, [Next]_vars, intact' PROVE OutageOnRecord'
    BY DEF OutageOnRecord
  <1>t. /\ state \in Timings /\ now \in Nat /\ outage \in Outages
        /\ writer \in [Callers -> [step : {"idle", "mine", "synapse"}, timings : Timings]]
    BY DEF LimiterInv, LimiterTypeOK
  <1>g. UnreadIsBlank /\ GoodTimings(state)
    BY DEF LimiterInv, TimingsGood
  <1>0. intact
    BY DEF Next, Seed, StartAttempt, SweepAsks, CatchUpDials, AttemptSucceeds, AttemptFails,
           AttemptLimited, ServerUp, WriteMine, WriteSynapse, Tick, Restart, vars, history, Remember
  <1>r. /\ IF loaded THEN Matches(state, outage) ELSE readable
        /\ ~Writing => Matches(LoadTimings, outage)
        /\ ~mine.exists => \A c \in Callers : writer[c].step # "synapse"
        /\ refused => mine.exists \/ writer["attempt"].step = "mine"
    BY <1>0 DEF LimiterInv, OutageOnRecord
  <1>1. CASE Seed
    <2>1. ~Writing /\ readable
      BY <1>1, <1>g, <1>r DEF Seed, UnreadIsBlank, Writing
    <2>2. Matches(state', outage) /\ UNCHANGED <<mine, synapse, writer, refused, outage>>
      BY <1>1, <2>1, <1>r DEF Seed, history
    <2> QED
      BY <1>1, <2>2, <1>r DEF Seed, OutageOnRecord, Writing, LoadTimings
  <1>2. CASE StartAttempt \/ SweepAsks \/ CatchUpDials
    <2>1. UNCHANGED <<limiter, readable, mine, synapse, writer, history>>
      BY <1>2 DEF StartAttempt, SweepAsks, CatchUpDials
    <2> QED
      BY <2>1, <1>r DEF limiter, history, OutageOnRecord, Writing, LoadTimings, TimingsOf, Matches
  <1>3. CASE AttemptSucceeds
    <2>1. loaded /\ loaded' /\ Matches(state', outage') /\ refused' = FALSE
      BY <1>3, <1>g DEF AttemptSucceeds, UnreadIsBlank, Matches, Zero, NoOutage
    <2>2. CASE state.interval = 0 /\ state.last = 0
      <3>1. outage.first = 0 /\ outage.last = 0
        BY <2>1, <2>2, <1>r, <1>g, <1>t DEF Matches, GoodTimings, Timings
      <3>2. UNCHANGED <<mine, synapse, writer>> /\ outage' = NoOutage
        BY <1>3, <2>2 DEF AttemptSucceeds
      <3>3. ~Writing => Matches(LoadTimings, NoOutage)
        BY <3>1, <1>r DEF Matches, NoOutage
      <3> QED
        BY <2>1, <3>2, <3>3, <1>r DEF OutageOnRecord, Writing, LoadTimings
    <2>3. CASE ~(state.interval = 0 /\ state.last = 0)
      <3>1. /\ writer'["attempt"].step = "mine" /\ writer'["serverUp"] = writer["serverUp"]
            /\ mine' = mine
        BY <1>3, <2>3, <1>t DEF AttemptSucceeds, Persist, Callers
      <3> QED
        BY <2>1, <3>1, <1>r DEF OutageOnRecord, Writing, Callers
    <2> QED
      BY <2>2, <2>3
  <1>4. ASSUME NEW answered \in BOOLEAN, AttemptFails(answered) PROVE OutageOnRecord'
    <2>1. loaded /\ loaded'
      BY <1>4, <1>g DEF AttemptFails, UnreadIsBlank
    <2>2. state'.failure = FailingSince /\ state'.last = now
      BY <1>4 DEF AttemptFails
    <2>3. /\ outage'.first = IF outage.first = 0 THEN now ELSE outage.first
          /\ outage'.last = now
      BY <1>4, <1>0 DEF AttemptFails, Remember
    <2>4. Matches(state', outage')
      BY <2>1, <2>2, <2>3, <1>r DEF Matches, FailingSince
    <2>5. /\ writer'["attempt"].step = "mine" /\ writer'["serverUp"] = writer["serverUp"]
          /\ mine' = mine
      BY <1>4, <1>t DEF AttemptFails, Persist, Callers
    <2> QED
      BY <2>1, <2>4, <2>5, <1>r DEF OutageOnRecord, Writing, Callers
  <1>5. ASSUME NEW hint \in Hints, AttemptLimited(hint) PROVE OutageOnRecord'
    BY <1>5, <1>r DEF AttemptLimited, history, OutageOnRecord, Writing, LoadTimings
  <1>6. CASE ServerUp
    <2>1. loaded
      <3>1. SUFFICES ASSUME ~loaded PROVE FALSE
        OBVIOUS
      <3>2. state.interval = 0 /\ state.last = 0
        BY <3>1, <1>g DEF UnreadIsBlank, Zero
      <3>3. Remember(outage, intact /\ loaded)
        BY <1>6, <3>2 DEF ServerUp
      <3> QED
        BY <3>1, <3>3 DEF Remember
    <2>2. Matches(state, outage)
      BY <2>1, <1>r
    <2>3. mine' = mine /\ refused' = refused /\ synapse' = RowOf(Zero) /\ writer'["attempt"] = writer["attempt"]
      BY <1>6, <1>t DEF ServerUp, Callers
    <2>4. ~mine.exists => \A c \in Callers : writer'[c].step # "synapse"
      BY <1>6, <1>r, <1>t DEF ServerUp, Persist, Callers
    <2>5. refused' => mine'.exists \/ writer'["attempt"].step = "mine"
      BY <2>3, <1>r
    <2>6. CASE state.interval = 0 /\ state.last = 0 /\ UNCHANGED <<state, loaded, writer>>
               /\ Remember(outage, intact /\ loaded)
      <3>1. outage' = outage /\ outage.first = 0 /\ outage.last = 0
        BY <2>1, <2>2, <2>6, <1>0, <1>g, <1>t DEF Remember, Matches, GoodTimings, Timings
      <3>2. ~Writing => Matches(LoadTimings', outage)
        <4>1. CASE mine.exists
          BY <4>1, <2>3, <1>r DEF LoadTimings
        <4>2. CASE ~mine.exists
          BY <4>2, <2>3, <3>1 DEF LoadTimings, TimingsOf, RowOf, Zero, Matches
        <4> QED
          BY <4>1, <4>2
      <3> QED
        <4>1. ~Writing' => ~Writing
          BY <2>6 DEF Writing
        <4>2. loaded' /\ Matches(state', outage') /\ (~Writing' => Matches(LoadTimings', outage'))
          BY <2>1, <2>2, <2>6, <3>1, <3>2, <4>1
        <4> QED
          BY <2>3, <2>4, <2>5, <4>2 DEF OutageOnRecord
    <2>7. CASE Refusing /\ state' = [state EXCEPT !.interval = LowerOf(@, Hour)] /\ loaded' = loaded
               /\ Remember(outage, intact)
      <3>1. outage' = outage /\ Matches(state', outage)
        BY <2>2, <2>7, <1>0, <1>t DEF Remember, Matches, Timings
      <3>2. Writing => Writing'
        BY <1>6, <1>t DEF ServerUp, Writing, Persist, Callers
      <3>3. ~Writing' => Matches(LoadTimings', outage)
        <4>1. SUFFICES ASSUME ~Writing' PROVE Matches(LoadTimings', outage)
          OBVIOUS
        <4>2. ~Writing /\ mine.exists
          BY <4>1, <3>2, <2>7, <1>r DEF Refusing, Writing, Callers
        <4> QED
          BY <4>2, <2>3, <1>r DEF LoadTimings
      <3> QED
        BY <2>1, <2>3, <2>4, <2>5, <2>7, <3>1, <3>3 DEF OutageOnRecord
    <2>8. CASE state' = Zero /\ loaded' = TRUE /\ Remember(NoOutage, intact)
               /\ writer' = [writer EXCEPT !["serverUp"] = Persist(Zero)]
      <3>1. Matches(state', outage')
        BY <2>8 DEF Remember, Matches, NoOutage, Zero
      <3>2. writer'["serverUp"].step = "mine"
        BY <2>8, <1>t DEF Persist, Callers
      <3> QED
        BY <2>3, <2>4, <2>5, <2>8, <3>1, <3>2 DEF OutageOnRecord, Writing, Callers
    <2> QED
      BY <1>6, <2>6, <2>7, <2>8 DEF ServerUp
  <1>7. ASSUME NEW c \in Callers, WriteMine(c) PROVE OutageOnRecord'
    <2>1. mine'.exists /\ Matches(mine', outage) /\ outage' = outage
      BY <1>7, <1>0 DEF WriteMine, Remember
    <2>2. Matches(LoadTimings', outage')
      BY <2>1 DEF LoadTimings, TimingsOf, Matches
    <2> QED
      BY <1>7, <2>1, <2>2, <1>r DEF WriteMine, limiter, OutageOnRecord, Matches
  <1>8. ASSUME NEW c \in Callers, WriteSynapse(c) PROVE OutageOnRecord'
    <2>1. mine.exists
      BY <1>8, <1>r DEF WriteSynapse
    <2>2. /\ UNCHANGED <<mine, state, loaded, refused, readable, outage>>
          /\ LoadTimings' = LoadTimings
      BY <1>8, <2>1 DEF WriteSynapse, limiter, history, LoadTimings
    <2>3. \A d \in Callers : writer[d].step = "mine" => writer'[d].step = "mine"
      BY <1>8, <1>t DEF WriteSynapse, Callers, Idle
    <2> QED
      BY <2>1, <2>2, <2>3, <1>r DEF OutageOnRecord, Writing, Matches
  <1>9. CASE Tick
    BY <1>9, <1>r DEF Tick, limiter, history, OutageOnRecord, Writing, LoadTimings
  <1>10. CASE Restart
    <2>1. ~Writing /\ readable' /\ outage' = outage
      BY <1>10, <1>0 DEF Restart, Remember, Writing
    <2>2. ~loaded' /\ refused' = FALSE /\ \A c \in Callers : writer'[c].step = "idle"
      BY <1>10 DEF Restart, Idle
    <2>3. LoadTimings' = LoadTimings
      BY <1>10 DEF Restart, LoadTimings
    <2> QED
      BY <2>1, <2>2, <2>3, <1>r DEF OutageOnRecord
  <1>11. CASE UNCHANGED vars
    BY <1>11, <1>r DEF vars, limiter, history, OutageOnRecord, Writing, LoadTimings
  <1> QED
    BY <1>1, <1>2, <1>3, <1>4, <1>5, <1>6, <1>7, <1>8, <1>9, <1>10, <1>11 DEF Next

(* The invariant holds in every reachable state.                           *)
LEMMA LimiterInvariant == Spec => []LimiterInv
  <1>1. LimiterInv /\ [Next]_vars => LimiterInv'
    BY LimiterTypeStep, TimingsGoodStep, UnreadIsBlankStep, RowRememberedStep, OutageOnRecordStep
       DEF LimiterInv
  <1> QED
    BY LimiterInvInit, <1>1, PTL DEF Spec

(* However long an outage lasts and whatever comes between its failures,   *)
(* the timings name its first and its last failed attempt, also in the     *)
(* process after a restart.                                                *)
THEOREM OutageRememberedAlways == Spec => []OutageRemembered
  <1>1. LimiterInv => OutageRemembered
    BY DEF LimiterInv, OutageOnRecord, OutageRemembered
  <1> QED
    BY <1>1, LimiterInvariant, PTL

(* A process that has not heard from a server dials it against its own     *)
(* readable row only when the loop has failed since catch-up asked,        *)
(* wherever a crash fell between the lock and the write of the row.        *)
THEOREM RestartRemembersBackoffAlways == Spec => RestartRemembersBackoff
  <1>1. LimiterInv /\ [Next]_vars =>
          [(StartAttempt \/ (CatchUpDials /\ sweep = "allowed")) /\ readable /\ ~heard
             => TimingsDue(TimingsOf(mine), now)]_vars
    <2> SUFFICES ASSUME LimiterInv, StartAttempt \/ (CatchUpDials /\ sweep = "allowed"),
                        readable, ~heard
                 PROVE  TimingsDue(TimingsOf(mine), now)
      OBVIOUS
    <2>1. loaded /\ TimingsDue(state, now)
      BY DEF StartAttempt, DueNow, LimiterInv, UnreadIsBlank, RowRemembered
    <2>2. RowCovered
      BY <2>1 DEF LimiterInv, RowRemembered
    <2>3. now \in Nat /\ state \in Timings /\ mine.last \in Nat /\ mine.interval \in Nat
      BY DEF LimiterInv, LimiterTypeOK, TimingsOf, Timings
    <2> QED
      BY <2>1, <2>2, <2>3 DEF RowCovered, TimingsDue, TimingsOf, Timings
  <1> QED
    BY <1>1, LimiterInvariant, PTL DEF Spec, RestartRemembersBackoff

-----------------------------------------------------------------------------
(* The refinement of Backoff.tla.                                          *)

(* How Seen reads a record of timings.                                     *)
Length(t) == IF t.interval = 0 THEN "none" ELSE IF t.interval <= Hour THEN "short" ELSE "long"

(* The contract's view of the limiter, with the class of the interval named.*)
LEMMA SeenIs ==
  Seen = [interval |-> Length(Effective), waiting |-> ~TimingsDue(Effective, now),
          refused |-> refused, cooling |-> ~OffCooldown]
  BY DEF Seen, Length

(* The same view after a step.                                             *)
LEMMA SeenIsNext ==
  Seen' = [interval |-> Length(Effective'), waiting |-> ~TimingsDue(Effective', now'),
           refused |-> refused', cooling |-> ~OffCooldown']
  BY DEF Seen, Length, TimingsDue

(* What a process acts on is a good record of timings.                     *)
LEMMA EffectiveGood == LimiterInv => Effective \in Timings /\ GoodTimings(Effective)
  <1> SUFFICES ASSUME LimiterInv PROVE Effective \in Timings /\ GoodTimings(Effective)
    OBVIOUS
  <1>1. LimiterTypeOK /\ TimingsGood /\ now \in Nat
    BY DEF LimiterInv, LimiterTypeOK
  <1>2. GoodTimings(Zero)
    BY <1>1 DEF GoodTimings, Zero
  <1>3. Effective \in {state, TimingsOf(mine), TimingsOf(synapse), Zero}
    BY DEF Effective, LoadTimings
  <1>4. GoodTimings(state) /\ GoodTimings(TimingsOf(mine)) /\ GoodTimings(TimingsOf(synapse))
    BY <1>1 DEF TimingsGood
  <1> QED
    BY <1>1, <1>2, <1>3, <1>4, LoadedTimings

(* Such a record, read at the start of a process, is one that Backoff      *)
(* starts with.                                                            *)
LEMMA RecordedIs ==
  ASSUME NEW t \in Timings, NEW w \in BOOLEAN, t.interval = 0 => ~w
  PROVE  [interval |-> Length(t), waiting |-> w, refused |-> FALSE, cooling |-> FALSE]
           \in Abstract!Recorded
  <1>1. CASE t.interval = 0
    BY <1>1 DEF Abstract!Recorded, Length
  <1>2. CASE t.interval # 0
    BY <1>2 DEF Abstract!Recorded, Length
  <1> QED
    BY <1>1, <1>2

(* Timings without an interval make nobody wait.                           *)
LEMMA NoIntervalNoWait ==
  ASSUME NEW t \in Timings, GoodTimings(t), t.interval = 0
  PROVE  TimingsDue(t, now)
  BY DEF GoodTimings, TimingsDue

(* A limiter that has just started is in a state of the contract.          *)
LEMMA SeenInit == Init => Abstract!InitBackoff
  <1> SUFFICES ASSUME Init PROVE Seen \in Abstract!Recorded
    BY DEF Abstract!InitBackoff
  <1>1. LimiterInv
    BY LimiterInvInit
  <1>2. Effective \in Timings /\ GoodTimings(Effective)
    BY <1>1, EffectiveGood
  <1>3. refused = FALSE /\ OffCooldown
    BY DEF Init, OffCooldown
  <1>4. Effective.interval = 0 => TimingsDue(Effective, now)
    BY <1>2, NoIntervalNoWait
  <1> DEFINE w == ~TimingsDue(Effective, now)
  <1>5. w \in BOOLEAN /\ (Effective.interval = 0 => ~w)
    BY <1>4
  <1> HIDE DEF w
  <1>6. [interval |-> Length(Effective), waiting |-> w, refused |-> FALSE, cooling |-> FALSE]
           \in Abstract!Recorded
    BY <1>2, <1>5, RecordedIs
  <1>7. Seen = [interval |-> Length(Effective), waiting |-> w, refused |-> FALSE, cooling |-> FALSE]
    <2>1. (~OffCooldown) = FALSE
      BY <1>3, Zenon
    <2> QED
      BY <1>3, <2>1, SeenIs, Zenon DEF w
  <1> QED
    BY <1>6, <1>7

(* A record of what is seen, field by field.                               *)
Sight(i, w, r, c) == [interval |-> i, waiting |-> w, refused |-> r, cooling |-> c]

(* Changing fields of it.                                                  *)
LEMMA SightFields ==
  ASSUME NEW i, NEW w, NEW r, NEW c
  PROVE  /\ Sight(i, w, r, c).interval = i /\ Sight(i, w, r, c).waiting = w
         /\ Sight(i, w, r, c).refused = r /\ Sight(i, w, r, c).cooling = c
  BY DEF Sight

(* A view that differs only in the cooldown.                               *)
LEMMA SightLimited ==
  ASSUME NEW i, NEW w, NEW r, NEW c, NEW d
  PROVE  [Sight(i, w, r, c) EXCEPT !.cooling = d] = Sight(i, w, r, d)
  BY DEF Sight

(* A view that differs only in the wait.                                   *)
LEMMA SightWaits ==
  ASSUME NEW i, NEW w, NEW r, NEW c, NEW x
  PROVE  [Sight(i, w, r, c) EXCEPT !.waiting = x] = Sight(i, x, r, c)
  BY DEF Sight

(* A step that leaves alone what the worker acts on is not seen.           *)
LEMMA Unseen ==
  ASSUME Effective' = Effective, UNCHANGED <<now, refused, cooldown>>
  PROVE  Seen' = Seen
  BY SeenIs, SeenIsNext DEF OffCooldown

(* Success clears everything.                                              *)
LEMMA SuccessSeen == LimiterInv /\ AttemptSucceeds => Abstract!Success
  <1> SUFFICES ASSUME LimiterInv, AttemptSucceeds PROVE Abstract!Success
    OBVIOUS
  <1>1. loaded /\ loaded'
    BY DEF LimiterInv, UnreadIsBlank, AttemptSucceeds
  <1>2. Effective' = Zero
    BY <1>1 DEF Effective, AttemptSucceeds
  <1>3. now' \in Nat /\ cooldown' = 0 /\ refused' = FALSE
    BY DEF AttemptSucceeds, LimiterInv, LimiterTypeOK
  <1>4. Length(Zero) = "none"
    BY DEF Length, Zero
  <1>5. (~TimingsDue(Zero, now')) = FALSE
    <2>1. TimingsDue(Zero, now')
      BY DEF TimingsDue, Zero
    <2> QED
      BY <2>1, Zenon
  <1>6. (~OffCooldown') = FALSE
    <2>1. OffCooldown'
      BY <1>3 DEF OffCooldown
    <2> QED
      BY <2>1, Zenon
  <1>7. Seen' = Abstract!Clear
    BY <1>2, <1>3, <1>4, <1>5, <1>6, SeenIsNext, Zenon DEF Abstract!Clear
  <1> QED
    BY <1>7 DEF Abstract!Success

(* A failure grows the interval, and the wait for it begins.               *)
LEMMA FailSeen ==
  ASSUME LimiterInv, NEW answered \in BOOLEAN, AttemptFails(answered)
  PROVE  Abstract!Fail(answered)
  <1>1. loaded /\ loaded'
    BY DEF LimiterInv, UnreadIsBlank, AttemptFails
  <1>2. Effective = state /\ Effective' = state'
    BY <1>1 DEF Effective
  <1>3. PICK i \in GrownInterval(state.interval) :
             state' = [failure |-> FailingSince, last |-> now, interval |-> i]
    BY DEF AttemptFails
  <1>4. state.interval \in 0..MaxInterval /\ now \in 1..MaxClock
    BY DEF LimiterInv, LimiterTypeOK, Timings
  <1>5. i \in 1..MaxInterval /\ state.interval <= i
    BY <1>3, <1>4, GrownIsInterval
  <1>6. Length(state') \in Abstract!Grown(Length(state))
    BY <1>3, <1>4, <1>5 DEF Length, Abstract!Grown
  <1>7. (~TimingsDue(state', now')) = TRUE
    <2>1. ~TimingsDue(state', now')
      BY <1>3, <1>4, <1>5 DEF TimingsDue, AttemptFails
    <2> QED
      BY <2>1, Zenon
  <1>8. refused' = answered /\ OffCooldown' = OffCooldown
    BY DEF AttemptFails, OffCooldown
  <1> DEFINE a == Length(state)
             b == Length(state')
             w == ~TimingsDue(state, now)
             c == ~OffCooldown
  <1>9. Seen = Sight(a, w, refused, c)
    BY <1>2, SeenIs DEF Sight
  <1>10. Seen' = Sight(b, TRUE, answered, c)
    <2>1. c = ~OffCooldown'
      BY DEF AttemptFails, OffCooldown
    <2> QED
      BY <1>2, <1>7, <1>8, <2>1, SeenIsNext, Zenon DEF Sight
  <1>11. b \in Abstract!Grown(a)
    BY <1>6
  <1> HIDE DEF a, b, w, c
  <1>12. Seen.interval = a /\ Seen.cooling = c
    BY <1>9, SightFields
  <1>13. Seen' = [interval |-> b, waiting |-> TRUE, refused |-> answered, cooling |-> Seen.cooling]
    BY <1>10, <1>12, Zenon DEF Sight
  <1> QED
    BY <1>11, <1>12, <1>13 DEF Abstract!Fail

(* A 429 starts a cooldown.                                                *)
LEMMA LimitedSeen ==
  ASSUME LimiterInv, NEW hint \in Hints, AttemptLimited(hint)
  PROVE  Abstract!RateLimited
  <1>1. Effective' = Effective /\ UNCHANGED <<now, refused>>
    BY DEF Effective, LoadTimings, TimingsOf, AttemptLimited
  <1>2. cooldown' > now /\ now' = now
    BY DEF AttemptLimited, LowerOf, LimiterInv, LimiterTypeOK
  <1>3. now \in Nat /\ cooldown' \in Nat
    BY DEF AttemptLimited, LowerOf, LimiterInv, LimiterTypeOK
  <1>4. (~OffCooldown') = TRUE
    <2>1. ~OffCooldown'
      BY <1>2, <1>3 DEF OffCooldown
    <2> QED
      BY <2>1, Zenon
  <1> DEFINE a == Length(Effective)
             w == ~TimingsDue(Effective, now)
             c == ~OffCooldown
  <1>5. Seen = Sight(a, w, refused, c)
    BY SeenIs DEF Sight
  <1>6. Seen' = Sight(a, w, refused, TRUE)
    <2>1. w = ~TimingsDue(Effective', now')
      BY <1>1
    <2>2. Effective' = Effective /\ refused' = refused
      BY <1>1
    <2> QED
      BY <2>1, <2>2, <1>4, SeenIsNext, Zenon DEF Sight
  <1> HIDE DEF a, w, c
  <1> QED
    <2>1. \A x : [Sight(a, w, refused, c) EXCEPT !.cooling = x] = Sight(a, w, refused, x)
      BY SightLimited
    <2> QED
      BY <1>5, <1>6, <2>1, Zenon DEF Abstract!RateLimited

(* REMOTE_SERVER_UP clears the backoff of a host that did not answer.      *)
LEMMA ClearedSeen ==
  ASSUME LimiterInv, Effective' = Zero, Effective.interval # 0, ~refused,
         UNCHANGED <<now, refused, cooldown>>
  PROVE  Abstract!Recovered
  <1> DEFINE c == ~OffCooldown
  <1>1. refused = FALSE /\ refused' = FALSE
    <2>1. refused \in BOOLEAN
      BY DEF LimiterInv, LimiterTypeOK
    <2> QED
      BY <2>1, Zenon
  <1>2. Length(Effective) # "none" /\ Length(Zero) = "none"
    BY DEF Length, Zero
  <1>3. (~TimingsDue(Zero, now')) = FALSE
    <2>1. TimingsDue(Zero, now')
      BY DEF TimingsDue, Zero
    <2> QED
      BY <2>1, Zenon
  <1>4. c = ~OffCooldown'
    BY DEF OffCooldown
  <1>5. Seen = Sight(Length(Effective), ~TimingsDue(Effective, now), FALSE, c)
    BY <1>1, SeenIs, Zenon DEF Sight
  <1>6. Seen' = Sight("none", FALSE, FALSE, c)
    BY <1>1, <1>2, <1>3, <1>4, SeenIsNext, Zenon DEF Sight
  <1> HIDE DEF c
  <1>7. Seen.interval # "none" /\ Seen.refused = FALSE /\ Seen.cooling = c
    <2> DEFINE a == Length(Effective)
               w == ~TimingsDue(Effective, now)
    <2> HIDE DEF a, w
    <2>1. \A r : Sight(a, w, r, c).interval = a /\ Sight(a, w, r, c).refused = r /\ Sight(a, w, r, c).cooling = c
      BY SightFields
    <2>2. Sight(a, w, FALSE, c).interval = a /\ Sight(a, w, FALSE, c).refused = FALSE /\ Sight(a, w, FALSE, c).cooling = c
      BY <2>1
    <2> QED
      BY <1>2, <1>5, <2>2, Zenon DEF a, w
  <1>8. Seen' = [interval |-> "none", waiting |-> FALSE, refused |-> FALSE, cooling |-> Seen.cooling]
    BY <1>6, <1>7, Zenon DEF Sight
  <1> QED
    BY <1>7, <1>8, Zenon DEF Abstract!Recovered

(* That of one that did is cut to an hour.                                 *)
LEMMA CutSeen ==
  ASSUME LimiterInv, Effective = state, Effective' = state', state.interval # 0, refused,
         state' = [state EXCEPT !.interval = LowerOf(@, Hour)],
         UNCHANGED <<now, refused, cooldown>>
  PROVE  Abstract!Recovered
  <1> DEFINE c == ~OffCooldown
             a == Length(state)
             w == ~TimingsDue(state, now)
             x == ~TimingsDue(state', now')
  <1>t. state \in Timings /\ now \in Nat
    BY DEF LimiterInv, LimiterTypeOK
  <1>1. refused = TRUE /\ refused' = TRUE
    <2>1. refused \in BOOLEAN
      BY DEF LimiterInv, LimiterTypeOK
    <2> QED
      BY <2>1, Zenon
  <1>2. a \in {"short", "long"} /\ Length(state') = "short"
    BY <1>t DEF Length, LowerOf, Timings
  <1>3. x \in IF a = "long" THEN {w, FALSE} ELSE {w}
    <2>1. CASE a = "long"
      <3>1. x => w
        BY <1>t DEF TimingsDue, Timings, LowerOf
      <3> QED
        BY <2>1, <3>1, Zenon
    <2>2. CASE a # "long"
      <3>1. state' = state
        BY <2>2, <1>t DEF Length, LowerOf, Timings
      <3>2. x = w
        BY <3>1
      <3> QED
        BY <2>2, <3>2, Zenon
    <2> QED
      BY <2>1, <2>2
  <1>4. c = ~OffCooldown'
    BY DEF OffCooldown
  <1>5. Seen = Sight(a, w, TRUE, c)
    BY <1>1, SeenIs, Zenon DEF Sight
  <1>6. Seen' = Sight("short", x, TRUE, c)
    BY <1>1, <1>2, <1>4, SeenIsNext, Zenon DEF Sight
  <1> HIDE DEF a, c, w, x
  <1>7. Seen.interval = a /\ Seen.waiting = w /\ Seen.refused = TRUE /\ Seen.cooling = c
    <2>1. \A r : /\ Sight(a, w, r, c).interval = a /\ Sight(a, w, r, c).waiting = w
                 /\ Sight(a, w, r, c).refused = r /\ Sight(a, w, r, c).cooling = c
      BY SightFields
    <2>2. /\ Sight(a, w, TRUE, c).interval = a /\ Sight(a, w, TRUE, c).waiting = w
          /\ Sight(a, w, TRUE, c).refused = TRUE /\ Sight(a, w, TRUE, c).cooling = c
      BY <2>1
    <2> QED
      BY <1>5, <2>2, Zenon
  <1>8. Seen' = [interval |-> "short", waiting |-> x, refused |-> TRUE, cooling |-> Seen.cooling]
    BY <1>6, <1>7, Zenon DEF Sight
  <1>9. Seen.interval # "none"
    BY <1>2, <1>7
  <1>10. x \in IF Seen.interval = "long" THEN {Seen.waiting, FALSE} ELSE {Seen.waiting}
    BY <1>3, <1>7, Zenon
  <1> QED
    BY <1>7, <1>8, <1>9, <1>10, Zenon DEF Abstract!Recovered

(* REMOTE_SERVER_UP, also before the rows have been read.                  *)
LEMMA ServerUpSeen == LimiterInv /\ ServerUp => Abstract!Recovered \/ Seen' = Seen
  <1> SUFFICES ASSUME LimiterInv, ServerUp PROVE Abstract!Recovered \/ Seen' = Seen
    OBVIOUS
  <1>u. UNCHANGED <<now, refused, cooldown, readable, mine>>
    BY DEF ServerUp
  <1>t. Effective \in Timings /\ GoodTimings(Effective)
    BY EffectiveGood
  <1>1. CASE loaded
    <2>1. Effective = state /\ Effective' = state'
      BY <1>1, <1>u DEF Effective, ServerUp
    <2>2. CASE state' = state
      BY <2>1, <2>2, <1>u, Unseen
    <2>3. CASE ~(state.interval = 0 /\ state.last = 0) /\ Refusing
               /\ state' = [state EXCEPT !.interval = LowerOf(@, Hour)]
      <3>1. state.interval # 0
        BY <2>1, <2>3, <1>t DEF GoodTimings
      <3> QED
        BY <2>1, <2>3, <3>1, <1>u, CutSeen DEF Refusing
    <2>4. CASE ~(state.interval = 0 /\ state.last = 0) /\ ~Refusing /\ state' = Zero
      <3>1. state.interval # 0
        BY <2>1, <2>4, <1>t DEF GoodTimings
      <3> QED
        BY <2>1, <2>4, <3>1, <1>u, ClearedSeen DEF Refusing
    <2> QED
      BY <2>2, <2>3, <2>4 DEF ServerUp
  <1>2. CASE ~loaded
    <2>1. state = Zero /\ refused = FALSE
      BY <1>2 DEF LimiterInv, UnreadIsBlank
    <2>2. loaded' = loaded /\ synapse' = RowOf(Zero)
      BY <2>1 DEF ServerUp, Zero
    <2>3. TimingsOf(RowOf(Zero)) = Zero
      BY RowHolds, LoadedTimings DEF LimiterInv
    <2>4. Effective' = Effective \/ Effective' = Zero
      BY <1>2, <1>u, <2>2, <2>3 DEF Effective, LoadTimings, TimingsOf
    <2>5. CASE Effective.interval = 0
      <3>1. Effective = Zero
        BY <2>5, <1>t DEF GoodTimings, Timings, Zero
      <3> QED
        BY <2>4, <3>1, <1>u, Unseen
    <2>6. CASE Effective.interval # 0 /\ Effective' = Zero
      BY <2>1, <2>6, <1>u, ClearedSeen
    <2> QED
      BY <2>4, <2>5, <2>6, <1>u, Unseen
  <1> QED
    BY <1>1, <1>2

(* The clock ends a wait, a cooldown, or both.                             *)
LEMMA TickSeen ==
  LimiterInv /\ Tick => Abstract!WaitRunsOut \/ Abstract!CooldownRunsOut \/ Seen' = Seen
  <1> SUFFICES ASSUME LimiterInv, Tick
               PROVE  Abstract!WaitRunsOut \/ Abstract!CooldownRunsOut \/ Seen' = Seen
    OBVIOUS
  <1> DEFINE a == Length(Effective)
             w == ~TimingsDue(Effective, now)
             x == ~TimingsDue(Effective, now')
             c == ~OffCooldown
             d == ~OffCooldown'
  <1>t. Effective \in Timings /\ now \in Nat /\ cooldown \in Nat /\ now' = now + 1
    BY EffectiveGood DEF LimiterInv, LimiterTypeOK, Tick
  <1>1. Effective' = Effective /\ refused' = refused
    BY DEF Tick, limiter, Effective, LoadTimings, TimingsOf
  <1>2. Seen = Sight(a, w, refused, c)
    BY SeenIs DEF Sight
  <1>3. Seen' = Sight(a, x, refused, d)
    BY <1>1, SeenIsNext DEF Sight
  <1>4. x => w
    BY <1>t, DueLater
  <1>5. d => c
    BY <1>t DEF Tick, limiter, OffCooldown
  <1>b. w \in BOOLEAN /\ x \in BOOLEAN /\ c \in BOOLEAN /\ d \in BOOLEAN
    OBVIOUS
  <1> HIDE DEF a, w, x, c, d
  <1>7. CASE w = x /\ c = d
    BY <1>2, <1>3, <1>7
  <1>8. CASE w /\ ~x
    <2>1. x = FALSE /\ d \in {c, FALSE}
      BY <1>5, <1>8, <1>b, Zenon
    <2>2. Seen.waiting = w /\ Seen.cooling = c
      BY <1>2, SightFields
    <2>3. Seen' = [Seen EXCEPT !.waiting = FALSE, !.cooling = d]
      <3>1. [Sight(a, w, refused, c) EXCEPT !.waiting = x, !.cooling = d] = Sight(a, x, refused, d)
        <4>1. [Sight(a, w, refused, c) EXCEPT !.waiting = x] = Sight(a, x, refused, c)
          BY SightWaits
        <4>2. [Sight(a, x, refused, c) EXCEPT !.cooling = d] = Sight(a, x, refused, d)
          BY SightLimited
        <4> QED
          BY <4>1, <4>2 DEF Sight
      <3>2. Seen' = [Seen EXCEPT !.waiting = x, !.cooling = d]
        BY <1>2, <1>3, <3>1
      <3> QED
        BY <2>1, <3>2, Zenon
    <2> QED
      BY <1>8, <2>1, <2>2, <2>3, Zenon DEF Abstract!WaitRunsOut
  <1>9. CASE c /\ ~d /\ w = x
    <2>1. d = FALSE
      BY <1>9, <1>b, Zenon
    <2>2. Seen.cooling = c /\ [Sight(a, w, refused, c) EXCEPT !.cooling = d] = Sight(a, w, refused, d)
      BY <1>2, SightFields, SightLimited
    <2>3. Seen.cooling /\ Seen' = [Seen EXCEPT !.cooling = d]
      BY <1>2, <1>3, <1>9, <2>1, <2>2
    <2> QED
      BY <2>1, <2>3, Zenon DEF Abstract!CooldownRunsOut
  <1> QED
    BY <1>4, <1>5, <1>7, <1>8, <1>9, <1>b, Zenon

(* A restart reads back timings that a run of failures can leave.          *)
LEMMA RestartSeen == LimiterInv /\ Restart => Abstract!Reload
  <1> SUFFICES ASSUME LimiterInv, Restart PROVE Seen' \in Abstract!Recorded
    BY DEF Abstract!Reload
  <1>1. Effective' \in Timings /\ GoodTimings(Effective') /\ now' = now
    <2>1. Effective' \in {LoadTimings, Zero}
      BY DEF Restart, Effective, LoadTimings, TimingsOf
    <2>2. LoadTimings \in {TimingsOf(mine), TimingsOf(synapse)} /\ now \in Nat
      BY DEF LoadTimings, LimiterInv, LimiterTypeOK
    <2>3. GoodTimings(Zero)
      BY <2>2 DEF GoodTimings, Zero
    <2>4. GoodTimings(TimingsOf(mine)) /\ GoodTimings(TimingsOf(synapse))
      BY DEF LimiterInv, TimingsGood
    <2>5. LoadTimings \in Timings /\ Zero \in Timings
      BY LoadedTimings DEF LimiterInv
    <2> QED
      BY <2>1, <2>2, <2>3, <2>4, <2>5 DEF Restart
  <1> DEFINE w == ~TimingsDue(Effective', now')
  <1>2. w \in BOOLEAN /\ (Effective'.interval = 0 => ~w)
    BY <1>1, NoIntervalNoWait
  <1>3. Seen' = [interval |-> Length(Effective'), waiting |-> w, refused |-> FALSE, cooling |-> FALSE]
    <2>1. refused' = FALSE /\ OffCooldown'
      BY DEF Restart, OffCooldown, LimiterInv, LimiterTypeOK
    <2>2. (~OffCooldown') = FALSE
      BY <2>1, Zenon
    <2> QED
      BY <2>1, <2>2, SeenIsNext, Zenon
  <1> HIDE DEF w
  <1> QED
    BY <1>1, <1>2, <1>3, RecordedIs

(* Every step of the limiter is a step of its contract.                    *)
LEMMA StepSeen ==
  LimiterInv /\ [Next]_vars =>
    [IF used'.restarts = used.restarts THEN Abstract!NextBackoff ELSE Abstract!Reload]_Seen
  <1> SUFFICES ASSUME LimiterInv, [Next]_vars
               PROVE  \/ IF used'.restarts = used.restarts
                         THEN Abstract!NextBackoff ELSE Abstract!Reload
                      \/ Seen' = Seen
    OBVIOUS
  <1>u. used.restarts \in Nat /\ used \in [serverUps : 0..MaxServerUps, restarts : 0..MaxRestarts]
    BY DEF LimiterInv, LimiterTypeOK
  <1>1. CASE Seed
    <2>1. Effective' = Effective /\ UNCHANGED <<now, refused, cooldown>>
      BY <1>1 DEF Seed, Effective, LoadTimings
    <2> QED
      BY <2>1, Unseen
  <1>2. CASE StartAttempt \/ SweepAsks \/ CatchUpDials \/ UNCHANGED vars
    <2>1. Effective' = Effective /\ UNCHANGED <<now, refused, cooldown>>
      BY <1>2 DEF StartAttempt, SweepAsks, CatchUpDials, limiter, vars, Effective, LoadTimings, TimingsOf
    <2> QED
      BY <2>1, Unseen
  <1>3. CASE AttemptSucceeds
    <2>1. used'.restarts = used.restarts
      BY <1>3 DEF AttemptSucceeds
    <2> QED
      BY <1>3, <2>1, SuccessSeen DEF Abstract!NextBackoff
  <1>4. ASSUME NEW answered \in BOOLEAN, AttemptFails(answered)
        PROVE  used'.restarts = used.restarts /\ Abstract!NextBackoff
    BY <1>4, FailSeen DEF AttemptFails, Abstract!NextBackoff
  <1>5. ASSUME NEW hint \in Hints, AttemptLimited(hint)
        PROVE  used'.restarts = used.restarts /\ Abstract!NextBackoff
    BY <1>5, LimitedSeen DEF AttemptLimited, Abstract!NextBackoff
  <1>6. CASE ServerUp
    <2>1. used'.restarts = used.restarts
      BY <1>6, <1>u DEF ServerUp
    <2> QED
      BY <1>6, <2>1, ServerUpSeen DEF Abstract!NextBackoff
  <1>7. ASSUME NEW k \in Callers, WriteMine(k) \/ WriteSynapse(k) PROVE Seen' = Seen
    <2>1. loaded /\ loaded' /\ state' = state
      BY <1>7 DEF WriteMine, WriteSynapse, limiter, LimiterInv, UnreadIsBlank
    <2>2. Effective' = Effective /\ UNCHANGED <<now, refused, cooldown>>
      BY <1>7, <2>1 DEF Effective, WriteMine, WriteSynapse, limiter
    <2> QED
      BY <2>2, Unseen
  <1>8. CASE Tick
    <2>1. used'.restarts = used.restarts
      BY <1>8 DEF Tick
    <2> QED
      BY <1>8, <2>1, TickSeen DEF Abstract!NextBackoff
  <1>9. CASE Restart
    <2>1. used'.restarts # used.restarts
      BY <1>9, <1>u DEF Restart
    <2> QED
      BY <1>9, <2>1, RestartSeen
  <1> QED
    BY <1>1, <1>2, <1>3, <1>4, <1>5, <1>6, <1>7, <1>8, <1>9 DEF Next

(* The clocked limiter implements the contract that the queue's model      *)
(* relies on: initial states map to initial states, and under the          *)
(* invariant every step is a step of Backoff, a reload or a stutter.       *)
THEOREM RefinesBackoff == Spec => ImplementsBackoff
  BY SeenInit, StepSeen, LimiterInvariant, PTL DEF Spec, ImplementsBackoff
=============================================================================
