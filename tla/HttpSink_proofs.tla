--------------------------- MODULE HttpSink_proofs ---------------------------
(* Proofs about HttpSink.tla and ResolveCache.tla for every value of their  *)
(* constants.                                                               *)
EXTENDS HttpSink, TLAPS

USE ResolveCacheAssumption, HttpSinkAssumption

-----------------------------------------------------------------------------
(* Durations.                                                              *)

(* A remainder is within its divisor.                                      *)
LEMMA RemainderBounds ==
  ASSUME NEW d \in Int, NEW m \in Nat, m > 0
  PROVE  d % m \in 0..(m - 1)
  OBVIOUS

(* Wrapping gives a duration, and one that fits is kept.                   *)
LEMMA WrapIs ==
  ASSUME NEW d \in Int
  PROVE  /\ Wrap(d) \in Int
         /\ d \in 0..(DurationLimit - 1) => Wrap(d) = d
  <1>1. DurationLimit \in Nat /\ DurationLimit > 0
    OBVIOUS
  <1>2. (d + DurationLimit) % (2 * DurationLimit) \in 0..(2 * DurationLimit - 1)
    BY <1>1, RemainderBounds
  <1>3. ASSUME d \in 0..(DurationLimit - 1)
        PROVE  (d + DurationLimit) % (2 * DurationLimit) = d + DurationLimit
    <2>1. \A x \in Nat, m \in Nat : x < m => x % m = x
      OBVIOUS
    <2> QED
      BY <1>1, <1>3, <2>1
  <1> QED
    BY <1>1, <1>2, <1>3 DEF Wrap

(* The lower and the higher of two durations.                              *)
LEMMA Bounds ==
  ASSUME NEW a \in Int, NEW b \in Int
  PROVE  /\ Lower(a, b) \in Int /\ Lower(a, b) <= a /\ Lower(a, b) <= b /\ Lower(a, b) \in {a, b}
         /\ Higher(a, b) \in Int /\ a <= Higher(a, b) /\ b <= Higher(a, b)
         /\ Higher(a, b) \in {a, b}
  BY DEF Lower, Higher

(* The base of the delay before every attempt but the first is positive    *)
(* after the jitter, and within the configured maximum.                    *)
LEMMA BaseDelayBounds ==
  ASSUME NEW n \in Nat, n > 0
  PROVE  BaseDelay(n) \in 2..MaxDelay
  <1>1. CASE n <= MaxBackoffAttempt
    <2>1. n \in 1..MaxBackoffAttempt
      BY <1>1
    <2>2. Second * 4 ^ n \in 2..(DurationLimit - 1)
      BY <2>1
    <2>3. Wrap(Second * 4 ^ n) = Second * 4 ^ n
      <3> DEFINE d == Second * 4 ^ n
      <3>1. d \in Int /\ d \in 0..(DurationLimit - 1)
        BY <2>2
      <3> HIDE DEF d
      <3>2. Wrap(d) = d
        BY <3>1, WrapIs
      <3> QED
        BY <3>2 DEF d
    <2> DEFINE e == Second * 4 ^ n
    <2>4. BaseDelay(n) = Lower(e, MaxDelay)
      BY <1>1, <2>3 DEF BaseDelay
    <2>5. e \in 2..(DurationLimit - 1)
      BY <2>2
    <2> HIDE DEF e
    <2> QED
      BY <2>4, <2>5 DEF Lower
  <1>2. CASE ~(n <= MaxBackoffAttempt)
    BY <1>2 DEF BaseDelay
  <1> QED
    BY <1>1, <1>2

(* The delay before every attempt but the first.                           *)
LEMMA BackoffBounds ==
  ASSUME NEW n \in Nat, n > 0, NEW d \in Backoff(n)
  PROVE  d \in Int /\ 0 < d /\ d <= (14 * MaxDelay) \div 10
  <1>1. PICK f \in {8, 10, 14} : d = (BaseDelay(n) * f) \div 10
    BY DEF Backoff
  <1> DEFINE b == BaseDelay(n)
  <1>2. b \in 2..MaxDelay
    BY BaseDelayBounds
  <1> HIDE DEF b
  <1>3. d = (b * f) \div 10
    BY <1>1 DEF b
  <1>4. CASE f = 8
    BY <1>2, <1>3, <1>4
  <1>5. CASE f = 10
    BY <1>2, <1>3, <1>5
  <1>6. CASE f = 14
    BY <1>2, <1>3, <1>6
  <1> QED
    BY <1>4, <1>5, <1>6

(* What a remote may ask for.                                              *)
LEMMA RetryAfterBounds ==
  ASSUME NEW secs \in RetryAfters
  PROVE  RetryAfter(secs) \in Int /\ RetryAfter(secs) <= RetryAfterCap
  <1>1. secs * Second \in Int
    <2>1. secs \in Int /\ Second \in Int
      OBVIOUS
    <2> QED
      BY <2>1
  <1> DEFINE w == Wrap(secs * Second)
  <1>2. w \in Int
    BY <1>1, WrapIs
  <1>3. RetryAfter(secs) = Lower(w, RetryAfterCap)
    BY DEF RetryAfter
  <1> HIDE DEF w
  <1>4. RetryAfterCap \in Int
    OBVIOUS
  <1> QED
    BY <1>2, <1>3, <1>4 DEF Lower

-----------------------------------------------------------------------------
(* The cache.                                                              *)

(* A period is a number, and one without a delegation is short.            *)
LEMMA PeriodBounds ==
  ASSUME CacheTypeOK, NEW where \in {"delegated", "bare"}, NEW header \in Headers
  PROVE  /\ Period(where, header) \in Nat
         /\ where = "bare" => Period(where, header) <= NoDelegationTTL
  <1>1. FallbackPeriod \in Nat /\ FallbackPeriod <= NoDelegationTTL
    BY DEF FallbackPeriod
  <1>2. header \in Nat
    OBVIOUS
  <1> QED
    BY <1>1, <1>2 DEF Period, Lower, Higher

(* The jitter lengthens a period by a tenth at most.                       *)
LEMMA JitterBounds ==
  ASSUME NEW p \in Nat, NEW q \in Nat, p <= q, NEW ttl \in Jittered(p)
  PROVE  ttl \in Nat /\ ttl <= LongestOf(q)
  BY DEF Jittered, LongestOf

(* Storing a resolution keeps the cache well typed, and a fallback's life  *)
(* short.                                                                  *)
LEMMA StoreBounds ==
  ASSUME CacheTypeOK, NEW where \in {"delegated", "bare"}, NEW header \in Headers,
         StoreResolution(where, header)
  PROVE  /\ entry'.at \in {"none", where} /\ entry'.expires \in Nat
         /\ entry'.at = "bare" => entry'.expires <= now + LongestOf(NoDelegationTTL)
         /\ delegatedUntil' \in 0..(MaxClock + RememberDelegation) /\ lastSweep' \in 0..MaxClock
  <1>1. PICK ttl \in Jittered(Period(where, header)) :
          /\ entry' = IF (lastSweep = 0 \/ now - lastSweep >= SweepEvery) /\ ttl = 0 THEN NoEntry
                      ELSE [at |-> where, expires |-> now + ttl]
          /\ delegatedUntil' \in {0, delegatedUntil, IF where = "delegated" THEN now + RememberDelegation
                                                     ELSE delegatedUntil}
          /\ lastSweep' \in {now, lastSweep}
    BY DEF StoreResolution
  <1> DEFINE p == Period(where, header)
  <1>2. p \in Nat /\ (where = "bare" => p <= NoDelegationTTL)
    BY PeriodBounds
  <1> HIDE DEF p
  <1>3. ttl \in Jittered(p)
    BY <1>1 DEF p
  <1>4. ttl \in Nat /\ (where = "bare" => ttl <= LongestOf(NoDelegationTTL))
    BY <1>2, <1>3, JitterBounds
  <1>5. /\ now \in 1..MaxClock /\ delegatedUntil \in 0..(MaxClock + RememberDelegation)
        /\ RememberDelegation \in Nat /\ lastSweep \in 0..MaxClock /\ MaxClock \in Nat
    BY DEF CacheTypeOK
  <1>6. delegatedUntil' \in 0..(MaxClock + RememberDelegation) /\ lastSweep' \in 0..MaxClock
    BY <1>1, <1>5
  <1> DEFINE longest == LongestOf(NoDelegationTTL)
  <1>7. longest \in Nat
    BY DEF LongestOf
  <1> HIDE DEF longest
  <1>8. ttl \in Nat /\ (where = "bare" => ttl <= longest)
    BY <1>4 DEF longest
  <1>9. CASE entry' = NoEntry
    <2>1. entry'.at = "none" /\ entry'.expires = 0
      BY <1>9 DEF NoEntry
    <2> QED
      BY <1>6, <2>1
  <1>10. CASE entry' = [at |-> where, expires |-> now + ttl]
    <2>1. entry'.at = where /\ entry'.expires = now + ttl
      BY <1>10
    <2>2. now \in Nat
      BY <1>5
    <2>3. entry'.expires \in Nat /\ (where = "bare" => entry'.expires <= now + longest)
      BY <1>7, <1>8, <2>1, <2>2
    <2> QED
      BY <1>6, <2>1, <2>3 DEF longest
  <1> QED
    BY <1>1, <1>9, <1>10
-----------------------------------------------------------------------------
(* The inductive invariant.                                                *)

(* What a remote asks for is capped when it is read, and it is waited for  *)
(* one step later.                                                         *)
AskedIsCapped == after <= RetryAfterCap

(* A fallback that is stored outlives neither the present nor the moment   *)
(* from which a resolution would have found the delegation by more than    *)
(* the longest life it is given.                                           *)
FallbackIsShort ==
  entry.at = "bare" =>
    /\ entry.expires <= now + LongestOf(NoDelegationTTL)
    /\ home = "delegated" /\ wellKnown => entry.expires <= settled + LongestOf(NoDelegationTTL)

SinkInv == SinkTypeOK /\ AskedIsCapped /\ WaitIsSane /\ FallbackIsShort

(* A Send that has not begun satisfies it.                                 *)
LEMMA SinkInitially == SinkInit => SinkInv
  <1> SUFFICES ASSUME SinkInit PROVE SinkInv
    OBVIOUS
  <1>1. entry.at = "none" /\ entry.expires = 0
    BY DEF SinkInit, CacheInit, NoEntry
  <1>2. CacheTypeOK
    <2>1. now = 1 /\ delegatedUntil = 0 /\ lastSweep = 0 /\ settled = 1 /\ home \in {"delegated", "bare"}
      BY DEF SinkInit, CacheInit
    <2>2. wellKnown \in BOOLEAN
      BY Zenon DEF SinkInit, CacheInit
    <2>3. RememberDelegation \in Nat /\ MaxClock \in Nat /\ MaxClock > 0
      <3>1. RememberDelegation \in Nat \ {0} /\ MaxClock \in Nat \ {0}
        BY Zenon
      <3> QED
        BY <3>1
    <2>4. 1 \in 1..MaxClock /\ 1 \in 0..MaxClock /\ 0 \in 0..MaxClock /\ 0 \in 0..(MaxClock + RememberDelegation)
      BY <2>3
    <2> QED
      BY <1>1, <2>1, <2>2, <2>4 DEF CacheTypeOK
  <1>3. SinkTypeOK
    BY <1>2 DEF SinkInit, SinkTypeOK, Errors, Results
  <1> QED
    BY <1>1, <1>3 DEF SinkInv, AskedIsCapped, WaitIsSane, FallbackIsShort, SinkInit

(* The longest life of a fallback is a number.                             *)
LEMMA LongestIsNat == LongestOf(NoDelegationTTL) \in Nat
  BY DEF LongestOf

(* A step that leaves the cache and the world alone keeps what is said of  *)
(* them.                                                                   *)
LEMMA CacheUntouched ==
  ASSUME SinkInv, UNCHANGED <<now, cacheVars, worldVars>>
  PROVE  CacheTypeOK' /\ FallbackIsShort'
  BY DEF SinkInv, SinkTypeOK, CacheTypeOK, FallbackIsShort, cacheVars, worldVars

(* Return leaves nothing of the Send behind.                               *)
LEMMA ReturnKeeps ==
  ASSUME SinkInv, NEW r \in Results, Return(r), UNCHANGED <<now, cacheVars, worldVars>>
  PROVE  SinkInv'
  <1>1. CacheTypeOK' /\ FallbackIsShort'
    BY CacheUntouched
  <1>2. SinkTypeOK'
    BY <1>1 DEF SinkTypeOK, Return, Errors, Results
  <1> QED
    BY <1>1, <1>2 DEF SinkInv, AskedIsCapped, WaitIsSane, Return

(* Router.Send.                                                            *)
LEMMA StartSendKeeps ==
  ASSUME SinkInv, NEW d \in Destinations, StartSend(d)
  PROVE  SinkInv'
  <1>1. CacheTypeOK' /\ FallbackIsShort'
    BY CacheUntouched DEF StartSend
  <1>2. SinkTypeOK'
    BY <1>1 DEF SinkInv, SinkTypeOK, StartSend, DryRunSend, Results
  <1> QED
    BY <1>1, <1>2 DEF SinkInv, AskedIsCapped, WaitIsSane, StartSend, DryRunSend

(* The name is resolved.                                                   *)
LEMMA ResolveKeeps ==
  ASSUME SinkInv, Resolve
  PROVE  SinkInv'
  <1>1. CacheTypeOK /\ SinkTypeOK
    BY DEF SinkInv, SinkTypeOK
  <1>2. /\ at' \in {"request", "failed"} /\ UNCHANGED <<now, worldVars, attempt, limitedSeen, after, delay, result>>
    BY DEF Resolve, FailsWith
  <1>3. WaitIsSane' /\ AskedIsCapped'
    BY <1>2 DEF SinkInv, AskedIsCapped, WaitIsSane
  <1>4. Found \in {"delegated", "bare"} /\ (home = "delegated" /\ wellKnown => Found = "delegated")
    BY <1>1 DEF Found, CacheTypeOK
  <1>5. CASE Cached /\ UNCHANGED <<cacheVars, last>> /\ target' = entry.at
    <2>1. CacheTypeOK' /\ FallbackIsShort'
      BY <1>2, <1>5, CacheUntouched
    <2>2. SinkTypeOK'
      BY <1>1, <1>2, <1>5, <2>1 DEF SinkTypeOK, CacheTypeOK
    <2> QED
      BY <1>3, <2>1, <2>2 DEF SinkInv
  <1>6. CASE /\ target' = Found /\ UNCHANGED last
             /\ \E header \in Headers : StoreResolution(Found, header)
    <2>1. PICK header \in Headers : StoreResolution(Found, header)
      BY <1>6
    <2>2. /\ entry'.at \in {"none", Found} /\ entry'.expires \in Nat
          /\ entry'.at = "bare" => entry'.expires <= now + LongestOf(NoDelegationTTL)
          /\ delegatedUntil' \in 0..(MaxClock + RememberDelegation) /\ lastSweep' \in 0..MaxClock
      BY <1>1, <1>4, <2>1, StoreBounds
    <2>3. CacheTypeOK'
      BY <1>1, <1>2, <1>4, <2>2 DEF CacheTypeOK, worldVars
    <2>4. FallbackIsShort'
      BY <1>2, <1>4, <2>2 DEF FallbackIsShort, worldVars
    <2>5. SinkTypeOK'
      BY <1>1, <1>2, <1>4, <1>6, <2>3 DEF SinkTypeOK
    <2> QED
      BY <1>3, <2>4, <2>5 DEF SinkInv
  <1>7. CASE /\ FailsWith("unreachable") /\ entry' = NoEntry
             /\ UNCHANGED <<delegatedUntil, lastSweep, target>>
    <2>1. entry'.at = "none" /\ entry'.expires = 0
      BY <1>7 DEF NoEntry
    <2>2. CacheTypeOK'
      BY <1>1, <1>2, <1>7, <2>1 DEF CacheTypeOK, worldVars
    <2>3. SinkTypeOK'
      BY <1>1, <1>2, <1>7, <2>2 DEF SinkTypeOK, FailsWith, Errors
    <2> QED
      BY <1>3, <2>1, <2>3 DEF SinkInv, FallbackIsShort
  <1> QED
    BY <1>5, <1>6, <1>7 DEF Resolve

(* The server is asked.                                                    *)
LEMMA RequestKeeps ==
  ASSUME SinkInv, Request
  PROVE  SinkInv'
  <1>1. UNCHANGED <<now, cacheVars, worldVars>>
    BY DEF Request
  <1>2. CASE \E r \in {"delivered", "refused"} : Return(r)
    <2>1. PICK r \in {"delivered", "refused"} : Return(r)
      BY <1>2
    <2> QED
      BY <1>1, <2>1, ReturnKeeps DEF Results
  <1>3. CASE /\ \E e \in Errors : FailsWith(e)
             /\ after' = 0 \/ \E secs \in RetryAfters : after' = RetryAfter(secs)
             /\ target' = "none" /\ UNCHANGED <<attempt, limitedSeen, delay, result>>
    <2>1. after' \in Int /\ after' <= RetryAfterCap
      <3>1. CASE after' = 0
        BY <3>1
      <3>2. CASE \E secs \in RetryAfters : after' = RetryAfter(secs)
        BY <3>2, RetryAfterBounds, Zenon
      <3> QED
        BY <1>3, <3>1, <3>2
    <2>2. CacheTypeOK' /\ FallbackIsShort'
      BY <1>1, CacheUntouched
    <2>3. SinkTypeOK'
      BY <1>3, <2>1, <2>2 DEF SinkInv, SinkTypeOK, FailsWith
    <2> QED
      BY <1>3, <2>1, <2>2, <2>3 DEF SinkInv, AskedIsCapped, WaitIsSane, FailsWith
  <1> QED
    BY <1>2, <1>3 DEF Request, Errors

(* The end of the loop, or the wait before the next attempt: between two   *)
(* attempts it is positive and bounded, whichever source it has.           *)
LEMMA AgainKeeps ==
  ASSUME SinkInv, Again
  PROVE  SinkInv'
  <1>1. UNCHANGED <<now, cacheVars, worldVars>> /\ at = "failed" /\ SinkTypeOK
    BY DEF Again, SinkInv
  <1>2. CASE \E r \in Results : Return(r)
    <2>1. PICK r \in Results : Return(r)
      BY <1>2
    <2> QED
      BY <1>1, <2>1, ReturnKeeps
  <1> DEFINE seen == IF last = "limited" THEN limitedSeen + 1 ELSE limitedSeen
             within == /\ NextAttempt <= Retries /\ ~(last = "limited" /\ seen >= MaxRateLimitedAttempts)
                       /\ at' = "wait" /\ attempt' = NextAttempt /\ limitedSeen' = seen
                       /\ delay' \in IF last = "limited" /\ after > 0 THEN {after} ELSE Backoff(NextAttempt)
                       /\ UNCHANGED <<last, after, target, result>>
  <1>3. CASE within
    <2>1. CacheTypeOK' /\ FallbackIsShort'
      BY <1>1, CacheUntouched
    <2>2. NextAttempt \in Nat /\ NextAttempt > 0 /\ NextAttempt <= Retries
      BY <1>1, <1>3 DEF NextAttempt, SinkTypeOK
    <2> DEFINE jitter == (14 * MaxDelay) \div 10
    <2>3. jitter \in Int /\ RetryAfterCap \in Int
      OBVIOUS
    <2>4. delay' \in Int /\ 0 < delay' /\ (delay' <= jitter \/ delay' <= RetryAfterCap)
      <3>1. CASE last = "limited" /\ after > 0
        BY <1>1, <1>3, <3>1 DEF SinkInv, AskedIsCapped, SinkTypeOK
      <3>2. CASE ~(last = "limited" /\ after > 0)
        BY <1>3, <2>2, <3>2, BackoffBounds
      <3> QED
        BY <3>1, <3>2
    <2> HIDE DEF jitter
    <2>5. delay' <= Higher(jitter, RetryAfterCap)
      BY <2>3, <2>4 DEF Higher
    <2>6. WaitIsSane'
      BY <2>4, <2>5 DEF WaitIsSane, jitter, Higher
    <2>7. seen \in 0..MaxRateLimitedAttempts
      BY <1>1, <1>3 DEF SinkTypeOK
    <2>8. SinkTypeOK'
      BY <1>1, <1>3, <2>1, <2>2, <2>4, <2>7 DEF SinkTypeOK
    <2> QED
      BY <1>3, <2>1, <2>6, <2>8 DEF SinkInv, AskedIsCapped
  <1>4. last \in Results /\ "limited" \in Results
    BY <1>1 DEF SinkTypeOK, Errors, Results
  <1> QED
    BY <1>2, <1>3, <1>4 DEF Again

(* The wait is over, or the worker shuts down.                             *)
LEMMA WaitOverKeeps ==
  ASSUME SinkInv, WaitOver
  PROVE  SinkInv'
  <1>1. CacheTypeOK' /\ FallbackIsShort'
    BY CacheUntouched DEF WaitOver
  <1>2. SinkTypeOK'
    BY <1>1 DEF SinkInv, SinkTypeOK, WaitOver, Errors
  <1> QED
    BY <1>1, <1>2 DEF SinkInv, AskedIsCapped, WaitIsSane, WaitOver

(* Time passes, the .well-known comes and goes, the server moves: what is  *)
(* cached is as old as it was, and the moment it is measured from is the   *)
(* present at the earliest.                                                *)
LEMMA WorldKeeps ==
  ASSUME SinkInv, World
  PROVE  SinkInv'
  <1>1. UNCHANGED sendVars /\ SinkTypeOK /\ CacheTypeOK /\ FallbackIsShort
    BY DEF World, SinkInv, SinkTypeOK
  <1> DEFINE longest == LongestOf(NoDelegationTTL)
  <1>2. longest \in Nat
    BY LongestIsNat
  <1>3. /\ entry.at = "bare" => entry.expires <= now + longest
        /\ entry.at = "bare" /\ home = "delegated" /\ wellKnown => entry.expires <= settled + longest
    BY <1>1 DEF FallbackIsShort
  <1> HIDE DEF longest
  <1>4. UNCHANGED entry /\ now \in Nat /\ entry.expires \in Nat
    BY <1>1 DEF World, Tick, WellKnownChanges, ServerMoves, cacheVars, CacheTypeOK
  <1>5. now' \in Nat /\ now <= now'
        /\ (settled' = now \/ UNCHANGED <<settled, home, wellKnown>>)
    BY <1>1, <1>4 DEF World, Tick, WellKnownChanges, ServerMoves, worldVars
  <1>6. FallbackIsShort'
    <2>1. entry'.at = "bare" => entry'.expires <= now' + longest
      BY <1>2, <1>3, <1>4, <1>5
    <2>2. entry'.at = "bare" /\ home' = "delegated" /\ wellKnown' => entry'.expires <= settled' + longest
      BY <1>2, <1>3, <1>4, <1>5
    <2> QED
      BY <2>1, <2>2 DEF FallbackIsShort, longest
  <1>7. wellKnown' \in BOOLEAN
    BY <1>1, Zenon DEF World, Tick, WellKnownChanges, ServerMoves, worldVars, CacheTypeOK
  <1>8. now' \in 1..MaxClock /\ home' \in {"delegated", "bare"} /\ settled' \in 0..MaxClock
        /\ UNCHANGED cacheVars
    BY <1>1 DEF World, Tick, WellKnownChanges, ServerMoves, worldVars, CacheTypeOK
  <1>9. CacheTypeOK'
    BY <1>1, <1>7, <1>8 DEF CacheTypeOK, cacheVars
  <1>10. SinkTypeOK' /\ AskedIsCapped' /\ WaitIsSane'
    BY <1>1, <1>9 DEF SinkTypeOK, SinkInv, AskedIsCapped, WaitIsSane, sendVars
  <1> QED
    BY <1>6, <1>10 DEF SinkInv

(* Every step keeps the invariant.                                         *)
LEMMA SinkKeeps == SinkInv /\ [SinkNext]_sinkVars => SinkInv'
  <1> SUFFICES ASSUME SinkInv, [SinkNext]_sinkVars PROVE SinkInv'
    OBVIOUS
  <1>1. CASE \E d \in Destinations : StartSend(d)
    BY <1>1, StartSendKeeps
  <1>2. CASE Resolve
    BY <1>2, ResolveKeeps
  <1>3. CASE Request
    BY <1>3, RequestKeeps
  <1>4. CASE Again
    BY <1>4, AgainKeeps
  <1>5. CASE WaitOver
    BY <1>5, WaitOverKeeps
  <1>6. CASE Cancel
    BY <1>6, ReturnKeeps DEF Cancel, Results
  <1>7. CASE World
    BY <1>7, WorldKeeps
  <1>8. CASE UNCHANGED sinkVars
    <2>1. CacheTypeOK' /\ FallbackIsShort'
      BY <1>8, CacheUntouched DEF sinkVars
    <2> QED
      BY <1>8, <2>1 DEF sinkVars, sendVars, SinkInv, SinkTypeOK, AskedIsCapped, WaitIsSane
  <1> QED
    BY <1>1, <1>2, <1>3, <1>4, <1>5, <1>6, <1>7, <1>8 DEF SinkNext, SendStep

-----------------------------------------------------------------------------
(* Whatever a remote answers and however long the worker retries, the wait *)
(* between two attempts of HTTP.Send is positive and at most the           *)
(* configured delay with its jitter or the cap on Retry-After.             *)
THEOREM WaitIsSaneAlways == SinkSpec => []WaitIsSane
  <1>1. SinkInv => WaitIsSane
    BY DEF SinkInv
  <1> QED
    BY <1>1, SinkInitially, SinkKeeps, PTL DEF SinkSpec

(* However a server moves, its .well-known fails and the sweeps fall, a    *)
(* cached fallback is gone an hour (and the jitter) after a resolution     *)
(* would find the delegation.                                              *)
THEOREM FallbackForgottenAlways == SinkSpec => []FallbackForgotten
  <1>1. SinkInv => FallbackForgotten
    <2> SUFFICES ASSUME SinkInv, Cached, entry.at = "bare", home = "delegated", wellKnown
                 PROVE  now - settled <= LongestOf(NoDelegationTTL)
      BY DEF FallbackForgotten
    <2> DEFINE longest == LongestOf(NoDelegationTTL)
    <2>1. longest \in Nat
      BY LongestIsNat
    <2>2. entry.expires <= settled + longest
      BY DEF SinkInv, FallbackIsShort
    <2> HIDE DEF longest
    <2>3. now \in Nat /\ settled \in Nat /\ entry.expires \in Nat /\ now < entry.expires
      BY DEF SinkInv, SinkTypeOK, CacheTypeOK, Cached
    <2>4. now - settled <= longest
      BY <2>1, <2>2, <2>3
    <2> QED
      BY <2>4 DEF longest
  <1> QED
    BY <1>1, SinkInitially, SinkKeeps, PTL DEF SinkSpec
=============================================================================
