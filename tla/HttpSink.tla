------------------------------ MODULE HttpSink ------------------------------
(***************************************************************************)
(* sink.Router and sink.HTTP.Send: one transaction, tried several times.   *)
(* Every attempt resolves the server's name through the cache.  What is    *)
(* returned is one of Destination's outcomes.                              *)
(*                                                                         *)
(* Durations are integers that wrap at DurationLimit, as time.Duration     *)
(* does at 2^63 nanoseconds.                                               *)
(***************************************************************************)
EXTENDS Integers, ResolveCache

CONSTANTS
  Destinations, Allowed,      \* RouterConfig
  AllowAll,
  Retries, MaxDelay,          \* HTTPConfig, after NewHTTP's defaults
  Second,                     \* a second, as a duration
  DurationLimit,              \* the first value a duration cannot hold
  MaxBackoffAttempt, MaxRateLimitedAttempts, RetryAfterCap,
  RetryAfters                 \* seconds a 429 may ask for; 0: none

(* Every shift that is computed fits a duration.                           *)
ASSUME HttpSinkAssumption ==
  /\ Allowed \subseteq Destinations /\ AllowAll \in BOOLEAN
  /\ Retries \in Nat \ {0} /\ MaxRateLimitedAttempts \in Nat \ {0}
  /\ Second \in Nat \ {0} /\ MaxBackoffAttempt \in Nat /\ RetryAfters \subseteq Nat
  /\ DurationLimit \in Nat
  /\ MaxDelay \in Nat /\ 10 <= 8 * MaxDelay /\ 14 * MaxDelay < 10 * DurationLimit
  /\ RetryAfterCap \in Nat \ {0} /\ RetryAfterCap < DurationLimit
  /\ \A n \in 1..MaxBackoffAttempt : Second * 4 ^ n \in 2..(DurationLimit - 1)

VARIABLES
  at,           \* "idle", "resolve", "request", "failed" or "wait"
  attempt,
  limitedSeen,  \* rateLimitedAttempts
  last,         \* lastErr
  after,        \* the wait a rateLimited error carries
  delay,
  target,       \* where the request goes
  result        \* what the last Send returned

sendVars == <<at, attempt, limitedSeen, last, after, delay, target, result>>
sinkVars == <<now, cacheVars, worldVars, sendVars>>

Errors == {"none", "unreachable", "limited", "refused"}
Results == {"none", "delivered", "unreachable", "limited", "refused", "cancelled"}

SinkTypeOK ==
  /\ CacheTypeOK
  /\ at \in {"idle", "resolve", "request", "failed", "wait"}
  /\ attempt \in 0..Retries /\ limitedSeen \in 0..MaxRateLimitedAttempts
  /\ last \in Errors /\ result \in Results
  /\ after \in Int /\ delay \in Int
  /\ target \in {"none", "delegated", "bare"}

SinkInit ==
  /\ CacheInit
  /\ at = "idle" /\ attempt = 0 /\ limitedSeen = 0 /\ last = "none"
  /\ after = 0 /\ delay = 0 /\ target = "none" /\ result = "none"

-----------------------------------------------------------------------------
(* Durations.                                                              *)

Wrap(d) == ((d + DurationLimit) % (2 * DurationLimit)) - DurationLimit

(* Fault: the shift is computed for every attempt.                         *)
ShiftAlways(n) == Lower(Wrap(Second * 4 ^ n), MaxDelay)

(* 4^attempt seconds while that fits a duration, at most MaxDelay.         *)
BaseDelay(n) ==
  IF n <= MaxBackoffAttempt THEN Lower(Wrap(Second * 4 ^ n), MaxDelay) ELSE MaxDelay

(* backoff: between 0.8 and 1.4 of it.                                     *)
Backoff(n) == {(BaseDelay(n) * f) \div 10 : f \in {8, 10, 14}}

(* retryAfter: seconds into a duration, capped.                            *)
RetryAfter(secs) == Lower(Wrap(secs * Second), RetryAfterCap)

-----------------------------------------------------------------------------
Sends(d) == AllowAll \/ d \in Allowed

(* DryRun reports every transaction delivered.                             *)
DryRunSend == result' = "delivered" /\ UNCHANGED at

(* Router.Send.                                                            *)
StartSend(d) ==
  /\ at = "idle"
  /\ \/ /\ Sends(d)
        /\ at' = "resolve" /\ result' = "none"
     \/ ~Sends(d) /\ DryRunSend
  /\ UNCHANGED <<now, cacheVars, worldVars, attempt, limitedSeen, last, after, delay, target>>

Return(r) ==
  /\ at' = "idle" /\ result' = r
  /\ attempt' = 0 /\ limitedSeen' = 0 /\ last' = "none" /\ after' = 0 /\ delay' = 0
  /\ target' = "none"

FailsWith(e) == at' = "failed" /\ last' = e

(* The transport resolves the name, from the cache or anew.                *)
Resolve ==
  /\ at = "resolve"
  /\ \/ /\ Cached
        /\ at' = "request" /\ target' = entry.at
        /\ UNCHANGED <<cacheVars, last>>
     \/ /\ ~Cached
        /\ at' = "request" /\ target' = Found
        /\ \E header \in Headers : StoreResolution(Found, header)
        /\ UNCHANGED last
     \/ /\ ~Cached /\ FailsWith("unreachable")
        /\ entry' = NoEntry
        /\ UNCHANGED <<delegatedUntil, lastSweep, target>>
  /\ UNCHANGED <<now, worldVars, attempt, limitedSeen, after, delay, result>>

(* attempt: what can be tried again is a connection that fails, an answer  *)
(* that does not arrive, a 5xx and a 429.                                  *)
Request ==
  /\ at = "request"
  /\ \/ target = home /\ Return("delivered")
     \/ Return("refused")                       \* 4xx: a decision
     \/ /\ \E e \in {"unreachable", "refused"} : FailsWith(e)
        /\ after' = 0 /\ target' = "none"
        /\ UNCHANGED <<attempt, limitedSeen, delay, result>>
     \/ /\ FailsWith("limited")
        /\ \E secs \in RetryAfters : after' = RetryAfter(secs)
        /\ target' = "none"
        /\ UNCHANGED <<attempt, limitedSeen, delay, result>>
  /\ UNCHANGED <<now, cacheVars, worldVars>>

(* Fault: the counter itself is kept within what the shift can take.       *)
NextWithinShift == Lower(attempt + 1, MaxBackoffAttempt)

NextAttempt == attempt + 1

(* The next round of Send's loop: rateLimitDelay and the wait, or the end. *)
Again ==
  LET seen == IF last = "limited" THEN limitedSeen + 1 ELSE limitedSeen
  IN  /\ at = "failed"
      /\ \/ NextAttempt > Retries /\ Return(last)
         \/ /\ NextAttempt <= Retries /\ last = "limited" /\ seen >= MaxRateLimitedAttempts
            /\ Return("limited")
         \/ /\ NextAttempt <= Retries /\ ~(last = "limited" /\ seen >= MaxRateLimitedAttempts)
            /\ at' = "wait" /\ attempt' = NextAttempt /\ limitedSeen' = seen
            /\ delay' \in IF last = "limited" /\ after > 0 THEN {after} ELSE Backoff(NextAttempt)
            /\ UNCHANGED <<last, after, target, result>>
      /\ UNCHANGED <<now, cacheVars, worldVars>>

(* lastErr is set anew by the next attempt before it is read.              *)
WaitOver ==
  /\ at = "wait"
  /\ at' = "resolve" /\ delay' = 0 /\ last' = "none" /\ after' = 0
  /\ UNCHANGED <<now, cacheVars, worldVars, attempt, limitedSeen, target, result>>

(* The worker shuts down: a wait or a request ends with the context.       *)
Cancel ==
  /\ at \in {"wait", "request"}
  /\ Return("cancelled")
  /\ UNCHANGED <<now, cacheVars, worldVars>>

World == (Tick \/ WellKnownChanges \/ ServerMoves) /\ UNCHANGED sendVars

SendStep == Resolve \/ Request \/ Again \/ WaitOver

SinkNext == (\E d \in Destinations : StartSend(d)) \/ SendStep \/ Cancel \/ World

SinkSpec == SinkInit /\ [][SinkNext]_sinkVars

(* Every attempt has a timeout and every wait ends.                        *)
SinkFair == SinkSpec /\ WF_sinkVars(SendStep)

-----------------------------------------------------------------------------
(* Properties.                                                             *)

(* Between two attempts the sender waits: never not at all or for a        *)
(* negative time, which would be "a hot loop against a remote that is      *)
(* already failing", and never longer than the configured delay with its   *)
(* jitter or the cap on what a remote may ask for.                         *)
WaitIsSane ==
  at = "wait" => 0 < delay /\ delay <= Higher((14 * MaxDelay) \div 10, RetryAfterCap)

(* Whatever a remote answers, and however often it refuses, Send returns:  *)
(* the claim on the destination is not held for good.                      *)
SendReturns == at = "resolve" ~> at = "idle"
=============================================================================
