---------------------------- MODULE ResolveCache ----------------------------
(***************************************************************************)
(* sink.resolveCache for one remote server: how long a resolution is       *)
(* trusted, by how it was reached.  The server lives where its .well-known *)
(* delegates to, or at its own name; while the .well-known is down, its    *)
(* own name is what a resolution finds.                                    *)
(***************************************************************************)
EXTENDS Naturals

CONSTANTS
  DelegatedTTL, NoDelegationTTL, DownTTL, RememberDelegation,
  MinTTL, MaxTTL, SweepEvery,   \* the constants of resolvecache.go
  Headers,                      \* cache periods a .well-known may give; 0: none
  MaxClock                      \* bound

ASSUME ResolveCacheAssumption ==
  /\ \A t \in {DelegatedTTL, NoDelegationTTL, DownTTL, RememberDelegation} : t \in Nat \ {0}
  /\ MinTTL \in Nat /\ MaxTTL \in Nat /\ MinTTL <= MaxTTL /\ SweepEvery \in Nat
  /\ DownTTL <= NoDelegationTTL /\ NoDelegationTTL <= DelegatedTTL
  /\ Headers \subseteq Nat /\ MaxClock \in Nat \ {0}

VARIABLES
  now,
  entry,            \* entries: where, and until when
  delegatedUntil,   \* 0: no memory of a delegation
  lastSweep,        \* 0: never
  home,             \* where the server lives: "delegated" or "bare"
  wellKnown,        \* its .well-known answers
  settled           \* history: since when a resolution would find its home

worldVars == <<home, wellKnown, settled>>
cacheVars == <<entry, delegatedUntil, lastSweep>>

NoEntry == [at |-> "none", expires |-> 0]

CacheTypeOK ==
  /\ now \in 1..MaxClock
  /\ entry.at \in {"none", "delegated", "bare"}
  /\ entry.expires \in Nat
  /\ delegatedUntil \in 0..(MaxClock + RememberDelegation) /\ lastSweep \in 0..MaxClock
  /\ home \in {"delegated", "bare"} /\ wellKnown \in BOOLEAN /\ settled \in 0..MaxClock

CacheInit ==
  /\ now = 1
  /\ entry = NoEntry /\ delegatedUntil = 0 /\ lastSweep = 0
  /\ home \in {"delegated", "bare"} /\ wellKnown \in BOOLEAN /\ settled = 1

-----------------------------------------------------------------------------
(* The world.                                                              *)

Tick ==
  /\ now < MaxClock
  /\ now' = now + 1
  /\ UNCHANGED <<cacheVars, worldVars>>

WellKnownChanges ==
  /\ wellKnown' = ~wellKnown /\ settled' = now
  /\ UNCHANGED <<now, cacheVars, home>>

ServerMoves ==
  /\ home' = IF home = "bare" THEN "delegated" ELSE "bare"
  /\ settled' = now
  /\ UNCHANGED <<now, cacheVars, wellKnown>>

(* What a resolution finds: the library asks .well-known, then SRV, then   *)
(* the name itself.                                                        *)
Found == IF wellKnown THEN home ELSE "bare"

-----------------------------------------------------------------------------
Lower(a, b) == IF a < b THEN a ELSE b
Higher(a, b) == IF a < b THEN b ELSE a

(* A tenth more or less, in whole units.                                   *)
Jittered(ttl) == ((9 * ttl) \div 10)..((11 * ttl + 9) \div 10)

(* LoadResolution: an expired entry is dropped.                            *)
Cached == entry.at # "none" /\ entry.expires > now

(* Fault: every resolution is kept for a day, however it was reached.      *)
KeepsForADay == DelegatedTTL

(* How long a resolution without a delegation is trusted: briefly, if the  *)
(* server is remembered to delegate.                                       *)
FallbackPeriod == IF delegatedUntil > now THEN DownTTL ELSE NoDelegationTTL

(* The period, from the one the response gave (0: none or over).           *)
Period(at, header) ==
  IF at = "delegated"
  THEN Lower(Higher(IF header = 0 THEN DelegatedTTL ELSE header, MinTTL), MaxTTL)
  ELSE IF header = 0 THEN FallbackPeriod ELSE Lower(header, FallbackPeriod)

(* StoreResolution, and the sweep of what has expired.                     *)
StoreResolution(at, header) ==
  LET remembered == IF at = "delegated" THEN now + RememberDelegation ELSE delegatedUntil
      sweeps == lastSweep = 0 \/ now - lastSweep >= SweepEvery
  IN  \E ttl \in Jittered(Period(at, header)) :
        /\ entry' = IF sweeps /\ ttl = 0 THEN NoEntry
                    ELSE [at |-> at, expires |-> now + ttl]
        /\ delegatedUntil' = IF sweeps /\ remembered <= now THEN 0 ELSE remembered
        /\ lastSweep' = IF sweeps THEN now ELSE lastSweep

-----------------------------------------------------------------------------
(* Properties.                                                             *)

LongestOf(ttl) == (11 * ttl + 9) \div 10

(* A server is not written to at a place it does not live at for longer    *)
(* than an hour after its .well-known is back: the "day of failed          *)
(* deliveries to a server that was only briefly misconfigured".            *)
FallbackForgotten ==
  Cached /\ entry.at = "bare" /\ home = "delegated" /\ wellKnown
    => now - settled <= LongestOf(NoDelegationTTL)

(* "Synapse re-checks such a server in two minutes": a fallback for a      *)
(* server that delegated when it was last resolved is not trusted longer.  *)
DownIsRecheckedSoon ==
  [][entry'.at = "bare" /\ entry.at = "delegated"
       => entry'.expires - now <= LongestOf(DownTTL)]_<<entry, now>>
=============================================================================
