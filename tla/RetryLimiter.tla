---------------------------- MODULE RetryLimiter ----------------------------
(***************************************************************************)
(* retry.Limiter for one destination of a primary, with the clock, the     *)
(* two rows its timings are persisted to, and restarts.                    *)
(*                                                                         *)
(* Two goroutines dial.  The transmission loop asks Due and sends while it *)
(* holds the destination's claim; catch-up asks without the claim, reads a *)
(* page of what is owed and claims for each send, so that the loop may     *)
(* fail between catch-up's question and its next send.  The claim is kept  *)
(* until the outcome is persisted (Destination.tla): one attempt and one   *)
(* REMOTE_SERVER_UP handler can be in progress at a time.  The limiter's   *)
(* state changes under its lock; the rows are written after the lock is    *)
(* given back, ours first, Synapse's second.                               *)
(***************************************************************************)
EXTENDS Naturals

CONSTANTS
  MinInterval, MaxInterval,     \* retry.Config
  Hour,                         \* CatchUpRetryInterval, refusedMaxInterval
  BaseCooldown, MaxCooldown,    \* rateLimitBaseCooldown, rateLimitMaxCooldown
  Hints,                        \* Retry-After values a 429 may carry; 0: none
  WritesFail,                   \* may a write of a row fail?
  MaxClock, MaxServerUps, MaxRestarts   \* bounds

ASSUME RetryLimiterAssumption ==
  /\ MinInterval \in Nat \ {0} /\ MaxInterval \in Nat /\ MinInterval <= MaxInterval
  /\ Hour \in Nat \ {0} /\ MinInterval <= Hour
  /\ BaseCooldown \in Nat \ {0} /\ MaxCooldown \in Nat /\ BaseCooldown <= MaxCooldown
  /\ Hints \subseteq Nat /\ WritesFail \in BOOLEAN
  /\ MaxClock \in Nat \ {0} /\ MaxServerUps \in Nat /\ MaxRestarts \in Nat

VARIABLES
  now,
  state, loaded, refused,   \* the limiter's maps, at this destination
  cooldown, cooldownFor,    \* until when; how long. Zero: no entry
  readable,                 \* whether the read that seeds the state succeeds
  mine, synapse,            \* our row and Synapse's row of the destination
  attempt,                  \* who dials: "none", "loop" or "catchUp"
  sweep,                    \* catch-up's latest answer from Due
  writer,                   \* the persist calls in progress
  heard,                    \* history: this process's backoff was cleared or cut
  outage,                   \* history: the failed attempts since the last success
  intact,                   \* history: nothing the limiter was told was lost
  used                      \* how much of the bounds is used up

limiter == <<state, loaded, refused, cooldown, cooldownFor>>
history == <<heard, outage, intact>>
vars == <<now, limiter, readable, mine, synapse, attempt, sweep, writer, history, used>>

Timings == [failure : 0..MaxClock, last : 0..MaxClock, interval : 0..MaxInterval]

Zero == [failure |-> 0, last |-> 0, interval |-> 0]

(* A row, and no row.                                                      *)
NoRow == [failure |-> 0, last |-> 0, interval |-> 0, exists |-> FALSE]
RowOf(t) == [failure |-> t.failure, last |-> t.last, interval |-> t.interval,
             exists |-> TRUE]
TimingsOf(row) == [failure |-> row.failure, last |-> row.last, interval |-> row.interval]

Callers == {"attempt", "serverUp"}
Idle == [step |-> "idle", timings |-> Zero]
Persist(t) == [step |-> "mine", timings |-> t]

(* Timings.Due and Limiter.offCooldown.                                    *)
TimingsDue(t, at) == t.last = 0 \/ t.last + t.interval <= at
OffCooldown == cooldown <= now

(* The first and the last failed attempt of an outage, and none.           *)
Outages == [first : 0..MaxClock, last : 0..MaxClock]
NoOutage == [first |-> 0, last |-> 0]

(* Timings that say of an outage when it began and when it was last seen.  *)
Matches(t, o) == t.failure = o.first /\ t.last = o.last

(* What happened, kept for as long as nothing was lost.                    *)
Remember(o, kept) == intact' = kept /\ outage' = IF kept THEN o ELSE NoOutage

(* Fault: our own row is not consulted.                                    *)
LoadSynapseOnly == TimingsOf(synapse)

(* loadTimings: our row wins where it exists, Synapse's is the fallback.   *)
LoadTimings == IF mine.exists THEN TimingsOf(mine) ELSE TimingsOf(synapse)

(* What a process that has not read the rows yet would act on.             *)
Effective == IF loaded THEN state ELSE IF readable THEN LoadTimings ELSE Zero

LimiterTypeOK ==
  /\ now \in 1..MaxClock
  /\ state \in Timings /\ loaded \in BOOLEAN /\ refused \in BOOLEAN
  /\ cooldown \in 0..(MaxClock + MaxCooldown) /\ cooldownFor \in 0..MaxCooldown
  /\ readable \in BOOLEAN
  /\ \A row \in {mine, synapse} : TimingsOf(row) \in Timings /\ row.exists \in BOOLEAN
  /\ attempt \in {"none", "loop", "catchUp"}
  /\ sweep \in {"none", "allowed", "overtaken"}
  /\ writer \in [Callers -> [step : {"idle", "mine", "synapse"}, timings : Timings]]
  /\ heard \in BOOLEAN /\ outage \in Outages /\ intact \in BOOLEAN
  /\ used \in [serverUps : 0..MaxServerUps, restarts : 0..MaxRestarts]

(* A primary that takes over from a Python sender has no row of its own;   *)
(* Synapse's may record an outage.                                         *)
Init ==
  /\ now = 1
  /\ state = Zero /\ loaded = FALSE /\ refused = FALSE
  /\ cooldown = 0 /\ cooldownFor = 0
  /\ readable \in BOOLEAN
  /\ mine = NoRow
  /\ synapse \in {NoRow} \cup {RowOf([failure |-> 1, last |-> 1, interval |-> i]) :
                                 i \in {MinInterval, MaxInterval}}
  /\ attempt = "none" /\ sweep = "none"
  /\ writer = [c \in Callers |-> Idle]
  /\ heard = FALSE
  /\ intact = readable
  /\ outage = IF intact THEN [first |-> synapse.failure, last |-> synapse.last] ELSE NoOutage
  /\ used = [serverUps |-> 0, restarts |-> 0]

(* seed: the first question about a destination reads the rows, once.      *)
Seed ==
  /\ ~loaded
  /\ state' = IF readable THEN LoadTimings ELSE Zero
  /\ loaded' = TRUE
  /\ UNCHANGED <<now, refused, cooldown, cooldownFor, readable, mine, synapse,
                 attempt, sweep, writer, history, used>>

DueNow == TimingsDue(state, now) /\ OffCooldown

(* Nobody holds the destination's claim.                                   *)
Unclaimed == attempt = "none" /\ writer["attempt"].step = "idle"

(* Run: the gate is asked and the transaction sent under one claim.        *)
StartAttempt ==
  /\ Unclaimed
  /\ loaded /\ DueNow
  /\ attempt' = "loop"
  /\ UNCHANGED <<now, limiter, readable, mine, synapse, sweep, writer, history, used>>

(* The sweep, CatchUp.Destination and each of its pages ask, and hold no   *)
(* claim.  A no ends the catch-up.                                         *)
SweepAsks ==
  /\ loaded /\ attempt # "catchUp"
  /\ sweep' = IF DueNow THEN "allowed" ELSE "none"
  /\ UNCHANGED <<now, limiter, readable, mine, synapse, attempt, writer, history, used>>

(* SendCatchUp claims and does not ask, at any time after the answer and   *)
(* for any event of the page.                                              *)
CatchUpDials ==
  /\ Unclaimed
  /\ sweep # "none"
  /\ attempt' = "catchUp"
  /\ UNCHANGED <<now, limiter, readable, mine, synapse, sweep, writer, history, used>>

(* A catch-up ends with its first failed send.  One that has asked before  *)
(* the loop's failure goes on, now overtaken by it.                        *)
SweepAfter(failure) ==
  IF attempt = "catchUp" THEN "none"
  ELSE IF failure /\ sweep = "allowed" THEN "overtaken" ELSE sweep

(* Success: cleared outright; only a real transition is persisted.         *)
AttemptSucceeds ==
  /\ attempt # "none"
  /\ attempt' = "none"
  /\ state' = Zero /\ refused' = FALSE
  /\ cooldown' = 0 /\ cooldownFor' = 0
  /\ writer' = IF state.interval = 0 /\ state.last = 0 THEN writer
               ELSE [writer EXCEPT !["attempt"] = Persist(Zero)]
  /\ heard' = TRUE /\ outage' = NoOutage
  /\ UNCHANGED <<now, loaded, readable, mine, synapse, sweep, intact, used>>

LowerOf(a, b) == IF a < b THEN a ELSE b

(* Fault: the growth is not capped.                                        *)
GrownUncapped(interval) ==
  IF interval = 0 THEN {MinInterval}
  ELSE ((interval * 16) \div 10)..((interval * 28) \div 10)

(* fail's growth: a multiplier of two and a jitter between 0.8 and 1.4,    *)
(* truncated to whole units and capped.                                    *)
GrownInterval(interval) ==
  IF interval = 0 THEN {MinInterval}
  ELSE {LowerOf(g, MaxInterval) : g \in ((interval * 16) \div 10)..((interval * 28) \div 10)}

(* Fault: the run of failures starts anew with each.                       *)
FailingAnew == now

(* When the run of failures began.                                         *)
FailingSince == IF state.failure = 0 THEN now ELSE state.failure

(* Failure and Refused.                                                    *)
AttemptFails(answered) ==
  /\ attempt # "none"
  /\ attempt' = "none" /\ sweep' = SweepAfter(TRUE)
  /\ refused' = answered
  /\ \E i \in GrownInterval(state.interval) :
       state' = [failure |-> FailingSince,
                 last |-> now, interval |-> i]
  /\ writer' = [writer EXCEPT !["attempt"] = Persist(state')]
  /\ Remember([first |-> IF outage.first = 0 THEN now ELSE outage.first, last |-> now], intact)
  /\ UNCHANGED <<now, loaded, cooldown, cooldownFor, readable, mine, synapse, heard, used>>

(* RateLimited: the remote's hint, or twice the last cooldown, capped.     *)
AttemptLimited(hint) ==
  LET wanted == IF hint > 0 THEN hint
                ELSE IF cooldownFor > 0 THEN cooldownFor * 2 ELSE BaseCooldown
      wait == LowerOf(wanted, MaxCooldown)
  IN  /\ attempt # "none"
      /\ attempt' = "none" /\ sweep' = SweepAfter(FALSE)
      /\ cooldownFor' = wait
      /\ cooldown' = now + wait
      /\ UNCHANGED <<now, state, loaded, refused, readable, mine, synapse,
                     writer, history, used>>

(* Fault: a host that answers with errors is forgiven like a silent one.   *)
NeverRefusing == FALSE

(* The latest failure was an answer: the server is up and refuses us.      *)
Refusing == refused

(* Recovered, for REMOTE_SERVER_UP.  Synapse broadcasts the command when   *)
(* it has reset its own row for a server that contacted it.  Before the    *)
(* rows are read the command is lost.                                      *)
ServerUp ==
  /\ used.serverUps < MaxServerUps /\ writer["serverUp"].step = "idle"
  /\ used' = [used EXCEPT !.serverUps = @ + 1]
  /\ synapse' = RowOf(Zero)
  /\ \/ /\ state.interval = 0 /\ state.last = 0
        /\ Remember(outage, intact /\ loaded)
        /\ UNCHANGED <<state, loaded, writer, heard>>
     \/ /\ ~(state.interval = 0 /\ state.last = 0)
        /\ Refusing
        /\ state' = [state EXCEPT !.interval = LowerOf(@, Hour)]
        /\ writer' = IF state.interval > Hour
                     THEN [writer EXCEPT !["serverUp"] = Persist(state')] ELSE writer
        /\ heard' = TRUE /\ Remember(outage, intact)
        /\ UNCHANGED loaded
     \/ /\ ~(state.interval = 0 /\ state.last = 0)
        /\ ~Refusing
        /\ state' = Zero /\ loaded' = TRUE
        /\ writer' = [writer EXCEPT !["serverUp"] = Persist(Zero)]
        /\ heard' = TRUE /\ Remember(NoOutage, intact)
  /\ UNCHANGED <<now, refused, cooldown, cooldownFor, readable, mine, attempt, sweep>>

(* persistTimings.  Our row takes whatever is written ...                  *)
WriteMine(c) ==
  /\ writer[c].step = "mine"
  /\ mine' \in {RowOf(writer[c].timings)} \cup (IF WritesFail THEN {mine} ELSE {})
  /\ writer' = [writer EXCEPT ![c].step = "synapse"]
  /\ Remember(outage, intact /\ mine'.exists /\ Matches(mine', outage))
  /\ UNCHANGED <<now, limiter, readable, synapse, attempt, sweep, heard, used>>

(* ... Synapse's only a reset, a longer backoff or a later attempt.        *)
SynapseAccepts(t) ==
  \/ t.interval = 0 \/ t.last = 0
  \/ ~synapse.exists
  \/ synapse.interval < t.interval
  \/ synapse.last < t.last

WriteSynapse(c) ==
  /\ writer[c].step = "synapse"
  /\ synapse' \in {IF SynapseAccepts(writer[c].timings)
                   THEN RowOf(writer[c].timings) ELSE synapse}
                  \cup (IF WritesFail THEN {synapse} ELSE {})
  /\ writer' = [writer EXCEPT ![c] = Idle]
  /\ UNCHANGED <<now, limiter, readable, mine, attempt, sweep, history, used>>

Tick ==
  /\ now < MaxClock
  /\ now' = now + 1
  /\ UNCHANGED <<limiter, readable, mine, synapse, attempt, sweep, writer, history, used>>

(* The process dies at any point and starts again: the rows survive.       *)
Restart ==
  /\ used.restarts < MaxRestarts
  /\ used' = [used EXCEPT !.restarts = @ + 1]
  /\ state' = Zero /\ loaded' = FALSE /\ refused' = FALSE
  /\ cooldown' = 0 /\ cooldownFor' = 0
  /\ readable' \in BOOLEAN
  /\ attempt' = "none" /\ sweep' = "none" /\ writer' = [c \in Callers |-> Idle]
  /\ heard' = FALSE
  /\ Remember(outage, intact /\ readable' /\ \A c \in Callers : writer[c].step # "mine")
  /\ UNCHANGED <<now, mine, synapse>>

Next ==
  \/ Seed \/ StartAttempt \/ SweepAsks \/ CatchUpDials \/ AttemptSucceeds
  \/ \E answered \in BOOLEAN : AttemptFails(answered)
  \/ \E hint \in Hints : AttemptLimited(hint)
  \/ ServerUp
  \/ \E c \in Callers : WriteMine(c) \/ WriteSynapse(c)
  \/ Tick \/ Restart

Spec == Init /\ [][Next]_vars

-----------------------------------------------------------------------------
(* What the rest of the worker can tell about this destination.            *)
Seen == [interval |-> IF Effective.interval = 0 THEN "none"
                      ELSE IF Effective.interval <= Hour THEN "short" ELSE "long",
         waiting |-> ~TimingsDue(Effective, now),
         refused |-> refused,
         cooling |-> ~OffCooldown]

Abstract == INSTANCE Backoff WITH backoff <- Seen

(* The clocked limiter is the clockless one: the same gate, no backoff     *)
(* that grows without a failure or clears without a success or a           *)
(* REMOTE_SERVER_UP, and a 429 that touches nothing but the cooldown; a    *)
(* restart changes nothing but what it reads back.                         *)
ImplementsBackoff ==
  /\ Abstract!InitBackoff
  /\ [][IF used'.restarts = used.restarts THEN Abstract!NextBackoff
                                          ELSE Abstract!Reload]_Seen

(* A restarted process does not dial a server its own row still rules out: *)
(* the stampede the persisted backoff exists to prevent.  Whatever writes  *)
(* failed and wherever a crash fell between the lock and the write, a dial *)
(* against a readable row has one of two reasons: the process has since    *)
(* heard from the server, and cleared or cut its backoff; or catch-up      *)
(* asked first and the loop has failed meanwhile.                          *)
RestartRemembersBackoff ==
  [][(StartAttempt \/ (CatchUpDials /\ sweep = "allowed")) /\ readable /\ ~heard
       => TimingsDue(TimingsOf(mine), now)]_vars

(* "How long has this been broken" is answerable: the timings name the     *)
(* first and the last failed attempt since a success or REMOTE_SERVER_UP   *)
(* cleared the backoff.  Retries, refusals, 429s, the cut to an hour,      *)
(* restarts and both rows keep them, as long as what the limiter was told  *)
(* was not lost: a row that could not be read, a write of ours that failed *)
(* or was overtaken or cut off by a crash, a command before the first read.*)
OutageRemembered ==
  loaded /\ intact => Matches(state, outage)

(* What catch-up's comment takes for granted: no catch-up "dialled a       *)
(* destination the backoff had ruled out".                                 *)
CatchUpHeedsBackoff == [][CatchUpDials => TimingsDue(state, now)]_vars
=============================================================================
