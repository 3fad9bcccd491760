------------------------------ MODULE Backoff ------------------------------
(***************************************************************************)
(* What retry.Limiter promises the rest of the worker about ONE            *)
(* destination, without clocks: the gate the transmission loop, the        *)
(* catch-up sweep and the EDU producers ask before they dial.              *)
(*                                                                         *)
(*   interval   "none": no backoff recorded; "short": at most the hour of  *)
(*              CatchUpRetryInterval; "long": more than that hour          *)
(*   waiting    the recorded interval has not run out yet                  *)
(*   refused    the latest failure was an HTTP answer, not silence         *)
(*   cooling    a 429 cooldown is running                                  *)
(*                                                                         *)
(* Time is nondeterministic: an interval or a cooldown may run out at any  *)
(* later step.  RetryLimiter.tla keeps the clock and implements this.      *)
(***************************************************************************)
VARIABLE backoff

Intervals == {"none", "short", "long"}

BackoffType == [interval : Intervals, waiting : BOOLEAN,
                refused : BOOLEAN, cooling : BOOLEAN]

Clear == [interval |-> "none", waiting |-> FALSE,
          refused |-> FALSE, cooling |-> FALSE]

(* A process starts with what the tables recorded, and with no cooldown    *)
(* and no memory of refusals: neither is persisted.                        *)
Recorded == [interval : {"none"}, waiting : {FALSE},
             refused : {FALSE}, cooling : {FALSE}]
              \cup [interval : {"short", "long"}, waiting : BOOLEAN,
                    refused : {FALSE}, cooling : {FALSE}]

InitBackoff == backoff \in Recorded

(* Limiter.Due: the interval has run out AND no cooldown is running.       *)
Due == ~backoff.waiting /\ ~backoff.cooling

(* The LongBackoff hook: it looks at the recorded interval only, so it     *)
(* still answers yes once that interval has run out.                       *)
LongBackoff == backoff.interval = "long"

(* Growth multiplies by at least 1.6 and is capped: it never gives back a  *)
(* long outage.                                                            *)
Grown(interval) == IF interval = "long" THEN {"long"} ELSE {"short", "long"}

Success == backoff' = Clear

Fail(answered) ==
  \E next \in Grown(backoff.interval) :
    backoff' = [interval |-> next, waiting |-> TRUE,
                refused |-> answered, cooling |-> backoff.cooling]

(* A 429 starts or extends the cooldown and leaves the backoff alone.      *)
RateLimited == backoff' = [backoff EXCEPT !.cooling = TRUE]

(* REMOTE_SERVER_UP.  Nothing recorded: nothing to do.  A host that        *)
(* answered keeps its backoff, capped at an hour, which may end the wait.  *)
(* A host that could not be reached loses it.  The cooldown stays.         *)
Recovered ==
  \/ backoff.interval = "none" /\ UNCHANGED backoff
  \/ /\ backoff.interval # "none"
     /\ backoff.refused
     /\ \E w \in IF backoff.interval = "long" THEN {backoff.waiting, FALSE}
                                              ELSE {backoff.waiting} :
          backoff' = [interval |-> "short", waiting |-> w,
                      refused |-> TRUE, cooling |-> backoff.cooling]
  \/ /\ backoff.interval # "none"
     /\ ~backoff.refused
     /\ backoff' = [interval |-> "none", waiting |-> FALSE,
                    refused |-> FALSE, cooling |-> backoff.cooling]

(* Time passes: both may run out in the same instant.                      *)
WaitRunsOut ==
  /\ backoff.waiting
  /\ \E c \in {backoff.cooling, FALSE} :
       backoff' = [backoff EXCEPT !.waiting = FALSE, !.cooling = c]

CooldownRunsOut == backoff.cooling /\ backoff' = [backoff EXCEPT !.cooling = FALSE]

(* A restart reads the tables again; a write that failed or was still to   *)
(* come, and a read that fails, make that anything that may be recorded.   *)
Reload == backoff' \in Recorded

NextBackoff == \/ Success
               \/ \E answered \in BOOLEAN : Fail(answered)
               \/ RateLimited
               \/ Recovered
               \/ WaitRunsOut
               \/ CooldownRunsOut
=============================================================================
