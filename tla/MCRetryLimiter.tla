--------------------------- MODULE MCRetryLimiter ---------------------------
(* RetryLimiter.tla on a short clock: an hour is two units, the longest    *)
(* backoff three, so that one failure is a blip and two are an outage.     *)
EXTENDS RetryLimiter
=============================================================================
