\* One server that moves and whose .well-known fails, one that is dry-run.
SPECIFICATION SinkFair
CONSTANTS
  DelegatedTTL = 5
  NoDelegationTTL = 3
  DownTTL = 1
  RememberDelegation = 3
  MinTTL = 2
  MaxTTL = 6
  SweepEvery = 2
  Headers = {0, 1, 9}
  MaxClock = 6
  Destinations = {live, shadowed}
  Allowed = {live}
  AllowAll = FALSE
  Retries = 3
  MaxDelay = 20
  Second = 3
  DurationLimit = 128
  MaxBackoffAttempt = 2
  MaxRateLimitedAttempts = 2
  RetryAfterCap = 25
  RetryAfters = {0, 2, 60}
CHECK_DEADLOCK FALSE
INVARIANT WaitIsSane
INVARIANT FallbackForgotten
PROPERTY SendReturns
