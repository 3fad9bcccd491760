\* The limiter against its clockless contract, restarts included.
SPECIFICATION Spec
CONSTANTS
  MinInterval = 2
  MaxInterval = 3
  Hour = 2
  BaseCooldown = 1
  MaxCooldown = 2
  Hints = {0, 9}
  WritesFail = TRUE
  MaxClock = 5
  MaxServerUps = 1
  MaxRestarts = 1
CHECK_DEADLOCK FALSE
INVARIANT LimiterTypeOK
INVARIANT OutageRemembered
PROPERTY ImplementsBackoff
PROPERTY RestartRemembersBackoff
