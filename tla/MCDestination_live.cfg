\* Liveness of the claim, under fairness.
SPECIFICATION FairSpec
CONSTANTS
  Keys = {k1}
  Readers = {}
  Threads = {}
  Users = {}
  MaxPresenceStates = 1
  Outbox = Outbox
  NoThread = NoThread
  NoKey = NoKey
  Orderings = {1}
  MaxPDUs = 1
  MaxEDUs = 1
  MaxStates = 0
  Outcomes = {"delivered", "unreachable", "limited"}
  DeviceTypes = {}
  MaxEvents = 1
  MaxUpdates = 1
  MaxCatchUps = 1
  MaxServerUps = 0
CHECK_DEADLOCK FALSE
PROPERTY ClaimGivenBack
PROPERTY CatchUpRewakes
