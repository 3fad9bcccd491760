\* PDUs: the live loop against catch-up, every answer of the remote.
SPECIFICATION Spec
CONSTANTS
  Keys = {}
  Readers = {}
  Threads = {}
  Users = {}
  MaxPresenceStates = 1
  Outbox = Outbox
  NoThread = NoThread
  NoKey = NoKey
  Orderings = {1, 2}
  MaxPDUs = 1
  MaxEDUs = 1
  MaxStates = 0
  Outcomes = {"delivered", "refused", "unreachable", "lostAnswer", "limited"}
  DeviceTypes = {}
  MaxEvents = 2
  MaxUpdates = 0
  MaxCatchUps = 1
  MaxServerUps = 1
CHECK_DEADLOCK FALSE
INVARIANT TypeOK
INVARIANT OneTransaction
INVARIANT TakenIsHead
INVARIANT EveryPDUAccounted
INVARIANT CursorIsTrue
