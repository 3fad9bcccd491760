\* A known destination and a worker that crashes twice: what is owed arrives.
SPECIFICATION CatchUpLive
CONSTANTS
  Keys = {}
  Readers = {}
  Threads = {}
  Users = {}
  MaxPresenceStates = 1
  Outbox = Outbox
  NoThread = NoThread
  NoKey = NoKey
  Orderings = {1}
  MaxPDUs = 2
  MaxEDUs = 1
  MaxStates = 0
  Outcomes = {"delivered", "unreachable"}
  DeviceTypes = {}
  MaxEvents = 0
  MaxUpdates = 0
  MaxCatchUps = 0
  MaxServerUps = 0
  RoomA = RoomA
  RoomB = RoomB
  Rooms = {RoomA}
  RoomOf <- OneRoom
  PageSize = 1
  OutboxOwed = TRUE
  MaxCrashes = 2
CHECK_DEADLOCK FALSE
PROPERTY OwedIsDelivered
