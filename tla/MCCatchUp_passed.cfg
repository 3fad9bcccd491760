\* Two rooms: the cursor of one leapfrogs an event owed to the other.
SPECIFICATION CatchUpSpec
CONSTANTS
  Keys = {}
  Readers = {}
  Threads = {}
  Users = {}
  MaxPresenceStates = 1
  Outbox = Outbox
  NoThread = NoThread
  NoKey = NoKey
  Orderings = {1, 2}
  MaxPDUs = 2
  MaxEDUs = 1
  MaxStates = 0
  Outcomes = {"delivered", "lostAnswer"}
  DeviceTypes = {}
  MaxEvents = 0
  MaxUpdates = 0
  MaxCatchUps = 0
  MaxServerUps = 0
  RoomA = RoomA
  RoomB = RoomB
  Rooms = {RoomA, RoomB}
  RoomOf <- Alternating
  PageSize = 1
  OutboxOwed = TRUE
  MaxCrashes = 1
CHECK_DEADLOCK FALSE
INVARIANT NoOwedRoomPassed
