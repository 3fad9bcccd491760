\* One typing writer that may restart, one event writer, one lost session.
SPECIFICATION StreamsSpec
CONSTANTS
  Typist = Typist
  Persister = Persister
  Streams = {"typing", "events"}
  Writers = {Typist, Persister}
  StreamOf <- WritesTo
  OwnName = {}
  MaxPosition <- Batches
  MaxUnhandled = 1
  MaxBreaks = 1
  RoomA = RoomA
  RoomB = RoomB
  alice = alice
  bob = bob
  JoinedTo <- OneEach
  Rooms = {RoomA, RoomB}
  Users = {alice, bob}
  OurUsers = {alice}
  WorkBuffer = 2
  PingTicks = 1
  TimeoutTicks = 3
  Nobody = Nobody
  BatchSize = 2
CHECK_DEADLOCK FALSE
INVARIANT StreamsTypeOK
INVARIANT BatchIsWhole
INVARIANT RemembersTheWriter
INVARIANT LastNoticeIsTrue
INVARIANT IndicatorKept
