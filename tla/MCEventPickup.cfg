\* Four events in two rooms, a worker whose database fails and that restarts.
SPECIFICATION PickupSpec
CONSTANTS
  RoomA = RoomA
  RoomB = RoomB
  Near = Near
  Rooms = {RoomA, RoomB}
  Servers = {Near}
  Orderings = {1, 2, 3, 4}
  RoomOf <- Alternating
  RoutesOf <- AllButTheLast
  BatchLimit = 2
  Overlap = 1
  MaxGone = 1
  MaxFaults = 1
  MaxFlips = 1
  MaxCrashes = 1
CHECK_DEADLOCK FALSE
INVARIANT PickupTypeOK
INVARIANT PassedEventIsOwed
INVARIANT PassedEventIsQueued
INVARIANT FirstArrivalsInOrder
INVARIANT PositionNeverAhead
INVARIANT NoPokeLost
