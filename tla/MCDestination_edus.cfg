\* Every kind of EDU: merged, held back, marked, dropped in an outage.
SPECIFICATION Spec
CONSTANTS
  Keys = {k1}
  Readers = {r1}
  Threads = {t1, t2}
  Users = {u1, u2}
  MaxPresenceStates = 1
  Outbox = Outbox
  NoThread = NoThread
  NoKey = NoKey
  Orderings = {}
  MaxPDUs = 1
  MaxEDUs = 2
  MaxStates = 2
  Outcomes = {"delivered", "unreachable"}
  DeviceTypes = {"m.direct_to_device", "m.device_list_update"}
  MaxEvents = 0
  MaxUpdates = 3
  MaxCatchUps = 0
  MaxServerUps = 0
CHECK_DEADLOCK FALSE
INVARIANT TakenIsHead
INVARIANT EveryDeviceUnitAccounted
INVARIANT DeletedRowsLeftTheQueue
INVARIANT NoStaleDuplicate
INVARIANT MergeKeepsNewest
INVARIANT HeldPresenceHasTimer
SYMMETRY Symmetry
