\* Batches of two rows, transactions of one EDU, a failed write or a crash.
SPECIFICATION OutboxSpec
CONSTANTS
  Users = {alice}
  Readers = {g1, g2}
  EDUsPerRead = 2
  MaxEDUs = 1
  NoUser = NoUser
  MaxRows = 3
  MaxFaults = 1
CHECK_DEADLOCK FALSE
SYMMETRY Symmetry
INVARIANT OutboxTypeOK
INVARIANT CursorPassesNothing
INVARIANT DeletedWasReceived
INVARIANT PrevIdWasSent
