SPECIFICATION Spec
CONSTANTS
  Events = {e1}
  Tickets = {t1, t2}
  EventOf <- OneEvent
  Managers = {m1, m2}
  Scanners = {s1, s2}
  Processes = {p1, p2}
  Versions = {k1, k2}
  FirstKey = k1
  MaxEdits = 1
  NoEvent = NoEvent
  NoTicket = NoTicket
SYMMETRY Alike
CHECK_DEADLOCK FALSE
INVARIANTS
  AdmitsOnce
  CodesReadable
  SoldHasInventory
PROPERTIES
  InventoryFrozen
  CancellationHolds
