SPECIFICATION Spec
CONSTANTS
  s1 = s1
  s2 = s2
  s3 = s3
  h1 = h1
  h2 = h2
  t1 = t1
  t2 = t2
  e1 = e1
  e2 = e2
  e3 = e3
  Seats = {s1, s2, s3}
  Holds = {h1, h2}
  SeatsOf <- RivalSeats
  NoHold = NoHold
  TicketTypes = {t1}
  TypeOf <- RivalType
  Capacity <- RoomForAll
  Events = {e1, e2}
  HoldOf <- RivalEvents
  KindOf <- RivalKinds
  Mismatched = {}
  Calls = {a1}
  Handlers = {w1, w2}
  NoCall = NoCall
  NoEvent = NoEvent
  MaxFaults = 0
SYMMETRY Perms
CHECK_DEADLOCK FALSE
INVARIANTS
  SeatsSoldOnce
  SalesLedger
  BrokenHoldOnlyForSoldSeats
PROPERTIES
  ImplementsSeatSale
  CheckoutKeepsSeatStore
