SPECIFICATION Spec
CONSTANTS
  h1 = h1
  h2 = h2
  s1 = s1
  s2 = s2
  s3 = s3
  t1 = t1
  t2 = t2
  e1 = e1
  e2 = e2
  e3 = e3
  Seats = {s1}
  Holds = {h1}
  SeatsOf <- LoneSeats
  NoHold = NoHold
  TicketTypes = {t1}
  TypeOf <- LoneType
  Capacity <- RoomForAll
  Events = {e1, e2, e3}
  HoldOf <- LoneEvents
  KindOf <- LoneKinds
  Mismatched = {}
  Calls = {a1, a2}
  Handlers = {w1, w2}
  NoCall = NoCall
  NoEvent = NoEvent
  MaxFaults = 1
SYMMETRY Perms
CHECK_DEADLOCK FALSE
INVARIANTS
  TablesAgree
  EndsExplained
  CaptureAccounted
  AttemptFence
  LateReplyTooLate
PROPERTIES
  OutcomesStick
  ExpiryJustified
  ImplementsBookingLife
