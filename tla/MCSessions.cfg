SPECIFICATION Spec
CONSTANTS
  Users = {u1, u2}
  Tokens = {t1, t2, t3}
  Requests = {r1, r2}
  NoUser = NoUser
  NoToken = NoToken
SYMMETRY Alike
CHECK_DEADLOCK FALSE
INVARIANTS
  OneOpenToken
  ReplayEndsFamily
  SuspensionEndsSessions
PROPERTIES
  ImplementsSessionLife
