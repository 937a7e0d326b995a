SPECIFICATION FairSpec
CONSTANTS
  s1 = s1
  h1 = h1
  h2 = h2
  Seats = {s1}
  Holds = {h1, h2}
  SeatsOf <- MCSeatsOf
  NoHold = NoHold
  Tabs = {t1}
  Requests = {r1, r2}
  Others = Others
  Nobody = Nobody
  MaxConnections = 1
  MaxNews = 1
  MaxFaults = 1
INVARIANTS BelievedHoldsReal ConnectionsCounted
PROPERTIES MapLearns SeatMapKeepsSeatStore
CHECK_DEADLOCK FALSE
