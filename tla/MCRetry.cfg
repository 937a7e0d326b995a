SPECIFICATION FairSpec
CONSTANTS
  h1 = h1
  h2 = h2
  k1 = k1
  t1 = t1
  Holds = {h1, h2}
  Keys = {k1}
  Requests = {r1, r2}
  Tabs = {t1}
  TabHold <- MCTabHold
  TabKey <- MCTabKey
  NoHold = NoHold
  NoKey = NoKey
  Nobody = Nobody
  MaxAsks = 1
  MaxFaults = 1
INVARIANTS KeyBindsOneBooking AnswersTrue
PROPERTY PagesSettle
CHECK_DEADLOCK FALSE
