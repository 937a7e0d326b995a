SPECIFICATION FairSpec
CONSTANTS
  r1 = r1
  r2 = r2
  r3 = r3
  Rows = {r1, r2, r3}
  KindOf <- EveryKind
  Workers = {w1, w2}
  BatchSize = 2
  MaxAttempts = 2
  MaxFaults = 1
CHECK_DEADLOCK FALSE
INVARIANTS
  EmailsPaidFor
  RetriesPaidFor
  ProcessedIsSent
  DeadIsExhausted
PROPERTIES
  ImplementsNoticeLife
  OutboxSettles
