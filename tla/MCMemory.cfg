SPECIFICATION MemorySpec
CONSTANTS
  Keys = {k1, k2}
  k1 = k1
  k2 = k2
  Null = Null
  Shapes <- MCShapes
  MaxAlerts = 2
  Ttl = 1
  ClockEnd = 3
  MaxId = 4
  Ids = {a}
  Refreshers = {r1, r2}
  Feeds <- MCFeeds
  None = None
  MaxTime = 2
  Ages = {0, 1}
CHECK_DEADLOCK FALSE
INVARIANTS IndexesAgree
PROPERTIES LiveAlertsKept ListingsExact DataNeverGoesBack MovesReported RefreshesAnswered
