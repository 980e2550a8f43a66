SPECIFICATION FairSpec
CONSTANTS
  p1 = p1
  p2 = p2
  Threads = {t1, t2}
  Players = {p1}
  TeamOf <- MCTeamOf
  Sample <- MCSample
  Filters <- NameFirst
  Statuses = {"available", "out"}
  Sources = {"nba-official", "sample-fallback"}
  None = None
  CacheTtl = 0
  StoreTtl = 1
  MaxAlerts = 2
  FetchMax = 1
  MaxTime = 2
  MaxChecks = 2
CHECK_DEADLOCK FALSE
INVARIANTS DetectionStaysValid CacheAgeBounded
PROPERTIES SavedAfterStored RegularIsAlerted EvaluationsFinish
