SPECIFICATION FlowSpec
CONSTANTS
  p1 = p1
  p2 = p2
  Threads = {t1}
  Players = {p1, p2}
  TeamOf <- MCTeamOf
  Sample <- MCSample
  Filters <- NameSome
  Statuses = {"available", "out"}
  Sources = {"nba-official"}
  None = None
  CacheTtl = 1
  StoreTtl = 1
  MaxAlerts = 2
  FetchMax = 1
  MaxTime = 1
  MaxChecks = 3
CHECK_DEADLOCK FALSE
PROPERTIES NamedWorseningAlerted
