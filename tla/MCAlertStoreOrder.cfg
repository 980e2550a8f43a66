SPECIFICATION StoreSpec
CONSTANTS
  Keys = {k1, k2}
  k1 = k1
  k2 = k2
  Null = Null
  Shapes <- MCShapes
  MaxAlerts = 2
  Ttl = 1
  ClockEnd = 3
  MaxId = 4
CHECK_DEADLOCK FALSE
PROPERTIES NewestFirst
