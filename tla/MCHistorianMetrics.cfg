SPECIFICATION Spec
CONSTANTS
  Members = {m1}
  Nobody = Nobody
  Partitions <- OnePartition
  Log <- TwoLog
  Kind <- AllEvents
  Id <- SameId
  Late <- NoneLate
  Day <- OneDay
  Size <- UnitSize
  MaxEvents = 2
  MaxBytes = 9
  MaxFailures = 0
  MaxStops = 0
  MaxRebalances = 0
  MaxClaims = 2
  MaxRetention = 0
INVARIANTS
  MetricsOnce
CHECK_DEADLOCK FALSE
