SPECIFICATION FairSpec
CONSTANTS
  Members = {m1}
  Nobody = Nobody
  Partitions <- OnePartition
  Log <- TwoLog
  Kind <- AllEvents
  Id <- OwnId
  Late <- NoneLate
  Day <- OneDay
  Size <- UnitSize
  MaxEvents = 1
  MaxBytes = 9
  MaxFailures = 0
  MaxStops = 0
  MaxRebalances = 0
  MaxClaims = 2
  MaxRetention = 0
PROPERTIES
  LagConverges
CHECK_DEADLOCK FALSE
