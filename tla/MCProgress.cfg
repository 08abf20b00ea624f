SPECIFICATION AllSpec
CONSTANTS
  Members = {m1}
  Nobody = Nobody
  Partitions <- OnePartition
  Log <- TwoLog
  Kind <- AllEvents
  Id <- OwnId
  Late <- AllLate
  Day <- OneDay
  Size <- UnitSize
  MaxEvents = 1
  MaxBytes = 9
  MaxFailures = 1
  MaxStops = 1
  MaxRebalances = 0
  MaxClaims = 2
  MaxRetention = 0
INVARIANT
  RefreshCovers
PROPERTIES
  EveryMessageReleased
  EveryRecordCommitted
  LateDaysAreRefreshed
CHECK_DEADLOCK FALSE
