SPECIFICATION Spec
CONSTANTS
  Members = {m1, m2}
  Nobody = Nobody
  Partitions <- OnePartition
  Log <- ThreeLog
  Kind <- AllEvents
  Id <- OwnId
  Late <- NoneLate
  Day <- OneDay
  Size <- OversizeLast
  MaxEvents = 1
  MaxBytes = 3
  MaxFailures = 0
  MaxStops = 0
  MaxRebalances = 1
  MaxClaims = 0
  MaxRetention = 0
INVARIANTS
  KafkaBehindSql
PROPERTIES
  CheckpointMonotone
CHECK_DEADLOCK FALSE
