SPECIFICATION Spec
CONSTANTS
  Members = {m1}
  Nobody = Nobody
  Partitions <- OnePartition
  Log <- FiveLog
  Kind <- MixedKind
  Id <- RecurringId
  Late <- SecondLate
  Day <- OneDay
  Size <- MixedSize
  MaxEvents = 2
  MaxBytes = 3
  MaxFailures = 1
  MaxStops = 1
  MaxRebalances = 0
  MaxClaims = 0
  MaxRetention = 1
INVARIANTS
  CheckpointIsHandled
  MetricsMatchRows
PROPERTIES
  ImplementsHandoff
CHECK_DEADLOCK FALSE
