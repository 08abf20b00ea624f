SPECIFICATION Spec
CONSTANTS
  Partitions <- TwoPartitions
  Log <- MixedLog
  Kind <- MixedKind
  Route <- MixedRoute
  Size <- Heavy
  FirstCommitted <- FromZero
  FirstHigh <- SecondLater
  InitialPosition = "require_committed"
  MaxRecords = 3
  MaxBytes = 5
  MaxGroups = 3
  WorkerMaxBytes = 6
  MaxAttempts = 2
  MaxFailures = 1
  MaxStops = 1
  MaxRebalances = 1
  MaxRetention = 1
INVARIANTS
  TypeOK
  CommittedIsSettled
  LedgerAgrees
PROPERTY
  ImplementsHandoff
