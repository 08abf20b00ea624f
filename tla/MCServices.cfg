SPECIFICATION Spec
CONSTANTS
  Trees <- TwoTrees
  RenameLists <- SomeRenames
  AreaDepth = 3
  GroupNames = {"night"}
  MaxSaves = 2
  MaxRetries = 1
  MaxPublished = 1
  MaxGroupEdits = 1
  MaxSaveFaults = 1
  Historians = {"mqtt", "kafka"}
  Eager = {"mqtt"}
  DataTopics <- BoundTopics
  Branches <- TwoBranches
  Capacity = 1
  MaxEdits = 1
  MaxMessages = 2
  MaxBinderFaults = 1
  NoName = NoName
  NoAlias = NoAlias
  None = None
  ByteBits = 2
  Devices <- NodeAndDevices
  Names <- SomeNames
  Births <- SomeBirths
  Datas <- SomeDatas
  Readings <- SomeReadings
  MaxSent = 3
  MaxEnds = 1
  MaxLost = 1
  Unbound = Unbound
  Resync = Resync
  NoProduct = NoProduct
  Everything = Everything
  Plans <- SomePlans
  ModelAssets = {"a", "b"}
  Before <- SomeTables
  MaxImports = 2
  MaxReads = 1
  MaxImportFaults = 1
  Callers = {1, 2, 3}
  Kids = {"k1", "k2"}
  MaxRotations = 1
  MaxOutages = 1
  Turns = {"t1", "t2", "t3"}
  Asker <- Askers
  Limit = 2
  ModelRounds = 2
  Retention = 2
  TurnTime = 1
  MaxTime = 3
  MaxRestarts = 1
  MaxChatFaults = 1
  NoNode = NoNode
  Clients = {"ann", "bob"}
  LiveTopics = {"t"}
  Assets = {"a", "b"}
  Roots <- Groups
  MaxClients = 2
  MaxQueue = 2
  MaxBytes = 2
  Sizes = {1}
  MaxEvents = 3
  MaxReassigned = 1
  MaxModelEdits = 1
  Gone = Gone
INVARIANTS
  TypeOK
  AssetsMatchTree
  StaleIsRevisited
  SparkplugIsMeant
  ClientsAreServed
  OneFetchPerKey
  ComputedRight
  ImportReachesEngine
  GraphAnswers
  ConversationHolds
PROPERTIES
  RenamesLeaveWhenMoved
CHECK_DEADLOCK FALSE
