SPECIFICATION AllSpec
CONSTANTS
  Consoles = {c1, c2}
  CatalogServers <- OneOfEach
  CatalogTags <- Nodes
  HostOf <- OnServers
  Collected <- OnlyUa
  Browsed <- BrowsePaths
  Requests <- AllRequests
  Catalogs <- TwoCatalogs
  Yaml <- YamlBindings
  MaxRequests = 2
  MaxCatalogFaults = 1
  Tags <- PathTags
  Servers = {"plc"}
  ServerOf <- PathServerOf
  Answer <- PathAnswer
  Filtered <- PathTags
  QueueSize = 2
  WriteBatch = 2
  ForwardBatch = 2
  MaxRows = 2
  MaxPages = 2
  ChunkDivisor = 10
  MaxChanges <- PathChanges
  MaxFaults = 1
INVARIANTS
  TypesOK
  HonestWhenSequential
  ReplayIsOneBatch
PROPERTIES
  EngineerEditsSurvive
  NothingVanishes
  FirstPublicationInOrder
  NewestCatchesUp
  ConnectorCatchesUp
CHECK_DEADLOCK FALSE
