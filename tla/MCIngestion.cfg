SPECIFICATION Spec
CONSTANTS
  Messages <- MixedMessages
  Kind <- MixedKind
  Qos <- MixedQos
  Size <- MixedSize
  Periodic <- None
  NoMsg = NoMsg
  ReceiveMaximum = 2
  PendingRecordLimit = 2
  PendingByteLimit = 2
  QueueLimit = 2
  MaxDrops = 1
  MaxStops = 1
  MaxFailures = 1
INVARIANTS
  TypeOK
  AckedIsDurable
  BooksBalance
PROPERTY
  ImplementsHandoff
CHECK_DEADLOCK FALSE
