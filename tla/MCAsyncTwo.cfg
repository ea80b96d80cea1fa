\* Two receivers that share the log; time stands still, so deadlines are always due.
CONSTANTS
  r1 = r1
  r2 = r2
  NoId = NoId
  NoStream = NoStream
  SenderId = SenderId
  StreamId = StreamId
  MAX_VALUE = 1
  UINT32_MAX = 4
  UINT16_MAX = 5
  UINT64_MAX = 0
  OpCapacity = 2
  ReceiverCapacity = 2
  AckTimeout = 1
  MaxRetries = 1
  ReceiverIds <- TwoReceivers
  Content <- MCContent
  MaxOpId = 2
  MaxFaults = 1
  Repeating = TRUE
  Patient = FALSE
  StoreFirst = TRUE
SPECIFICATION Spec
SYMMETRY Symmetric
INVARIANTS AckedIsStored NextOpAvailable
PROPERTIES DeliveryKept
