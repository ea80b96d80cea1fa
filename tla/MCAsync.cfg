\* One receiver; frames repeat, reorder and arrive late; two faults.
CONSTANTS
  r1 = r1
  r2 = r2
  NoId = NoId
  NoStream = NoStream
  SenderId = SenderId
  StreamId = StreamId
  MAX_VALUE = 1
  UINT32_MAX = 4
  UINT16_MAX = 5
  UINT64_MAX = 1
  OpCapacity = 2
  ReceiverCapacity = 1
  AckTimeout = 1
  MaxRetries = 1
  ReceiverIds <- OneReceiver
  Content <- MCContent
  MaxOpId = 3
  MaxFaults = 2
  Repeating = TRUE
  Patient = FALSE
  StoreFirst = TRUE
SPECIFICATION Spec
INVARIANTS TypeOK AckedIsStored DatasetIsPrefix
PROPERTIES ProgressKept DeliveryKept
