\* Fair event loops that keep announcing; one retry, so downtime exhausts.
CONSTANTS
  r1 = r1
  r2 = r2
  NoId = NoId
  NoStream = NoStream
  SenderId = SenderId
  StreamId = StreamId
  MAX_VALUE = 1
  UINT32_MAX = 4
  UINT16_MAX = 12
  UINT64_MAX = 6
  OpCapacity = 2
  ReceiverCapacity = 1
  AckTimeout = 1
  MaxRetries = 1
  ReceiverIds <- OneReceiver
  Content <- MCContent
  MaxOpId = 1
  MaxFaults = 2
  Repeating = FALSE
  Patient = TRUE
  StoreFirst = TRUE
SPECIFICATION BeaconSpec
PROPERTIES RecoversAfterDowntime
