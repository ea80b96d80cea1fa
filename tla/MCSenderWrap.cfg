\* A ring of three, and no bound on the number of operations enqueued.
CONSTANTS
  r1 = r1
  r2 = r2
  NoId = NoId
  NoStream = NoStream
  OtherStream = OtherStream
  SenderId = SenderId
  StreamId = StreamId
  MAX_VALUE = 0
  UINT32_MAX = 4
  UINT16_MAX = 6
  UINT64_MAX = 2
  OpCapacity = 3
  ReceiverCapacity = 1
  AckTimeout = 1
  MaxRetries = 2
  ReceiverIds <- MCReceiverIds
  Progress = {0, 1, 2, 3, 4}
  Values = {0, 1}
  RxFrames <- MCRxFrames
  MaxOpId = 5
SPECIFICATION ObservedSpec
SYMMETRY Receivers
PROPERTIES LogMonotonic
