\* Two receivers, a ring of two, every call in every order, up to the last op_id.
CONSTANTS
  r1 = r1
  r2 = r2
  NoId = NoId
  NoStream = NoStream
  OtherStream = OtherStream
  SenderId = SenderId
  StreamId = StreamId
  MAX_VALUE = 0
  UINT32_MAX = 3
  UINT16_MAX = 4
  UINT64_MAX = 2
  OpCapacity = 2
  ReceiverCapacity = 2
  AckTimeout = 1
  MaxRetries = 1
  ReceiverIds <- MCReceiverIds
  Progress = {0, 1, 3}
  Values = {0, 1}
  RxFrames <- MCRxFrames
  MaxOpId = 3
SPECIFICATION ObservedSpec
SYMMETRY Receivers
INVARIANTS TypeOK RingConsistent InflightRetained IdleSlotsClean UniqueReceivers NoStarvation
PROPERTIES NeededOpsKept RetainedOpsImmutable
