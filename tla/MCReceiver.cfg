\* Two receivers up to the last op_id, every frame at any time.
CONSTANTS
  r1 = r1
  r2 = r2
  NoId = NoId
  NoStream = NoStream
  OtherSender = OtherSender
  OtherStream = OtherStream
  ExpectedSender = SenderId
  StreamId = StreamId
  MAX_VALUE = 3
  UINT32_MAX = 12
  ReceiverIds <- MCReceiverIds
  Content <- MCContent
  DataFrames <- MCDataFrames
SPECIFICATION Spec
INVARIANTS TypeOK DatasetIsPrefix
