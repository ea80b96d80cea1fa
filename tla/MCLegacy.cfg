\* One receiver, two updates, a radio that repeats every frame, one fault, one restart.
CONSTANTS
  r1 = r1
  r2 = r2
  NoId = NoId
  SenderId = SenderId
  ExpectedSender = SenderId
  MAX_VALUE = 1
  MaxRetries = 1
  FirstVersion = 1
  ReceiverIds <- OneReceiver
  FirstNumbers <- MCFirstNumbers
  Updates <- TwoUpdates
  MaxFaults = 1
  MaxRestarts = 1
  Repeating = TRUE
  Overhearing = FALSE
  Damaging = TRUE
  Patient = FALSE
SPECIFICATION Spec
INVARIANTS TypeOK DatasetIsVersion DataFitsReceiver
PROPERTIES RolloutKept
