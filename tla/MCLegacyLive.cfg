\* Fair event loops; the retries outlast the three faults.
CONSTANTS
  r1 = r1
  r2 = r2
  NoId = NoId
  SenderId = SenderId
  ExpectedSender = SenderId
  MAX_VALUE = 1
  MaxRetries = 4
  FirstVersion = 1
  ReceiverIds <- OneReceiver
  FirstNumbers <- MCFirstNumbers
  Updates <- TwoUpdates
  MaxFaults = 3
  MaxRestarts = 0
  Repeating = FALSE
  Overhearing = FALSE
  Damaging = FALSE
  Patient = TRUE
SPECIFICATION FairSpec
INVARIANTS DuplicatesTolerated
PROPERTIES EveryUpdateConfirmed
