\* A receiver that accepts any sender, every frame at any time; bursts of 12 bits.
CONSTANTS
  r1 = r1
  r2 = r2
  NoId = NoId
  FirstSender = FirstSender
  SecondSender = SecondSender
  ExpectedSender = NoId
  MAX_VALUE = 2
  MaxRetries = 2
  FirstVersion = 1
  ReceiverIds <- OneReceiver
  FirstNumbers <- MCFirstNumbers
  Frames <- MCFrames
  Messages <- MCMessages
  Bodies <- MCBodies
  BurstBits = 12
SPECIFICATION Spec
INVARIANTS TypeOK
PROPERTIES AppliesWhatWasAnnounced ChecksumCorrect DamageDetected
