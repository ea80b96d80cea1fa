\* A record of three units, so that a write can stop in its middle.
CONSTANTS
  RecordSize = 3
  FORMAT_VERSION = 1
  StreamId = 1
  StreamEpoch = 1
  Strangers <- MCStrangers
  MaxOpId = 3
SPECIFICATION Spec
INVARIANTS TypeOK SuccessIsDurable
PROPERTIES StoresAtomically
