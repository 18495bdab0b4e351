SPECIFICATION Spec
CONSTANTS
  HeartbeatInterval = 10
  Threshold = 30
  RequeueInterval = 10
  MaxDelay = 2
  MaxLag = 3
  MaxMissed = 1
  MaxOthers = 2
  MaxFailures = 1
INVARIANTS
  TypeOK
  LiveOwnerNotStale
  RecoveredInTime
