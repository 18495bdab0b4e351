SPECIFICATION Spec
CONSTANTS
  HeartbeatInterval = 10
  Threshold = 30
  RequeueInterval = 10
  MaxDelay = 1
  MaxLag = 0
  MaxMissed = 2
  MaxOthers = 0
  MaxFailures = 0
INVARIANTS
  MissedBeatsTolerated
