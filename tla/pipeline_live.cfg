SPECIFICATION FairSpec
CONSTANTS
  Tasks = {t1}
  Workers = {w1, w2}
  Requests = {r1, r2}
  None = None
  Services = {"registered"}
  Schedules = {1}
  MaxTime = 1
  MaxAttempts = 2
  MaxQueue = 1
  Results = {"success", "failure"}
  MaxDetections = 0
  Faults = {"suspicion", "worker_sigterm", "scheduler_enqueue"}
  MaxFaults = 1
INVARIANTS
  WaitingIsCovered
PROPERTIES
  EventuallyTerminal
CHECK_DEADLOCK FALSE
