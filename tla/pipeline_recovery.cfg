SPECIFICATION FairSpec
CONSTANTS
  Tasks = {t1}
  Workers = {w1, w2, w3}
  Requests = {r1}
  None = None
  Services = {"registered"}
  Schedules = {1}
  MaxTime = 1
  MaxAttempts = 2
  MaxQueue = 1
  Results = {"success", "failure"}
  MaxDetections = 0
  Faults = {"create_enqueue", "requeue_enqueue", "scheduler_enqueue", "requeue_db", "worker_crash", "api_crash", "api_sigterm", "redis_loss"}
  MaxFaults = 2
INVARIANTS
  NoEarlyStart
  AttemptsWithinLosses
PROPERTIES
  DueIsClaimed
  OrphanRecovered
CHECK_DEADLOCK FALSE
