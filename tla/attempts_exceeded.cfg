SPECIFICATION Spec
CONSTANTS
  Tasks = {t1}
  Workers = {w1, w2, w3}
  Requests = {r1}
  None = None
  Services = {"registered"}
  Schedules = {}
  MaxTime = 0
  MaxAttempts = 2
  MaxQueue = 1
  Results = {"success", "failure"}
  MaxDetections = 0
  Faults = {"worker_crash"}
  MaxFaults = 2
INVARIANTS
  AttemptsBounded
CHECK_DEADLOCK FALSE
