SPECIFICATION Spec
CONSTANTS
  Tasks = {t1}
  Workers = {w1, w2}
  Requests = {r1, r2}
  None = None
  Services = {"registered"}
  Schedules = {}
  MaxTime = 0
  MaxAttempts = 2
  MaxQueue = 1
  Results = {"success", "failure"}
  MaxDetections = 0
  Faults = {}
  MaxFaults = 0
INVARIANTS
  ReplayAnswered200
CHECK_DEADLOCK FALSE
