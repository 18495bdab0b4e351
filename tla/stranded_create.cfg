SPECIFICATION FairSpec
CONSTANTS
  Tasks = {t1}
  Workers = {w1, w2}
  Requests = {r1}
  None = None
  Services = {"registered"}
  Schedules = {}
  MaxTime = 0
  MaxAttempts = 2
  MaxQueue = 1
  Results = {"success", "failure"}
  MaxDetections = 0
  Faults = {"create_enqueue"}
  MaxFaults = 1
PROPERTIES
  CreatedIsPickedUp
CHECK_DEADLOCK FALSE
