SPECIFICATION Spec
CONSTANTS
  Tasks = {t1}
  Workers = {w1, w2}
  Requests = {r1, r2}
  None = None
  Services = {"registered", "unregistered"}
  Schedules = {1}
  MaxTime = 1
  MaxAttempts = 2
  MaxQueue = 1
  Results = {"success", "failure", "scheduled"}
  MaxDetections = 1
  Faults = {"create_enqueue", "requeue_enqueue", "scheduler_enqueue", "create_db", "requeue_db", "worker_crash", "worker_sigterm", "suspicion", "api_crash", "api_sigterm", "redis_loss"}
  MaxFaults = 2
SYMMETRY Symmetry
INVARIANTS
  TypeOK
  LockConsistent
  OwnerHoldsCurrentAttempt
  DeadLetterExhausted
  RetryHasBudget
PROPERTIES
  TerminalForever
  ImplementsLifecycle
CHECK_DEADLOCK FALSE
