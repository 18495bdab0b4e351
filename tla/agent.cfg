SPECIFICATION Spec
CONSTANTS
  MaxSteps = 3
  MaxParseRetries = 2
  MaxRateLimitRetries = 5
  Hints <- MCHints
INVARIANTS
  TypeOK
  CallBudget
  EvidenceAtMostOneBehind
  EvidenceCoversWatch
PROPERTIES
  RunEnds
CHECK_DEADLOCK FALSE
