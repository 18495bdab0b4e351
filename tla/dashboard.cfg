SPECIFICATION Spec
CONSTANTS
  Tasks = {k1, k2}
  Workers = {w1}
  MaxAttempts = 1
  Polls = {p1, p2}
  MaxCount = 1
  MaxErrors = 2
  NoKey = NoKey
INVARIANTS
  TypeOK
  UnlistedIsRetried
  TerminalShownIsTrue
PROPERTIES
  ShownConverges
CHECK_DEADLOCK FALSE
