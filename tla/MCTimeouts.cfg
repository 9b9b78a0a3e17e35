CONSTANTS
  Timer = {t1, t2, t3}
  MaxTime = 3
  IntMax = 1
  MaxCalls = 4
SPECIFICATION Spec
INVARIANTS
  NeverOversleeps
  RunsInOrder
PROPERTIES
  ExpiredAllRun
  EveryTimeoutRuns
CHECK_DEADLOCK FALSE
