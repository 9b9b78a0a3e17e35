CONSTANTS
  Thread = {t1, t2}
  Cb = {c1, c2, c3}
  Task = {c3}
  Throwing = {c1}
  Capacity = 2
  MaxOther = 2
SPECIFICATION QueueSpec
INVARIANTS
  NoLostWakeup
  NasyncCounts
PROPERTIES
  InjectedRuns
  InOrderOnce
CHECK_DEADLOCK FALSE
