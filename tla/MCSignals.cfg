CONSTANTS
  PS = {p1, p2}
  Sig = {1, 2, 9}
  Handler = {h1}
  Refused = {9}
  Throwers = {"signal", "other"}
  CallbacksChange = TRUE
  Removes = TRUE
  Interrupting = FALSE
  MaxSignals = 2
  MaxCalls = 3
SPECIFICATION Spec
INVARIANTS
  OwnersAgree
  OwnersAlive
  WakesTheLiving
  MarkedIsNoticed
PROPERTY MarkedIsServed
CHECK_DEADLOCK FALSE
