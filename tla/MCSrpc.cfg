CONSTANTS
  Services <- ServicesUsed
  Requests <- RequestsUsed
  MaxCalls = 3
  MaxFaults = 2
SPECIFICATION Spec
INVARIANTS
  OwnResultOnce
  InStep
PROPERTY CallsEnd
CHECK_DEADLOCK FALSE
