CONSTANTS
  MaxCalls = 3
  Kinds <- KindsOfCalls
  Byte = 2
SPECIFICATION Spec
INVARIANT SurvivesEnd
CHECK_DEADLOCK FALSE
