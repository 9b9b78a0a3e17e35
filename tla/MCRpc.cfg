CONSTANTS
  MaxCalls = 3
  Kinds <- KindsOfCalls
  Byte = 2
SPECIFICATION Spec
INVARIANTS
  AnsweredOnce
  NoneForgotten
PROPERTIES
  AnsweredAsCalled
  AllAnswered
CHECK_DEADLOCK FALSE
