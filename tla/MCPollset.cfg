CONSTANTS
  Fd = {f1, f2}
  Uses <- AllUses
SYMMETRY Symmetry
SPECIFICATION Spec
INVARIANTS
  RegistryOK
  EventsMatchCallbacks
  PositionOK
  NoReadyCallbackSkipped
CHECK_DEADLOCK FALSE
