CONSTANTS
  k4 = k4
  k6 = k6
  Process = {p1, p2}
  Key = {k4, k6}
  Addresses <- AddressesUsed
  Nobody = Nobody
  MaxRounds = 3
  MaxFaults = 2
SPECIFICATION BindSpec
INVARIANTS
  NotesAgree
  OnlyRacesRefuse
  SearchFinds
CHECK_DEADLOCK FALSE
