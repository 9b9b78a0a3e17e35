CONSTANTS
  Frame = {1, 2, 3, 4}
  len <- Lengths
  last <- Lasts
  LenBytes = 2
  MaxLen = 2
  MaxIov = 2
  SockBuf = 3
  MaxPut = 3
SPECIFICATION Spec
INVARIANTS
  WsizeCounts
  StreamIntact
  NoUseAfterDestroy
  WriteArmed
PROPERTIES
  InOrderIntact
  AllArrive
CHECK_DEADLOCK FALSE
