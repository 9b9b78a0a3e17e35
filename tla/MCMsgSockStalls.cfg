CONSTANTS
  Frame = {1, 2, 3, 4}
  len <- Lengths
  last <- Lasts
  LenBytes = 2
  MaxLen = 2
  MaxIov = 2
  SockBuf = 3
  MaxPut = 3
SPECIFICATION Spec
INVARIANT NeverStalls
CHECK_DEADLOCK FALSE
