CONSTANTS
  Types <- TypesUsed
  MaxCase = 2147483647
  Roots <- RootsUsed
  Samples <- SamplesUsed
  Messages <- MessagesUsed
  Numbers = {0, 1, 2, 6}
  StackLimit = 6
  Spares <- SparesUsed
  MaxOps = 3
  DefaultPart <- DefaultPartUsed
  FixedSizePart <- FixedSizePartUsed
  SizePart <- SizePartUsed
  ComparePart <- ComparePartUsed
  EqualPart <- EqualPartUsed
  AllocationsPart <- AllocationsPartUsed
  CopyPart <- CopyPartUsed
  MovedPart <- MovedPartUsed
  ArchivePart <- ArchivePartUsed
  UnarchivePart <- UnarchivePartUsed
  AlivePart <- AlivePartUsed
  ValidPart <- ValidPartUsed
SPECIFICATION ObjSpec
INVARIANTS
  MembersAlive
  RoundTrip
  SizeExact
  NeverReadsPast
  DepthAgrees
  OrderAgrees
  ClearsToDefault
CHECK_DEADLOCK FALSE
