CONSTANTS
  Types <- TypesUsed
  MaxCase = 2147483647
  Roots <- PickRoots
  Samples <- SamplesUsed
  Messages <- MessagesUsed
  Numbers = {0, 1, 2, 6}
  StackLimit = 6
  Spares <- SparesUsed
  MaxOps = 2
  DefaultPart <- DefaultPartUsed
  FixedSizePart <- FixedSizePartUsed
  SizePart <- SizePartUsed
  ComparePart <- ComparePartUsed
  EqualPart <- EqualPartUsed
  AllocationsPart <- AllocationsPartUsed
  CopyPart <- CopyPartUsed
  MovedPart <- MovedPartUsed
  ArchivePart <- ArchivePartUsed
  UnarchivePart <- UnarchivePartUsed
  AlivePart <- AlivePartUsed
  ValidPart <- ValidPartUsed
SPECIFICATION ObjSpec
INVARIANT Usable
CHECK_DEADLOCK FALSE
