SPECIFICATION FairSpec
CONSTANTS
  NumSectors = 2
  VolatileSeconds = 1
  SectorsPerBlock = 1
  FreezeBelow = 1
  FreezeAttempts = 2
  MaxWrites = 1
  MaxEpoch = 3
  Faults = TRUE
INVARIANTS
  NoLostWrite
  FrozenCopyExact
PROPERTIES
  SyncSettles
  ImageCatchesUp
