SPECIFICATION Spec
CONSTANTS
  NumSectors = 2
  VolatileSeconds = 2
  SectorsPerBlock = 1
  FreezeBelow = 1
  FreezeAttempts = 2
  MaxWrites = 1
  MaxEpoch = 5
  Faults = TRUE
INVARIANT NoLostWriteOnFailure
