SPECIFICATION ExtFairSpec
CONSTANTS
  MaxAttempts = 2
  FreezeFails = TRUE
  ThawFails = TRUE
  MaxMounts = 2
  s_first_data_block = 1
  s_blocks_per_group = 2
  s_blocks_count = 4
  sectors_per_block = 2
  MaxChanges = 1
INVARIANTS
  NeverFreezesTwice
  LeavesNothingBehind
  TrulyFrozen
  LeftThawed
  SnapshotExact
PROPERTIES
  KeepsItsWord
  AlwaysThaws
