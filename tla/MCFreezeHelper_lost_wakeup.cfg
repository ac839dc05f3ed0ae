SPECIFICATION FairSpec
CONSTANTS
  MaxAttempts = 2
  FreezeFails = FALSE
  ThawFails = FALSE
PROPERTY RunReturns
