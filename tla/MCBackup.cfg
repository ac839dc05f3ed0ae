SPECIFICATION MCSpec
CONSTANTS
  a = a
  b = b
  x = x
  y = y
  Workers <- TwoWorkers
  UIntModulus = 8
  Devices = {x, y}
  Sectors = {1, 2}
  None = None
  MaxTraces = 2
  MaxWork = 3
  Faulty <- TwoWorkers
  UuidMayFail = TRUE
INVARIANTS
  CountAccounting
  FinishTogetherUnlessRefused
  VerdictSound
  SucceededReportsNothingLeft
  SucceededCopiedAll
PROPERTIES
  ImplementsJob
  CancelEnds
  EndsUnlessRefused
