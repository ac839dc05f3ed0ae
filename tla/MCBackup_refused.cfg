SPECIFICATION MCSpec
CONSTANTS
  a = a
  b = b
  x = x
  y = y
  Workers <- TwoWorkers
  UIntModulus = 8
  Devices = {x, y}
  Sectors = {1, 2}
  None = None
  MaxTraces = 1
  MaxWork = 2
  Faulty <- NoWorker
  UuidMayFail = FALSE
PROPERTY
  BackupEnds
