SPECIFICATION FairSpec
CONSTANTS
  h1 = h1
  h2 = h2
  j1 = j1
  j2 = j2
  d1 = d1
  d2 = d2
  NoJob = NoJob
  Handlers <- TwoHandlers
  Jobs <- TwoJobs
  Devices <- TwoDevices
  Requests <- SmallRequests
INVARIANTS
  DeviceExclusion
  NotRunningMeansFinal
  ReleasedBeforeExit
PROPERTY
  TeardownEnds
