SPECIFICATION FairSpec
CONSTANTS
  NumCpus = 2
  Capacity = 2
  MaxTraces = 2
  Faults = TRUE
INVARIANTS
  FlushDelivers
  NoTracerNoTrace
PROPERTIES
  ImplementsChannel
  FlushAndStopReturn
