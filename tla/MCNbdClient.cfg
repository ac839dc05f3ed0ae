SPECIFICATION FairSpec
CONSTANTS
  NoClient = NoClient
  Clients = {a, b, c}
  NumDevices = 1
INVARIANTS
  Undisturbed
PROPERTIES
  KeptWhileServed
  DisconnectEnds
