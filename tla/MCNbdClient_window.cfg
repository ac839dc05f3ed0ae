SPECIFICATION Spec
CONSTANTS
  NoClient = NoClient
  Clients = {a, b}
  NumDevices = 2
PROPERTIES
  OneOwner
