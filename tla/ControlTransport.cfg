SPECIFICATION Spec
CONSTANTS
  Hosts = {h1, h2}
  Ports = {p1, p2}
  Wire = Wire
  NoAddress = NoAddress
  QueueSize = 2
  DriverSize = 2
  MaxLength = 3
  MaxSent = 3
INVARIANTS
  CommandsGoToVehicle
  WholeFramesOnLine
PROPERTIES
  OthersIgnored
  ReceiveEnds
  SendEnds
CHECK_DEADLOCK FALSE
