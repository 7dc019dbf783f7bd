SPECIFICATION Spec
CONSTANTS
  hub = hub
  p1 = p1
  p2 = p2
  b0 = b0
  b1 = b1
  b2 = b2
  NoProxy = NoProxy
  Proxy = {hub, p1, p2}
  Box = {b0, b1, b2}
  Server <- StarServer
  Hop <- StarHop
  Home <- StarHome
  ForwardMulticast = FALSE
  Lossy = TRUE
  MaxPackets = 2
  MaxFaults = 1
INVARIANTS
  TypeOK
  NeverBack
  Routes
  OnPath
  Reaches
PROPERTIES
  OneNetwork
CHECK_DEADLOCK FALSE
