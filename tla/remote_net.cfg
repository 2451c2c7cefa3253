SPECIFICATION Spec
CONSTANTS
  Ships = {s1, s2}
  Endpoints = {e1}
  NoEndpoint = NoEndpoint
  NoShip = NoShip
  Handlers = {h1, h2}
  Ops <- LocalOps
  Faults = {}
  Crashes = FALSE
  MaxBus = 2
  MaxEvents = 1
SYMMETRY Symmetry
INVARIANT SwitchMatchesTunnel
 
