SPECIFICATION Spec
CONSTANTS
  Ships = {s1}
  Endpoints = {e1}
  NoEndpoint = NoEndpoint
  NoShip = NoShip
  Handlers = {h1}
  Ops <- AllOps
  Faults = {"register", "service", "timeout"}
  Crashes = TRUE
  MaxBus = 1
  MaxEvents = 1
SYMMETRY Symmetry
INVARIANT TypeOK
 
 
