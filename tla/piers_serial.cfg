SPECIFICATION Spec
CONSTANTS
  Patps = {zod, bus, wes}
  NoPatp = NoPatp
  Handlers = {h1, h2}
  MaxPort = 4
  MaxPiers = 3
  Serial = TRUE
  OtherUpdates = FALSE
  Crashes = TRUE
  Remotes <- NoRemote
  Faults <- CleanFaults
SYMMETRY Symmetry
INVARIANT TypeOK
INVARIANT PortsDistinct
INVARIANT ListedOnce
INVARIANT NoLeftovers
PROPERTY OnlyTheAsked
