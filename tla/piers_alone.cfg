SPECIFICATION Spec
CONSTANTS
  Patps = {bus, zod}
  NoPatp = NoPatp
  Handlers = {h1}
  MaxPort = 3
  MaxPiers = 3
  Serial = FALSE
  OtherUpdates = TRUE
  Crashes = TRUE
  Remotes <- AnyRemote
  Faults <- LateFaults
SYMMETRY Symmetry
INVARIANT MemoryMatchesDisk
