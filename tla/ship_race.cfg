SPECIFICATION Spec
CONSTANTS
    h1 = h1
    h2 = h2
    Handlers = {h1, h2}
    Ops <- RaceOps
    Faults = {"click"}
    Statuses = {"boot"}
    Awaited = {"loader"}
    Crashes = FALSE
    TornWrites = FALSE
    WgRegistered = TRUE
    MaxFails = 0
    MaxVersion = 1
    MaxEvents = 2
SYMMETRY HandlerSymmetry
INVARIANTS  EditsKept
