SPECIFICATION Spec
CONSTANTS
    Handlers = {"h1"}
    Ops <- SoloOps
    Faults = {}
    Statuses = {"boot", "noboot", "ignore"}
    Awaited = {"loader", "events"}
    Crashes = FALSE
    TornWrites = FALSE
    WgRegistered = TRUE
    MaxFails = 0
    MaxVersion = 2
    MaxEvents = 7
INVARIANTS TypeOK NoTransientLeft RunsAsConfigured OffIsOff DeletedIsGone
CHECK_DEADLOCK FALSE
