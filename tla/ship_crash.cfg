SPECIFICATION Spec
CONSTANTS
    Handlers = {"h1"}
    Ops <- CrashOps
    Faults = {"click", "start"}
    Statuses = {"boot", "prep"}
    Awaited = {"loader", "events"}
    Crashes = TRUE
    TornWrites = TRUE
    WgRegistered = TRUE
    MaxFails = 1
    MaxVersion = 1
    MaxEvents = 7
INVARIANTS Coherent NoTransientLeft EditsKept
