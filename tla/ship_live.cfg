SPECIFICATION FairSpec
CONSTANTS
    Handlers = {"h1"}
    Ops <- PackMeldOps
    Faults = {}
    Statuses = {"boot", "noboot", "ignore"}
    Awaited = {"loader", "events"}
    Crashes = FALSE
    TornWrites = FALSE
    WgRegistered = TRUE
    MaxFails = 0
    MaxVersion = 1
    MaxEvents = 7
PROPERTIES PackMeldRestores
