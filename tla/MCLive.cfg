SPECIFICATION SpecLive
CONSTANTS
    None = None
    MaxGoals = 2
    Confirm = 2
    Actors = {"robot", "faults"}
    Sides = {"home"}
    MaxTime = 4
    Kickoffs = {1, 3}
    PreWindow = 1
    Grace = 2
    LiveMax = 3
    PostFinish = 1
    Fallback = 2
    MaxPens = 0
    IsTie = TRUE
    InitStatuses = {"SCHEDULED"}
    AdminEdits = {}
    Faults = TRUE
    Users = {ana}
    MaxInFlight = 1
    Statuses = {"SCHEDULED", "LIVE"}
    KickoffInstants = {2}
    LastInstant = 2
    MaxWrites = 2
    MaxMishaps = 1
PROPERTIES
    FallIsConfirmed
    FinishedIsResolved
    SignalsKeepPromise
CHECK_DEADLOCK FALSE
