SPECIFICATION PredictionsSpec
CONSTANTS
    None = None
    MaxGoals = 0
    Confirm = 1
    Actors = {"robot", "admin", "faults"}
    Sides = {}
    MaxTime = 2
    Kickoffs = {1}
    PreWindow = 1
    Grace = 2
    LiveMax = 3
    PostFinish = 1
    Fallback = 2
    MaxPens = 0
    IsTie = FALSE
    InitStatuses = {"SCHEDULED"}
    AdminEdits = {"open"}
    Users = {ana, bia}
INVARIANTS
    NobodyBetsInformed
CHECK_DEADLOCK FALSE
