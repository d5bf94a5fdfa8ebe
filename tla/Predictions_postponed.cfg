SPECIFICATION PredictionsSpec
CONSTANTS
    None = None
    MaxGoals = 0
    Confirm = 1
    Actors = {"refresh"}
    Sides = {}
    MaxTime = 3
    Kickoffs = {1, 3}
    PreWindow = 1
    Grace = 2
    LiveMax = 3
    PostFinish = 1
    Fallback = 2
    MaxPens = 0
    IsTie = FALSE
    InitStatuses = {"POSTPONED"}
    AdminEdits = {}
    Users = {ana, bia}
INVARIANTS
    NobodyBetsInformed
CHECK_DEADLOCK FALSE
