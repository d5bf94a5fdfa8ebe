SPECIFICATION MatchSpec
CONSTANTS
    None = None
    MaxGoals = 1
    Confirm = 1
    Actors = {"robot", "refresh"}
    Sides = {"home"}
    MaxTime = 3
    Kickoffs = {1, 3}
    PreWindow = 1
    Grace = 2
    LiveMax = 3
    PostFinish = 1
    Fallback = 2
    MaxPens = 0
    IsTie = TRUE
    InitStatuses = {"SCHEDULED"}
    AdminEdits = {}
PROPERTIES
    RefreshLeavesSettled
CHECK_DEADLOCK FALSE
