SPECIFICATION Spec
CONSTANTS
    None = None
    Users = {ana, bia, caio}
    Runners = {r1, r2}
    Batch = 2
    Ops = {"dispatch"}
    Faults = FALSE
    MaxText = 2
    MaxArmed = 2
    MaxInFlight = 1
INVARIANTS
    OneCopyEach
CHECK_DEADLOCK FALSE
