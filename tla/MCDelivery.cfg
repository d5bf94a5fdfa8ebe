SPECIFICATION SpecDelivery
CONSTANTS
    None = None
    Users = {ana, bia, caio}
    Faults = TRUE
    MaxInFlight = 1
    Runners = {c1, c2}
    Batch = 2
    Ops = {"update", "dispatch", "cancel", "remove"}
    MaxText = 2
    MaxArmed = 2
    Messages = {m1, m2}
    Newcomers = {n1}
    Mailers = {r1, r2}
    MaxFailures = 2
    LastHour = 2
    Card <- MCCard
    KoOrder <- MCKoOrder
    TableOf <- MCTableOf
    MaxSeeds = 2
    MaxRefresh = 1
INVARIANTS
    OncePerArming
    SentMeansAll
    AtMostOneCopy
    RebuildRecovers
PROPERTIES
    ScheduledIsSettled
    DueIsSent
CHECK_DEADLOCK FALSE
