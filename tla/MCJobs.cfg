SPECIFICATION SpecJobs
SYMMETRY AlikePasses
CONSTANTS
    Faults = TRUE
    None = None
    Users = {ana}
    MaxInFlight = 2
    Fans = {ana}
    Passes = {p1, p2}
    Hour = 2
    Day = 4
    Early = 1
    Late = 1
    Recent = 1
    KickoffTimes = {3, 4}
    LastMinute = 4
    MaxRedates = 1
    Items = {"i1", "i2"}
    Event <- MCEvent
    Runs = {w1, w2}
    Desks = {w2}
    Batch = 2
    MaxPerDay = 1
    MaxAsked = 1
    Robots = {"live-ingest", "match-summary"}
    Stale = 2
    KeyKind <- MCKeyKind
    Revisable = {"g"}
    Plays <- MCPlays
    Window = 2
    Near = 1
    Squad = {j1}
    Table <- MCTable
    LeagueDays = {1, 2}
    MaxNews = 1
    PageEvents <- MCPageEvents
    Callers = {"live"}
    Refreshers = {"o1", "o2"}
    FirstPause = 1
    MaxPause = 3
    RetryAfter = {None, 0, 1, 3}
    Leagues <- MCLeagues
    LeagueMatch <- MCLeagueMatch
    Prices = {"p0", "p1"}
    MaxClock = 4
    RetentionDays = 2
    LastNight = 5
INVARIANTS
    PageTellsTheMatch
    LastDumpsStand
    NobodyIsMissed
    PushedOnce
    CapIsKept
    OneStoryPerEvent
    TimelineFollows
    PagesFollow
PROPERTIES
    PauseStands
    VerdictStands
    AlarmsAreTrue
    RowsKeepTheirGame
CHECK_DEADLOCK FALSE
