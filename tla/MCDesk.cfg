SPECIFICATION SpecDesk
SYMMETRY AlikeUsers
CONSTANTS
    None = None
    MaxGoals = 0
    Confirm = 1
    Actors = {"robot", "admin", "refresh", "faults"}
    Sides = {}
    MaxTime = 2
    Kickoffs = {1, 2}
    PreWindow = 0
    Grace = 2
    LiveMax = 3
    PostFinish = 1
    Fallback = 2
    MaxPens = 1
    IsTie = TRUE
    InitStatuses = {"SCHEDULED", "POSTPONED"}
    AdminEdits = {"auto"}
    Faults = TRUE
    Users = {ana, bia}
    MaxInFlight = 2
    Articles = {"a1"}
    Sections = {s1}
    MaxSaves = 2
    Nodes = {"c1", "c2", "c3", "c4"}
    MaxDepth = 3
    MaxPhotos = 2
    Tabs = {"t1", "t2", "t3"}
    PersonOf <- MCPersonOf
    MaxMessages = 1
    Versions <- MCVersions
    FrameGroups <- MCGroups
    FrameDays = {1, 2}
    Newcomer = "c3"
    InEvents = {"c1", "c2"}
    LeagueRounds = 2
    MaxShifts = 1
    Fixture <- MCFixture
    CupRounds <- MCRounds
    Days = {1, 2}
    MaxMoves = 2
INVARIANTS
    OverruledAtMostOnce
    VersionsStand
    ForestStands
    SomebodyAdministers
    PhotosStand
    RoomIsFollowed
    FrameIsCurrent
    SeedMirrorsList
PROPERTIES
    RobotOneWay
    ResultsStand
CHECK_DEADLOCK FALSE
