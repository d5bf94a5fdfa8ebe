SPECIFICATION SpecGame
CONSTANTS
    Users = {ana, bia, caio}
    Faults = TRUE
    MaxInFlight = 2
    Creator = ana
    MaxRuns = 3
    MaxTime = 2
    Points <- DefaultPoints
    PhaseStep = 1
    PhaseCap = 3
    MaxGoals = 3
    Seasons = {2025, 2026}
    MaxPos = 3
    Bettors = {ana, bia}
    Leavers = {bia}
    Fixtures = {"m1", "m2"}
    RoundOf <- MCRoundOf
    FirstDates <- MCFirstDates
    Guesses <- MCGuesses
    MaxScore = 1
    ScoringSides = {"home"}
    LastDate = 2
    MaxDecrees = 1
    None = None
    a1 = a1
    a2 = a2
    b1 = b1
    b2 = b2
    host = host
    Teams <- MCTeams
    NameRank <- MCNameRank
    Groups <- MCGroups
    TeamsOf <- MCTeamsOf
    GroupMatches <- MCGroupMatches
    Preset = "GENERIC"
    ThirdPlace = 2
    BestCount = 1
    Annex <- MCAnnex
    TieOrder <- MCTieOrder
    Source <- MCSource
    Seeded <- MCSeeded
    Legs <- MCLegs
    Fixture <- MCFixture
    ResultsOf <- MCResultsOf
    MaxPasses = 4
    Actors = {"robot", "admin"}
    MaxChanges = 1
INVARIANTS
    WinnersStand
    SlotsFollow
    ProjectionMeetsDraw
    OneOwner
    WindowsDisjoint
    PaysBestFact
    PagesAgree

    
CHECK_DEADLOCK FALSE
