------------------------------ MODULE CupSeed ------------------------------
(***************************************************************************)
(* The scripts that load a cup from ESPN's fixture list and are run again  *)
(* as it publishes more of it: prisma/seed-libertadores.ts (the            *)
(* Sudamericana's is the same with other rounds) and                       *)
(* prisma/seed-copa-do-brasil.ts, while the robot moves the matches.  A    *)
(* run is one process and writes row by row, so a throw leaves a prefix of *)
(* its writes; nobody starts two at once.  The group stage, stadiums,      *)
(* crests and names are left out.                                          *)
(***************************************************************************)
EXTENDS Common, SequencesExt

CONSTANTS
    Fixture,     \* ESPN's events, as a sequence of [round, home, away]
    CupRounds,   \* the rounds in order, as [slug, ties]: the ties shown before
                 \* ESPN has any
    Days,        \* the days a match may be set for
    MaxMoves     \* bound on the changes of ESPN's list

CupEvents == DOMAIN Fixture
PairOf(e) == {Fixture[e].home, Fixture[e].away}
ClubsOf(events) == UNION {PairOf(e) : e \in events}
RoundOf(e) == CHOOSE r \in DOMAIN CupRounds : CupRounds[r].slug = Fixture[e].round

\* a match row of the season's
GameRow == [tie : (DOMAIN CupRounds) \X Nat, leg : Nat, day : Days, number : Nat,
            status : {"SCHEDULED", "LIVE", "FINISHED"}]

\* what ESPN may list - overtime stands for all it says of extra time and shootouts under
\* way - and what a run writes
EndStatuses == {"FULL_TIME", "FINAL_AET", "FINAL_PEN"}
ListedEvent == [day : Days, status : {"SCHEDULED", "IN_PROGRESS", "OVERTIME"} \cup EndStatuses]
CupWrite ==
    [to : {"club"}, club : ClubsOf(CupEvents)]
      \cup [to : {"tie"}, at : (DOMAIN CupRounds) \X Nat, first : CupEvents]
      \cup [to : {"placeholder"}, at : (DOMAIN CupRounds) \X Nat]
      \cup [to : {"game"}, event : CupEvents]
CupRun == [list : [CupEvents -> {None} \cup ListedEvent], left : Seq(CupWrite)]

ASSUME CupSeedAssumption ==
    /\ Len(Fixture) \in Nat /\ CupEvents = 1 .. Len(Fixture)
    /\ Len(CupRounds) \in Nat /\ DOMAIN CupRounds = 1 .. Len(CupRounds)
    /\ \A r \in DOMAIN CupRounds : CupRounds[r].ties \in Nat
    /\ \A e \in CupEvents : \E r \in DOMAIN CupRounds : CupRounds[r].slug = Fixture[e].round
    /\ IsFiniteSet(Days) /\ Days \subseteq Nat /\ MaxMoves \in Nat
    /\ None \notin GameRow /\ None \notin CupRun

VARIABLES
    cup,      \* which script: "libertadores" or "copa_do_brasil"
    listed,   \* ESPN's list: for each event None or [day, status]
    moves,    \* how often it changed
    clubs,    \* the clubs of the catalogue
    ties,     \* the rows, a function of <<round, order>>
    games,    \* the match row of each event, None without one
    script,   \* the run under way: the list it read and the writes it has left
    mirrored, \* history: the list the last completed run read
    late      \* history: the matches the robot finished since the run under way
              \* read the list

cupVars == <<cup, listed, moves, clubs, ties, games, script, mirrored, late>>

CupInit ==
    /\ cup \in {"libertadores", "copa_do_brasil"}
    /\ listed \in [CupEvents -> {None} \cup [day : Days, status : {"SCHEDULED"}]] /\ moves = 0
    /\ clubs \in {{}, ClubsOf(CupEvents)}
    /\ ties = <<>>
    /\ games = [e \in CupEvents |-> None]
    /\ script = None /\ mirrored = None /\ late = {}

-----------------------------------------------------------------------------
(* Faulty variants, for testing the properties. *)

\* a shootout ends no match
NoShootouts(c) == {"FULL_TIME"}

\* the legs are numbered as ESPN lists them
LegAsListed(list, e) == 1 + Cardinality({f \in CupEvents : list[f] # None /\ PairOf(f) = PairOf(e)
                                           /\ Fixture[f].round = Fixture[e].round /\ f < e})

-----------------------------------------------------------------------------
(* ESPN and the robot. *)

ListMoves ==
    /\ moves < MaxMoves /\ moves' = moves + 1
    /\ \E e \in CupEvents :
         \/ \E d \in Days :
              /\ listed[e] # None => listed[e].status = "SCHEDULED" /\ listed[e].day # d
              /\ listed' = [listed EXCEPT ![e] = [day |-> d, status |-> "SCHEDULED"]]
         \/ /\ listed[e] # None
            /\ \E s \in CASE listed[e].status = "SCHEDULED" -> {"IN_PROGRESS"} \cup EndStatuses
                          [] listed[e].status = "IN_PROGRESS" -> {"OVERTIME"} \cup EndStatuses
                          [] listed[e].status = "OVERTIME" -> EndStatuses \ {"FULL_TIME"}
                          [] OTHER -> {} :
                 listed' = [listed EXCEPT ![e].status = s]
    /\ UNCHANGED <<cup, clubs, ties, games, script, mirrored, late>>

Ended(status) == status \in EndStatuses

\* The robot finds the match by its event and only moves it on.
RobotMoves(e) ==
    /\ games[e] # None /\ listed[e] # None
    /\ \/ /\ listed[e].status \in {"IN_PROGRESS", "OVERTIME"} /\ games[e].status = "SCHEDULED"
          /\ games' = [games EXCEPT ![e].status = "LIVE"]
          /\ UNCHANGED late
       \/ /\ Ended(listed[e].status) /\ games[e].status # "FINISHED"
          /\ games' = [games EXCEPT ![e].status = "FINISHED"]
          /\ late' = IF script # None THEN late \cup {e} ELSE late
    /\ UNCHANGED <<cup, listed, moves, clubs, ties, script, mirrored>>

\* prisma/seed-clubs.ts, which the scripts ask for; a league it could not fetch leaves
\* clubs missing, as if it had not been run
SeedClubs ==
    /\ clubs # ClubsOf(CupEvents)
    /\ clubs' = ClubsOf(CupEvents)
    /\ UNCHANGED <<cup, listed, moves, ties, games, script, mirrored, late>>

-----------------------------------------------------------------------------
(* What a run makes of the list it read. *)

Read(list) == {e \in CupEvents : list[e] # None}

\* sorted by date; events of one day stay as ESPN lists them
Before(list, e, f) == list[e].day < list[f].day \/ (list[e].day = list[f].day /\ e < f)

Legs(list, e) == {f \in Read(list) : RoundOf(f) = RoundOf(e) /\ PairOf(f) = PairOf(e)}
IsFirstLeg(list, e) == ~\E f \in Legs(list, e) : Before(list, f, e)
FirstLegs(list, r) == {e \in Read(list) : RoundOf(e) = r /\ IsFirstLeg(list, e)}

\* legByEvent
LegOf(list, e) == 1 + Cardinality({f \in Legs(list, e) : Before(list, f, e)})

\* tieIdByEvent: the ties of a round are ordered by their first legs
TieOf(list, e) ==
    LET first == CHOOSE f \in Legs(list, e) : IsFirstLeg(list, f)
    IN <<RoundOf(e), 1 + Cardinality({f \in FirstLegs(list, RoundOf(e)) : Before(list, f, first)})>>

\* STATUS_MAP; a status it does not have, an end in extra time among them, leaves the
\* match SCHEDULED
FinalStatuses(c) == IF c = "copa_do_brasil" THEN {"FULL_TIME", "FINAL_PEN"} ELSE {"FULL_TIME"}
MappedStatus(status) ==
    IF status \in FinalStatuses(cup) THEN "FINISHED"
      ELSE IF status = "IN_PROGRESS" THEN "LIVE" ELSE "SCHEDULED"

Chronological(list, events) ==
    InOrder([f \in events |-> {e \in events : Before(list, e, f)}])

\* A tie for each pair, or placeholders while ESPN has none of the round.
TieWrites(list, r) ==
    LET firsts == Chronological(list, FirstLegs(list, r))
    IN IF firsts # <<>>
         THEN [i \in DOMAIN firsts |-> [to |-> "tie", at |-> <<r, i>>, first |-> firsts[i]]]
         ELSE [o \in 1 .. CupRounds[r].ties |-> [to |-> "placeholder", at |-> <<r, o>>]]

\* The clubs that are missing are created by the Copa do Brasil's script only.
ClubWrites(list) ==
    [i \in DOMAIN SetToSeq(ClubsOf(Read(list)) \ clubs) |->
       [to |-> "club", club |-> SetToSeq(ClubsOf(Read(list)) \ clubs)[i]]]

GameWrites(list) ==
    LET events == Chronological(list, Read(list))
    IN [i \in DOMAIN events |-> [to |-> "game", event |-> events[i]]]

CupWrites(list) ==
    ClubWrites(list)
      \o FlattenSeq([r \in DOMAIN CupRounds |-> TieWrites(list, r)])
      \o GameWrites(list)

\* The Libertadores' script throws before its first write when a club is missing.
Run ==
    /\ script = None
    /\ cup = "copa_do_brasil" \/ ClubsOf(Read(listed)) \subseteq clubs
    /\ script' = [list |-> listed, left |-> CupWrites(listed)]
    /\ late' = {}
    /\ UNCHANGED <<cup, listed, moves, clubs, ties, games, mirrored>>

\* matchByEspn, or ++maxNum
NumberOf(e) ==
    IF games[e] # None THEN games[e].number
      ELSE 1 + Max({0} \cup {games[f].number : f \in {g \in CupEvents : games[g] # None}})

\* The rows with one more, or one changed.
WithRow(rows, at, row) == [k \in DOMAIN rows \cup {at} |-> IF k = at THEN row ELSE rows[k]]

Write ==
    /\ script # None /\ script.left # <<>>
    /\ LET w == Head(script.left)
           list == script.list
       IN /\ clubs' = IF w.to = "club" THEN clubs \cup {w.club} ELSE clubs
          /\ ties' =
               CASE w.to = "tie" ->
                      WithRow(ties, w.at, [home |-> Fixture[w.first].home, away |-> Fixture[w.first].away])
                 [] w.to = "placeholder" /\ w.at \notin DOMAIN ties ->
                      WithRow(ties, w.at, [home |-> None, away |-> None])
                 [] OTHER -> ties
          /\ games' =
               IF w.to # "game" THEN games
                 ELSE [games EXCEPT ![w.event] =
                         [tie |-> TieOf(list, w.event), leg |-> LegOf(list, w.event),
                          day |-> list[w.event].day, number |-> NumberOf(w.event),
                          status |-> MappedStatus(list[w.event].status)]]
    /\ script' = [script EXCEPT !.left = Tail(@)]
    /\ UNCHANGED <<cup, listed, moves, mirrored, late>>

Done ==
    /\ script # None /\ script.left = <<>>
    /\ script' = None /\ mirrored' = script.list /\ late' = {}
    /\ UNCHANGED <<cup, listed, moves, clubs, ties, games>>

\* A request or a write throws.
RunThrows ==
    /\ Faults /\ script # None
    /\ script' = None /\ mirrored' = None /\ late' = {}
    /\ UNCHANGED <<cup, listed, moves, clubs, ties, games>>

CupNext ==
    \/ ListMoves \/ SeedClubs \/ Run \/ Write \/ Done \/ RunThrows
    \/ \E e \in CupEvents : RobotMoves(e)

CupSpec == CupInit /\ [][CupNext]_cupVars

-----------------------------------------------------------------------------
(* Properties. *)

\* Whatever earlier runs left half written, and however ESPN moved its dates in
\* between, after a completed run every event it read is one match with a number
\* of its own, the events of one pair are the legs of one tie in the order they
\* are played, and a tie holds the sides of its first leg and no other pair's.
SeedMirrorsList ==
    (script = None /\ mirrored # None) =>
       LET list == mirrored IN
       /\ \A e \in Read(list) : games[e] # None /\ games[e].day = list[e].day
       /\ \A e, f \in Read(list) :
            /\ games[e].number = games[f].number => e = f
            /\ games[e].tie = games[f].tie <=> RoundOf(e) = RoundOf(f) /\ PairOf(e) = PairOf(f)
            /\ (games[e].tie = games[f].tie /\ list[e].day < list[f].day) =>
                 games[e].leg < games[f].leg
       /\ \A e \in Read(list) :
            LET t == ties[games[e].tie] IN
            /\ {t.home, t.away} = PairOf(e)
            /\ games[e].leg = 1 => t.home = Fixture[e].home
       /\ \A r \in {n \in DOMAIN CupRounds : \A e \in Read(list) : RoundOf(e) # n} :
            \A o \in 1 .. CupRounds[r].ties : <<r, o>> \in DOMAIN ties

\* A finished match is reopened only by a run that read ESPN's list before the
\* end, or whose STATUS_MAP does not know that end: none knows an end in extra
\* time, and the Libertadores' and the Sudamericana's do not know one on penalties.
ResultsStand ==
    [][\A e \in CupEvents :
         (games[e] # None /\ games[e].status = "FINISHED" /\ games'[e].status # "FINISHED") =>
            \/ e \in late
            \/ script.list[e].status = "FINAL_AET"
            \/ cup = "libertadores" /\ script.list[e].status = "FINAL_PEN"]_cupVars
=============================================================================
