----------------------------- MODULE LeagueSeed -----------------------------
(***************************************************************************)
(* The scripts that load a league and are run again: the Série A's from    *)
(* the rounds of ge.globo (prisma/seed-brasileirao.ts), which writes a     *)
(* match by its place in the list, and the Série B's from ESPN's calendar  *)
(* (prisma/seed-serie-b.ts), which writes it by its event and has to guess *)
(* the rounds.  A run writes match by match, so a throw leaves a prefix.   *)
(* Teams, zones, stadiums and scores are left out.                         *)
(***************************************************************************)
EXTENDS Common, SequencesExt

CONSTANTS
    Table,       \* the games, as a sequence of [round, home, away]
    LeagueDays,  \* the days a game may be set for
    MaxNews      \* bound on the changes of what the sources publish

LeagueGames == DOMAIN Table
SidesOf(g) == {Table[g].home, Table[g].away}
TableRounds == {Table[g].round : g \in LeagueGames}

ASSUME LeagueSeedAssumption ==
    /\ IsFiniteSet(LeagueDays) /\ LeagueDays \subseteq Nat /\ MaxNews \in Nat
    /\ TableRounds = 1 .. Cardinality(TableRounds)

VARIABLES
    division,  \* which script: "serie_a" or "serie_b"
    calendar,  \* what the source says of a game: [day, over]; ge may have no day
    sheets,    \* ge's list of each round
    news,      \* how often they changed
    league,    \* the match rows, a sequence by matchNumber
    loader,    \* the run under way: what it read, and the next game to write
    loaded,    \* history: what the last completed run read
    reordered, \* history: ge changed the order of a round since a run read it
    linkedNow  \* history: the rows the robot linked since the run under way read
               \* their references

leagueVars == <<division, calendar, sheets, news, league, loader, loaded, reordered, linkedNow>>

LeagueInit ==
    /\ division \in {"serie_a", "serie_b"}
    /\ calendar \in [LeagueGames -> [day : IF division = "serie_a" THEN {None} ELSE LeagueDays,
                                     over : {FALSE}]]
    /\ sheets = [r \in TableRounds |-> SetToSortSeq({g \in LeagueGames : Table[g].round = r}, <)]
    /\ news = 0 /\ league = <<>> /\ loader = None /\ loaded = None
    /\ reordered = FALSE /\ linkedNow = {}

-----------------------------------------------------------------------------
(* Faulty variants, for testing the properties. *)

\* the references of a row are written anew
NewReferences(refs, n, g) == None

-----------------------------------------------------------------------------
(* The sources and the robot. *)

SourceMoves ==
    /\ news < MaxNews /\ news' = news + 1
    /\ \/ \E g \in LeagueGames :
            /\ ~calendar[g].over
            /\ \/ \E d \in LeagueDays \ {calendar[g].day} :
                    calendar' = [calendar EXCEPT ![g].day = d]
               \/ calendar[g].day # None /\ calendar' = [calendar EXCEPT ![g].over = TRUE]
            /\ UNCHANGED <<sheets, reordered>>
       \/ \E r \in TableRounds :
            /\ division = "serie_a"
            /\ sheets' = [sheets EXCEPT ![r] = Reverse(@)]
            /\ reordered' = TRUE
            /\ UNCHANGED calendar
    /\ UNCHANGED <<division, league, loader, loaded, linkedNow>>

\* The live robot finds the event by the clubs and stores its id in the row.
RobotLinks(n) ==
    /\ league[n].event = None
    /\ league' = [league EXCEPT ![n].event = league[n].game]
    /\ linkedNow' = IF loader # None THEN linkedNow \cup {n} ELSE linkedNow
    /\ UNCHANGED <<division, calendar, sheets, news, loader, loaded, reordered>>

-----------------------------------------------------------------------------
(* The runs. *)

\* deriveRounds: a new round starts when a club would play twice in it.
TakesPlace(acc, g) ==
    IF SidesOf(g) \cap acc.seen # {}
      THEN [seen |-> SidesOf(g), round |-> acc.round + 1, rounds |-> Append(acc.rounds, acc.round + 1)]
      ELSE [acc EXCEPT !.seen = @ \cup SidesOf(g), !.rounds = Append(@, acc.round)]

ByDate(list) ==
    SetToSortSeq(LeagueGames, LAMBDA f, g : list[f].day < list[g].day \/ (list[f].day = list[g].day /\ f < g))

\* The games of a run in the order it writes them, each with its round.
Entries ==
    IF division = "serie_a"
      THEN FlattenSeq([r \in TableRounds |->
             [i \in DOMAIN sheets[r] |-> [game |-> sheets[r][i], round |-> r]]])
      ELSE LET games == ByDate(calendar)
               rounds == FoldLeft(TakesPlace, [seen |-> {}, round |-> 1, rounds |-> <<>>], games).rounds
           IN [i \in DOMAIN games |-> [game |-> games[i], round |-> rounds[i]]]

\* The run fetches the source's list and then, existingExt, the references of the
\* rows; nothing is written in between.
Loads ==
    /\ loader = None
    /\ loader' = [entries |-> Entries, list |-> calendar, next |-> 1,
                  refs |-> [n \in DOMAIN league |-> league[n].event]]
    /\ linkedNow' = {}
    /\ UNCHANGED <<division, calendar, sheets, news, league, loaded, reordered>>

\* The Série A's row is the place in the list, the Série B's the event's, or a new one.
RowFor(i, g) ==
    IF division = "serie_a" THEN i
      ELSE LET known == {n \in DOMAIN league : league[n].event = g}
           IN IF known # {} THEN CHOOSE n \in known : TRUE ELSE Len(league) + 1

\* { ...existingExt.get(matchNumber), ge }
KeptReference(refs, n, g) == IF n \in DOMAIN refs THEN refs[n] ELSE None

StatusFor(entry) ==
    IF entry.over THEN "FINISHED" ELSE IF entry.day # None THEN "SCHEDULED" ELSE "POSTPONED"

LoadsMatch ==
    /\ loader # None /\ loader.next <= Len(loader.entries)
    /\ LET entry == loader.entries[loader.next]
           g == entry.game
           n == RowFor(loader.next, g)
           row == [game |-> g, round |-> entry.round, status |-> StatusFor(loader.list[g]),
                   event |-> IF division = "serie_a" THEN KeptReference(loader.refs, n, g) ELSE g]
       IN league' = IF n \in DOMAIN league THEN [league EXCEPT ![n] = row] ELSE Append(league, row)
    /\ loader' = [loader EXCEPT !.next = @ + 1]
    /\ UNCHANGED <<division, calendar, sheets, news, loaded, reordered, linkedNow>>

LoadEnds ==
    /\ loader # None /\ loader.next > Len(loader.entries)
    /\ loader' = None /\ loaded' = loader.list /\ linkedNow' = {}
    /\ UNCHANGED <<division, calendar, sheets, news, league, reordered>>

LoadThrows ==
    /\ Faults /\ loader # None
    /\ loader' = None /\ loaded' = None /\ linkedNow' = {}
    /\ UNCHANGED <<division, calendar, sheets, news, league, reordered>>

LeagueNext ==
    \/ SourceMoves \/ Loads \/ LoadsMatch \/ LoadEnds \/ LoadThrows
    \/ \E n \in DOMAIN league : RobotLinks(n)

LeagueSpec == LeagueInit /\ [][LeagueNext]_leagueVars

-----------------------------------------------------------------------------
(* Properties. *)

\* A row keeps the game it shows, which the bets are about, and the event it is
\* linked to, which the live scores come from - except the Série A's rows once ge
\* has listed a round in another order, and a link the robot stored while a run
\* already held the references it would write.
RowsKeepTheirGame ==
    [][\A n \in DOMAIN league :
         /\ league'[n].game # league[n].game => reordered
         /\ (league'[n].event # league[n].event /\ league[n].event # None) => n \in linkedNow]_leagueVars

=============================================================================
