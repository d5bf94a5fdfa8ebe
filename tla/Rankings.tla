------------------------------ MODULE Rankings ------------------------------
(***************************************************************************)
(* The tables of RankingsService over a season being played: the global    *)
(* one and that of a pool's temporada.  The bets and the matches change by *)
(* the rules of the rest of the service; the tables are computed from them *)
(* on demand and kept nowhere.  Every match has both of its teams: one that *)
(* has not takes no bets, an admin's neither, and is on no page of these.  *)
(***************************************************************************)
EXTENDS Common, Scoring, SequencesExt

CONSTANTS
    Bettors,       \* the users who take part
    Leavers,       \* those of them who may leave the pool or be deactivated
    Fixtures,      \* the matches of the season
    RoundOf,       \* the round of each, as Scoring has it
    FirstDates,    \* the kickoff each is announced with
    Guesses,       \* the lines a user may bet
    MaxScore,      \* bound on the goals of a side
    ScoringSides,  \* the sides that score
    LastDate,      \* bound on the clock
    MaxDecrees     \* bound on the bets admins place

ASSUME RankingsAssumption ==
    /\ IsFiniteSet(Bettors) /\ Leavers \subseteq Bettors
    /\ IsFiniteSet(Fixtures) /\ FirstDates \in [Fixtures -> Nat]
    /\ Guesses \subseteq Scoreline /\ ScoringSides \subseteq {"home", "away"}
    /\ MaxScore \in Nat /\ LastDate \in Nat /\ MaxDecrees \in Nat
    /\ None \notin [points : Int, tier : ScoreTier]

VARIABLES
    today,
    fixture,     \* each match: status, kickoff, home, away
    guess,       \* each user's bets: a line for each match they bet on
    enabled,     \* the users who are active
    members,     \* the members of the pool
    temporada,   \* the pool's run: status, startAt, endAt
    decrees      \* how many bets admins placed

rankingsVars == <<today, fixture, guess, enabled, members, temporada, decrees>>

Never == -1   \* a stamp that is not set

RankingsInit ==
    /\ today = 0
    /\ fixture = [f \in Fixtures |-> [status |-> "SCHEDULED", kickoff |-> FirstDates[f],
                                      home |-> 0, away |-> 0]]
    /\ guess = [u \in Bettors |-> <<>>]
    /\ enabled = Bettors
    /\ members = Bettors
    /\ temporada = [status |-> "DRAFT", startAt |-> Never, endAt |-> Never]
    /\ decrees = 0

-----------------------------------------------------------------------------
(* Faulty variants, for testing the properties. *)

\* who has as many points shares the rank
SharesPoints(table, order, i) ==
    i > 1 /\ table[order[i - 1]].points = table[order[i]].points

\* a window that never closes
NoEnd(window, date) == window.startAt = Never \/ date > window.startAt

-----------------------------------------------------------------------------
(* The tables. *)

HasResult(f) == fixture[f].status \in {"LIVE", "FINISHED"}
ScoreOf(f) == [home |-> fixture[f].home, away |-> fixture[f].away]
Weight(f) == RoundWeight({RoundOf[g] : g \in Fixtures}, RoundOf[f])

\* the general table's
NoWindow == [startAt |-> Never, endAt |-> Never]

\* The window is open at its start and closed at its end.
InWindow(window, date) ==
    window.startAt # Never =>
        /\ date > window.startAt
        /\ window.endAt # Never => date <= window.endAt

Counted(window) == {f \in Fixtures : HasResult(f) /\ InWindow(window, fixture[f].kickoff)}

Tier(u, f) == TierFor(guess[u][f], ScoreOf(f))
Earned(u, f) == PointsFor(guess[u][f], ScoreOf(f), Weight(f))

\* Points, the match by match ones together.
Together(points) == MapThenSumSet(LAMBDA f : points[f], DOMAIN points)

\* tournamentRanking: who bet on the season, each with what they add up to.  What
\* is predicted is counted over the whole season, whatever the window.
SeasonTable(scope, window) ==
    [u \in {v \in scope \cap enabled : guess[v] # <<>>} |->
        LET paid == Counted(window) \cap DOMAIN guess[u]
        IN [points |-> Together([f \in paid |-> Earned(u, f)]),
            exact |-> Cardinality({f \in paid : Tier(u, f) = "EXACT"}),
            scored |-> Cardinality(paid),
            predicted |-> Cardinality(DOMAIN guess[u])]]

General == SeasonTable(Bettors, NoWindow)

\* matchRanking: nobody is listed before the bets are revealed
Revealed(f) == HasResult(f) \/ today >= fixture[f].kickoff
MatchTable(scope, f) ==
    [u \in {v \in scope \cap enabled : Revealed(f) /\ f \in DOMAIN guess[v]} |->
        [points |-> IF HasResult(f) THEN Earned(u, f) ELSE 0,
         exact |-> IF HasResult(f) /\ Tier(u, f) = "EXACT" THEN 1 ELSE 0,
         scored |-> IF HasResult(f) THEN 1 ELSE 0,
         predicted |-> 1]]

\* zeroRanking
ZeroTable(scope) ==
    [u \in scope \cap enabled |-> [points |-> 0, exact |-> 0, scored |-> 0, predicted |-> 0]]

\* PoolsService.tournamentRanking, and listRuns
PoolTable ==
    IF temporada.status = "DRAFT" THEN ZeroTable(members) ELSE SeasonTable(members, temporada)

\* buildResponse: the order of the rows, the name last
RowKeys(row) == <<row.points, row.exact, row.scored, row.predicted>>
Ahead(a, b) ==
    \E i \in 1..4 : RowKeys(a)[i] > RowKeys(b)[i] /\ \A j \in 1..(i - 1) : RowKeys(a)[j] = RowKeys(b)[j]
NameOrder == SetToSeq(Bettors)
ByName(u, v) == \E i, j \in DOMAIN NameOrder : i < j /\ NameOrder[i] = u /\ NameOrder[j] = v
Above(table, v) ==
    {u \in DOMAIN table : Ahead(table[u], table[v]) \/ (table[u] = table[v] /\ ByName(u, v))}
Order(table) == InOrder([v \in DOMAIN table |-> Above(table, v)])

\* sameRank: a row that ties with the one before on all but the name
SharesRank(table, order, i) ==
    i > 1 /\ RowKeys(table[order[i - 1]]) = RowKeys(table[order[i]])

\* buildResponse: such a row has the other's rank, the rest have their place.
Ranks(table) ==
    LET order == Order(table)
        rank[i \in DOMAIN order] == IF SharesRank(table, order, i) THEN rank[i - 1] ELSE i
    IN [u \in DOMAIN table |-> rank[CHOOSE i \in DOMAIN order : order[i] = u]]

Champion == IF DOMAIN PoolTable = {} THEN {} ELSE {Order(PoolTable)[1]}

\* StandingsService.forUser: the position of a user in each table they are in
Slider(u) ==
    LET position(table) == IF u \in DOMAIN table THEN Ranks(table)[u] ELSE None
    IN [general |-> position(General), pool |-> position(PoolTable)]

\* withScore: what a bet of a user is worth on their own pages, and on the admin's
BetScore(u, f) ==
    IF HasResult(f) THEN [points |-> Earned(u, f), tier |-> Tier(u, f)] ELSE None

\* findMine, by the match
MyBets(u) == [f \in DOMAIN guess[u] |-> BetScore(u, f)]

\* adminListForUser: every match, bet on or not
AdminList(u) == [f \in Fixtures |-> IF f \in DOMAIN guess[u] THEN BetScore(u, f) ELSE None]

-----------------------------------------------------------------------------
(* What changes under the tables. *)

\* prediction.upsert: a bet is placed, or replaced
Placed(u, f, line) ==
    guess' = [guess EXCEPT ![u] = [g \in DOMAIN @ \cup {f} |-> IF g = f THEN line ELSE @[g]]]

\* PredictionsService.upsert, from acceptsPredictions on
Bet(u, f, line) ==
    /\ u \in enabled
    /\ \/ fixture[f].status = "POSTPONED"
       \/ fixture[f].status = "SCHEDULED" /\ today < fixture[f].kickoff
    /\ Placed(u, f, line)
    /\ UNCHANGED <<today, fixture, enabled, members, temporada, decrees>>

\* adminUpsert: an admin bets for any user, on a match that is closed, live or over too
AdminBet(u, f, line) ==
    /\ decrees < MaxDecrees /\ decrees' = decrees + 1
    /\ Placed(u, f, line)
    /\ UNCHANGED <<today, fixture, enabled, members, temporada>>

\* The robot: the match goes live, gains or loses a goal and ends; a goal may
\* also be corrected once it has ended.
StatusMoves(f) ==
    /\ \/ /\ fixture[f].status = "SCHEDULED" /\ today >= fixture[f].kickoff
          /\ fixture' = [fixture EXCEPT ![f].status = "LIVE"]
       \/ /\ fixture[f].status = "LIVE"
          /\ fixture' = [fixture EXCEPT ![f].status = "FINISHED"]
    /\ UNCHANGED <<today, guess, enabled, members, temporada, decrees>>

ScoreMoves(f, side) ==
    /\ HasResult(f)
    /\ \E goals \in 0..MaxScore : /\ goals - fixture[f][side] \in {-1, 1}
                                  /\ fixture' = [fixture EXCEPT ![f][side] = goals]
    /\ UNCHANGED <<today, guess, enabled, members, temporada, decrees>>

\* The season refresh: a match is postponed, and gets a date that is ahead.
Redated(f) ==
    /\ \/ /\ fixture[f].status = "SCHEDULED"
          /\ fixture' = [fixture EXCEPT ![f].status = "POSTPONED"]
       \/ /\ fixture[f].status = "POSTPONED"
          /\ \E date \in (today + 1)..LastDate :
               fixture' = [fixture EXCEPT ![f].status = "SCHEDULED", ![f].kickoff = date]
    /\ UNCHANGED <<today, guess, enabled, members, temporada, decrees>>

\* PoolsService.startRun, endRun
RunMoves ==
    /\ \/ /\ temporada.status = "DRAFT"
          /\ temporada' = [temporada EXCEPT !.status = "ACTIVE", !.startAt = today]
       \/ /\ temporada.status = "ACTIVE"
          /\ temporada' = [temporada EXCEPT !.status = "ENDED", !.endAt = today]
    /\ UNCHANGED <<today, fixture, guess, enabled, members, decrees>>

\* A member leaves, a user is deactivated.
Departs(u) ==
    /\ \/ u \in members /\ members' = members \ {u} /\ UNCHANGED enabled
       \/ u \in enabled /\ enabled' = enabled \ {u} /\ UNCHANGED members
    /\ UNCHANGED <<today, fixture, guess, temporada, decrees>>

DayPasses ==
    /\ today < LastDate
    /\ today' = today + 1
    /\ UNCHANGED <<fixture, guess, enabled, members, temporada, decrees>>

RankingsNext ==
    \/ \E u \in Leavers : Departs(u)
    \/ \E u \in Bettors, f \in Fixtures, line \in Guesses : Bet(u, f, line) \/ AdminBet(u, f, line)
    \/ \E f \in Fixtures :
          StatusMoves(f) \/ Redated(f) \/ \E side \in ScoringSides : ScoreMoves(f, side)
    \/ RunMoves \/ DayPasses

RankingsSpec == RankingsInit /\ [][RankingsNext]_rankingsVars

-----------------------------------------------------------------------------
(* Properties. *)

Closed == temporada.status = "ENDED"
PlayedInside == [f \in {g \in Fixtures : /\ HasResult(g)
                                   /\ fixture[g].kickoff > temporada.startAt
                                   /\ fixture[g].kickoff <= temporada.endAt} |-> fixture[f]]

\* an admin's bet, of a user on a match, that is new or another
Decreed(u, f) ==
    /\ decrees' = decrees + 1
    /\ f \in DOMAIN guess'[u]
    /\ f \in DOMAIN guess[u] => guess'[u][f] # guess[u][f]

\* What a closed temporada pays is settled by its matches: unless one of them
\* changes, no bet, no later match and no new date gives a member points or takes
\* them - but for an admin's bet, which is not held to the kickoff: it moves the
\* points of the member it is placed for, when it is on one of those matches.
ClosedPointsStand ==
    [][Closed /\ PlayedInside' = PlayedInside =>
          \A u \in DOMAIN PoolTable \cap DOMAIN PoolTable' :
              \/ PoolTable'[u].points = PoolTable[u].points
              \/ \E f \in DOMAIN PlayedInside : Decreed(u, f)]_rankingsVars

ListedPoints(list) == Together([f \in {g \in DOMAIN list : list[g] # None} |-> list[f].points])
MatchTablePoints(u) ==
    Together([f \in {g \in Fixtures : u \in DOMAIN MatchTable(Bettors, g)} |->
                 MatchTable(Bettors, f)[u].points])

\* Each page adds up the points by itself, and all come to the same: a user's row
\* in the general table, their own list of bets, the admin's, and their rows in
\* the tables of the matches.
PointsAgree ==
    \A u \in DOMAIN General :
        /\ General[u].points = ListedPoints(MyBets(u))
        /\ General[u].points = ListedPoints(AdminList(u))
        /\ General[u].points = MatchTablePoints(u)

PeopleAhead(table, u) == {v \in DOMAIN table : Ahead(table[v], table[u])}

\* The pages agree on the points, and the position they show is the number of
\* people ahead and one: who ties on everything shares it, whatever their names.
PagesAgree ==
    /\ PointsAgree
    /\ \A f \in Fixtures : LET table == MatchTable(members, f)
                            IN \A u \in DOMAIN table :
                                 Ranks(table)[u] = 1 + Cardinality(PeopleAhead(table, u))
    /\ \A u \in DOMAIN General :
          Slider(u).general = 1 + Cardinality(PeopleAhead(General, u))
    /\ \A u \in DOMAIN PoolTable :
          Slider(u).pool = 1 + Cardinality(PeopleAhead(PoolTable, u))

Decided ==
    /\ Closed /\ \E u \in Champion : PoolTable[u].points > 0
    /\ \A f \in DOMAIN PlayedInside : PlayedInside[f].status = "FINISHED"

\* "Close an ACTIVE temporada - freezes the window; champion is final"
\* (pools.service.ts): once a closed temporada has a champion with points and its
\* matches are all over, the champion is the same as long as those matches stay as
\* they are and nobody departs.
ChampionIsFinal ==
    [][Decided /\ PlayedInside' = PlayedInside /\ UNCHANGED <<members, enabled>>
           => Champion' = Champion]_rankingsVars
=============================================================================
