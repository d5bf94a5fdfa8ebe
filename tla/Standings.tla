----------------------------- MODULE Standings -----------------------------
(***************************************************************************)
(* The table of a group: StandingsService.computeTable                     *)
(* (src/src/structure/standings.service.ts).  Pure operators over a set of  *)
(* matches [id, home, away, homeScore, awayScore, homeFairPlay,            *)
(* awayFairPlay], the finished and live ones of the group.  The order of   *)
(* the table is a relation between two teams; a position is the number of  *)
(* teams ahead.  Form and percentages order nothing and are left out.  The *)
(* fair-play points of a match come from its cards, as parseDiscipline     *)
(* (src/src/live-ingest/espn.service.ts) sums them.                        *)
(***************************************************************************)
EXTENDS Integers, Sequences, FiniteSetsExt, Unset

CONSTANTS NameRank  \* the alphabetical order of the teams' names

\* PRESET_CRITERIA
Criteria == [
    GENERIC     |-> <<"GOAL_DIFF", "GOALS_FOR", "FAIR_PLAY">>,
    BRASILEIRAO |-> <<"WINS", "GOAL_DIFF", "GOALS_FOR", "H2H_POINTS", "FAIR_PLAY">>,
    FIFA        |-> <<"GOAL_DIFF", "GOALS_FOR", "H2H_POINTS", "H2H_GOAL_DIFF",
                      "H2H_GOALS_FOR", "FAIR_PLAY">>,
    UEFA        |-> <<"H2H_POINTS", "H2H_GOAL_DIFF", "H2H_GOALS_FOR", "GOAL_DIFF",
                      "GOALS_FOR", "FAIR_PLAY">>,
    CONMEBOL    |-> <<"GOAL_DIFF", "GOALS_FOR", "FAIR_PLAY">>]

-----------------------------------------------------------------------------
(* Discipline: a booking is [side, player, cards], the cards it shows among  *)
(* "yellow" and "red", its player None when ESPN names nobody.               *)

\* playerFairPlay: ESPN shows a second yellow as a red card.
PlayerFairPlay(yellows, reds) ==
    CASE reds = 0 /\ yellows = 0 -> 0
      [] reds = 0 /\ yellows = 1 -> -1
      [] reds > 0 /\ yellows = 0 -> -4
      [] OTHER -> -3

\* parseDiscipline: a booking that names nobody is a player of its own.
Discipline(bookings, side) ==
    LET own == {i \in DOMAIN bookings : bookings[i].side = side /\ bookings[i].cards # {}}
        player(i) == IF bookings[i].player = None THEN <<i>> ELSE <<bookings[i].player, side>>
        shown(p, card) == Cardinality({i \in own : player(i) = p /\ card \in bookings[i].cards})
    IN MapThenSumSet(LAMBDA p : PlayerFairPlay(shown(p, "yellow"), shown(p, "red")),
                     {player(i) : i \in own})

-----------------------------------------------------------------------------
\* What the amounts add up to.
SumOf(amounts) == MapThenSumSet(LAMBDA k : amounts[k], DOMAIN amounts)

Among(matches, teams) == {m \in matches : {m.home, m.away} \subseteq teams}
Of(matches, t) == {m \in matches : t \in {m.home, m.away}}

For(m, t) == IF m.home = t THEN m.homeScore ELSE m.awayScore
Against(m, t) == IF m.home = t THEN m.awayScore ELSE m.homeScore
PointsIn(m, t) == IF For(m, t) > Against(m, t) THEN 3
                  ELSE IF For(m, t) = Against(m, t) THEN 1 ELSE 0

TablePoints(matches, t) == MapThenSumSet(LAMBDA m : PointsIn(m, t), Of(matches, t))
GoalsFor(matches, t) == MapThenSumSet(LAMBDA m : For(m, t), Of(matches, t))
GoalDiff(matches, t) ==
    MapThenSumSet(LAMBDA m : For(m, t) - Against(m, t), Of(matches, t))
Wins(matches, t) == Cardinality({m \in Of(matches, t) : PointsIn(m, t) = 3})
FairPlay(matches, t) ==
    MapThenSumSet(LAMBDA m : IF m.home = t THEN m.homeFairPlay ELSE m.awayFairPlay,
                  Of(matches, t))

\* The teams level on points with t, whom the criteria tell apart.
Block(teams, matches, t) ==
    {u \in teams : TablePoints(matches, u) = TablePoints(matches, t)}

\* valueOf
Value(criterion, block, matches, t) ==
    LET h2h == Among(matches, block)
    IN  CASE criterion = "WINS" -> Wins(matches, t)
          [] criterion = "GOAL_DIFF" -> GoalDiff(matches, t)
          [] criterion = "GOALS_FOR" -> GoalsFor(matches, t)
          [] criterion = "H2H_POINTS" -> TablePoints(h2h, t)
          [] criterion = "H2H_GOAL_DIFF" -> GoalDiff(h2h, t)
          [] criterion = "H2H_GOALS_FOR" -> GoalsFor(h2h, t)
          [] criterion = "FAIR_PLAY" -> FairPlay(matches, t)

\* What a team is ranked by: points, then the criteria among its block, then the
\* name.  sort and breakBlockTie put the lexicographically greatest first.
Keys(preset, teams, own) ==
    [t \in teams |->
        LET block == Block(teams, own, t)
        IN  <<TablePoints(own, t)>>
              \o [i \in DOMAIN Criteria[preset] |->
                    Value(Criteria[preset][i], block, own, t)]
              \o <<-NameRank[t]>>]

Greater(k, l) == \E i \in DOMAIN k : k[i] > l[i] /\ \A j \in 1..(i - 1) : k[j] = l[j]

\* computeTable: the place of each team in a group's table.
Table(preset, teams, matches) ==
    LET keys == Keys(preset, teams, Among(matches, teams))
    IN  [t \in teams |-> 1 + Cardinality({u \in teams : Greater(keys[u], keys[t])})]
=============================================================================
