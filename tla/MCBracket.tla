------------------------------ MODULE MCBracket ------------------------------
(***************************************************************************)
(* Two groups of two; a two-legged semifinal between the winner of A and    *)
(* the best second; a final with the winner of B; a third-place match of    *)
(* the semifinal's loser against a team that waits for it, ordered before   *)
(* it: its feeder answers one pass later.                                   *)
(***************************************************************************)
EXTENDS Bracket, TLC

CONSTANTS a1, a2, b1, b2, host

MCTeams == {a1, a2, b1, b2, host}
MCNameRank == a1 :> 1 @@ a2 :> 2 @@ b1 :> 3 @@ b2 :> 4 @@ host :> 5
MCGroups == {"A", "B"}
MCTeamsOf == [A |-> {a1, a2}, B |-> {b1, b2}]
MCGroupMatches == [A |-> {"gA"}, B |-> {"gB"}]
MCAnnex == [best \in SUBSET MCGroups |-> [winner \in MCGroups |-> Only(best)]]

MCTieOrder == <<"third", "semi", "final">>
MCSource == [
    semi  |-> [home |-> [type |-> "GROUP_POSITION", group |-> "A", position |-> 1],
               away |-> [type |-> "BEST_RANKED", winnerGroup |-> "A"]],
    third |-> [home |-> [type |-> "MATCH_LOSER", tie |-> "semi"], away |-> None],
    final |-> [home |-> [type |-> "MATCH_WINNER", tie |-> "semi"],
               away |-> [type |-> "GROUP_POSITION", group |-> "B", position |-> 1]]]
Empty == [home |-> None, away |-> None]
MCSeeded == [semi |-> Empty, third |-> [home |-> None, away |-> host], final |-> Empty]
MCLegs == [semi |-> <<"semi1", "semi2">>, third |-> <<"third">>, final |-> <<"final">>]
MCFixture == [gA |-> [home |-> a1, away |-> a2], gB |-> [home |-> b1, away |-> b2],
              semi1 |-> Empty, semi2 |-> Empty,
              third |-> [home |-> None, away |-> host], final |-> Empty]

Score(h, a) == [home |-> h, away |-> a, pens |-> None, bookings |-> <<>>]

\* level, and the guests ahead on their cards: a player booked twice is sent off
Shown(side, player, card) == [side |-> side, player |-> player, cards |-> {card}]
Booked == [Score(1, 1) EXCEPT !.bookings =
              <<Shown("home", "p", "yellow"), Shown("away", "q", "yellow"),
                Shown("home", "p", "red"), Shown("away", None, "yellow")>>]
MCResultsOf == [
    gA |-> {Score(1, 2)}, gB |-> {Score(2, 0), Booked},
    semi1 |-> {Score(1, 0)},
    semi2 |-> {Score(0, 0), [Score(1, 0) EXCEPT !.pens = "home"]},
    third |-> {}, final |-> {Score(1, 0)}]
==============================================================================
