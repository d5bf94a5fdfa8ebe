------------------------------- MODULE MCGame -------------------------------
(* The game: the bracket of a season, and what a pool makes of it - its      *)
(* members, its temporadas, the points of a prediction, the tables.  The     *)
(* components share no state, so each behaviour is one of them, chosen at    *)
(* the start, and the others stand still.                                    *)
EXTENDS MCBracket, PoolMembers, PoolRuns, ScoredMatch, Rankings

\* the default prices of scoring.service.ts
DefaultPoints == [EXACT |-> 25, WINNER_GOALS |-> 18, GOAL_DIFF |-> 15,
                  LOSER_GOALS |-> 12, OUTCOME |-> 10]

\* one match of the group stage and one of a knockout, of a season
MCRoundOf == ("m1" :> [season |-> 1, pos |-> 1, knockout |-> FALSE])
          @@ ("m2" :> [season |-> 1, pos |-> 2, knockout |-> TRUE])
MCFirstDates == ("m1" :> 1) @@ ("m2" :> 2)
MCGuesses == {[home |-> 1, away |-> 0]}

VARIABLE part

InitGame ==
    /\ part \in {"bracket", "members", "temporadas", "scoring", "rankings"}
    /\ BracketInit /\ MembersInit /\ RunsInit /\ RankingsInit
    /\ IF part = "scoring" THEN Init
       ELSE /\ pred = [home |-> 0, away |-> 0] /\ result = pred
            /\ rounds = {[season |-> s, pos |-> 1, knockout |-> FALSE] : s \in Seasons}
            /\ round \in rounds /\ \A s \in Seasons : round.season <= s

InPart(p, others) == part = p /\ UNCHANGED <<others, part>>

NextGame ==
    \/ InPart("bracket", <<membersVars, runsVars, vars, rankingsVars>>) /\ BracketNext
    \/ InPart("members", <<bracketVars, runsVars, vars, rankingsVars>>) /\ MembersNext
    \/ InPart("temporadas", <<bracketVars, membersVars, vars, rankingsVars>>) /\ RunsNext
    \/ InPart("scoring", <<bracketVars, membersVars, runsVars, rankingsVars>>) /\ Next
    \/ InPart("rankings", <<bracketVars, membersVars, runsVars, vars>>) /\ RankingsNext

SpecGame ==
    /\ InitGame
    /\ [][NextGame]_<<part, bracketVars, membersVars, runsVars, vars, rankingsVars>>
=============================================================================
