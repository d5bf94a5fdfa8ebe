---------------------------- MODULE ScoredMatch ----------------------------
(***************************************************************************)
(* A match of one round of a season being scored while it is played: the   *)
(* result grows by a goal, or loses one that was annulled, and one         *)
(* prediction is rescored after each change.  Exercises Scoring over every *)
(* prediction, every result and every set of rounds within the bounds.     *)
(***************************************************************************)
EXTENDS Scoring

CONSTANTS
    MaxGoals,   \* bound on the goals of a side, predicted or scored
    Seasons,    \* seasons whose weights are asked for together
    MaxPos      \* rounds of each season

ASSUME ScoredMatchAssumption == MaxGoals \in Nat /\ MaxPos \in Nat

VARIABLES pred, result, rounds, round

vars == <<pred, result, rounds, round>>

Lines == [home : 0..MaxGoals, away : 0..MaxGoals]
\* each season's rounds in order, its group rounds before its knockout rounds
RoundSets ==
    {{[season |-> s, pos |-> p, knockout |-> p > groupRounds[s]] :
        s \in Seasons, p \in 1..MaxPos} : groupRounds \in [Seasons -> 0..MaxPos]}

Init ==
    /\ pred \in Lines
    /\ result = [home |-> 0, away |-> 0]
    /\ rounds \in RoundSets
    /\ round \in rounds

Goal(side) ==
    /\ result[side] < MaxGoals
    /\ result' = [result EXCEPT ![side] = @ + 1]
    /\ UNCHANGED <<pred, rounds, round>>

Annulled(side) ==
    /\ result[side] > 0
    /\ result' = [result EXCEPT ![side] = @ - 1]
    /\ UNCHANGED <<pred, rounds, round>>

Next == \E side \in {"home", "away"} : Goal(side) \/ Annulled(side)

Spec == Init /\ [][Next]_vars

-----------------------------------------------------------------------------
\* The facts about a prediction that the price list of the rules names, stated
\* without any order among them.
Facts ==
    LET decisive == Outcome(pred) = Outcome(result) /\ Outcome(result) # 0
    IN  {t \in ScoredTiers :
            \/ t = "EXACT" /\ pred = result
            \/ t = "WINNER_GOALS" /\ decisive
                                  /\ WinnerGoals(pred) = WinnerGoals(result)
            \/ t = "GOAL_DIFF" /\ decisive /\ Diff(pred) = Diff(result)
            \/ t = "LOSER_GOALS" /\ decisive
                                 /\ LoserGoals(pred) = LoserGoals(result)
            \/ t = "OUTCOME" /\ Outcome(pred) = Outcome(result)}

\* A prediction always earns the best price among the facts it got right, and
\* nothing when it got none: the order of the tests in tierFor never makes a
\* better fact lose to a worse one.
PaysBestFact ==
    LET earned == PointsFor(pred, result, 1)
    IN  IF Facts = {} THEN earned = 0
        ELSE /\ \E f \in Facts : earned = Points[f]
             /\ \A f \in Facts : earned >= Points[f]

\* Which team plays at home is irrelevant to the score: swapping the two sides
\* of both the prediction and the result leaves the tier alone.
SidesAreSymmetric ==
    LET Swap(line) == [home |-> line.away, away |-> line.home]
    IN  TierFor(pred, result) = TierFor(Swap(pred), Swap(result))

\* Hitting the scoreline is the only way to the top price: any other prediction
\* of the same match, whatever its tier, earns strictly less.
OnlyExactPaysMost ==
    \A other \in Lines :
        other # result =>
            PointsFor(other, result, RoundWeight(rounds, round))
              < PointsFor(result, result, RoundWeight(rounds, round))

\* Depth restarts in every season: adding the other seasons to the question
\* changes no weight, and a later round of a season never weighs less than an
\* earlier one nor more than the ceiling.
WeightsArePerSeason ==
    LET own == {r \in rounds : r.season = round.season}
    IN  /\ RoundWeight(rounds, round) = RoundWeight(own, round)
        /\ \A r \in own : r.pos <= round.pos =>
                RoundWeight(rounds, r) <= RoundWeight(rounds, round)
        /\ PhaseCap > 0 => RoundWeight(rounds, round) <= PhaseCap
=============================================================================
