------------------------------ MODULE Scoring ------------------------------
(***************************************************************************)
(* The scoring rules of the pool: ScoringService (src/src/scoring/         *)
(* scoring.service.ts) and PhaseWeightService (phase-weight.service.ts).   *)
(* A scoreline is a record [home, away]; the points a tier pays and the    *)
(* two phase parameters come from the SCORING_* environment, so they are   *)
(* constants.  Pure operators: this module has no state.                   *)
(***************************************************************************)
EXTENDS Integers, FiniteSets

CONSTANTS
    Points,     \* points paid by each scored tier (SCORING_EXACT, ...)
    PhaseStep,  \* weight added per knockout round (SCORING_PHASE_STEP)
    PhaseCap    \* ceiling of the weight, 0 = none (SCORING_PHASE_CAP)

ScoredTiers == {"EXACT", "WINNER_GOALS", "GOAL_DIFF", "LOSER_GOALS", "OUTCOME"}
ScoreTier == ScoredTiers \cup {"NONE"}
Scoreline == [home : Nat, away : Nat]

\* envInt yields any integer; a negative price or step is no pool's setting.
ASSUME ScoringAssumption ==
    /\ Points \in [ScoredTiers -> Nat]
    /\ PhaseStep \in Nat
    /\ PhaseCap \in Int

Sign(n) == IF n > 0 THEN 1 ELSE IF n < 0 THEN -1 ELSE 0
Diff(line) == line.home - line.away
Outcome(line) == Sign(Diff(line))
WinnerGoals(line) == IF Outcome(line) > 0 THEN line.home ELSE line.away
LoserGoals(line) == IF Outcome(line) > 0 THEN line.away ELSE line.home

-----------------------------------------------------------------------------
\* Faulty variants of the definitions below, for testing the properties.

\* an inexact draw falls through to the tiers of a decisive result
TierForWithoutDrawCase(pred, res) ==
    IF Outcome(pred) # Outcome(res) THEN "NONE"
    ELSE IF pred = res THEN "EXACT"
    ELSE IF WinnerGoals(pred) = WinnerGoals(res) THEN "WINNER_GOALS"
    ELSE IF Diff(pred) = Diff(res) THEN "GOAL_DIFF"
    ELSE IF LoserGoals(pred) = LoserGoals(res) THEN "LOSER_GOALS"
    ELSE "OUTCOME"

-----------------------------------------------------------------------------
\* tierFor: the outcome is the gate; past it, the first fact of the priority
\* list that holds names the tier.
TierFor(pred, res) ==
    IF Outcome(pred) # Outcome(res) THEN "NONE"
    ELSE IF pred = res THEN "EXACT"
    ELSE IF Outcome(res) = 0 THEN "OUTCOME"
    ELSE IF WinnerGoals(pred) = WinnerGoals(res) THEN "WINNER_GOALS"
    ELSE IF Diff(pred) = Diff(res) THEN "GOAL_DIFF"
    ELSE IF LoserGoals(pred) = LoserGoals(res) THEN "LOSER_GOALS"
    ELSE "OUTCOME"

\* score: base points of the tier times the weight of the match's phase
PointsFor(pred, res, weight) ==
    LET tier == TierFor(pred, res)
    IN  (IF tier = "NONE" THEN 0 ELSE Points[tier]) * weight

\* phaseWeight
PhaseWeight(depth) ==
    LET raw == 1 + (IF depth > 0 THEN depth ELSE 0) * PhaseStep
        cap == IF PhaseCap > 1 THEN PhaseCap ELSE 1
    IN  IF PhaseCap > 0 /\ cap < raw THEN cap ELSE raw

\* PhaseWeightService.byRound: the depth of a knockout round is its place among
\* the knockout rounds of its season.  rounds is a set of [season, pos,
\* knockout]; pos orders a season's rounds by stage and then by round.
DepthOf(rounds, r) ==
    1 + Cardinality({q \in rounds : /\ q.knockout
                                    /\ q.season = r.season
                                    /\ q.pos < r.pos})

\* map.get(roundId) ?? 1
RoundWeight(rounds, r) ==
    IF r.knockout THEN PhaseWeight(DepthOf(rounds, r)) ELSE 1
=============================================================================
