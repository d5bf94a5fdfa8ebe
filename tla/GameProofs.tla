----------------------------- MODULE GameProofs -----------------------------
(***************************************************************************)
(* The game: what a prediction is paid, and who goes through.              *)
(*                                                                         *)
(* First the scoring rules, for every scoreline, every price list and      *)
(* every depth.  The two facts about prices need the list to fall with the *)
(* priority of the tiers, which the environment could break: the theorems  *)
(* that use it say so.                                                     *)
(*                                                                         *)
(* Then the knockout bracket, for any ties, feeders, legs and results, any *)
(* number of passes and of corrections, and however the resolveSeason of   *)
(* the robot and of the admin overlap and crash: WinnersAlwaysStand, and,  *)
(* with two passes at least, SlotsAlwaysFollow.  Last the bracket that the *)
(* pages project, ProjectionAlwaysMeetsDraw.                               *)
(***************************************************************************)
EXTENDS Bracket, ScoredMatch, NumberProofs, FiniteSetTheorems, TLAPS

PricesFall ==
    /\ Points["EXACT"] > Points["WINNER_GOALS"]
    /\ Points["WINNER_GOALS"] > Points["GOAL_DIFF"]
    /\ Points["GOAL_DIFF"] > Points["LOSER_GOALS"]
    /\ Points["LOSER_GOALS"] > Points["OUTCOME"]

Swap(line) == [home |-> line.away, away |-> line.home]

\* Only the scoreline itself is EXACT (tierFor's second test).
LEMMA ExactIffEqual ==
    ASSUME NEW p \in Scoreline, NEW r \in Scoreline
    PROVE  TierFor(p, r) = "EXACT" <=> p = r
BY DEF TierFor, Outcome, Scoreline

\* A prediction scores nothing exactly when it missed the winner or the draw.
LEMMA NoneIffOutcomeMissed ==
    ASSUME NEW p \in Scoreline, NEW r \in Scoreline
    PROVE  TierFor(p, r) = "NONE" <=> Outcome(p) # Outcome(r)
BY DEF TierFor, Outcome, Scoreline

LEMMA TierType ==
    ASSUME NEW p \in Scoreline, NEW r \in Scoreline
    PROVE  TierFor(p, r) \in ScoreTier
BY DEF TierFor, ScoreTier, ScoredTiers

\* Swapping the sides of both lines leaves the tier alone.
LEMMA TierSymmetric ==
    ASSUME NEW p \in Scoreline, NEW r \in Scoreline
    PROVE  TierFor(Swap(p), Swap(r)) = TierFor(p, r)
<1>1. p.home \in Nat /\ p.away \in Nat /\ r.home \in Nat /\ r.away \in Nat
  BY DEF Scoreline
<1>2. Swap(p) = Swap(r) <=> p = r
  BY DEF Scoreline, Swap
<1>3. QED
  BY <1>1, <1>2
  DEF TierFor, Outcome, Sign, Diff, WinnerGoals, LoserGoals, Swap

\* Any other prediction is paid strictly less than the exact one.
LEMMA ExactPaysMost ==
    ASSUME NEW p \in Scoreline, NEW r \in Scoreline, p # r, PricesFall,
           NEW w \in Nat \ {0}
    PROVE  PointsFor(p, r, w) < PointsFor(r, r, w)
<1> DEFINE base == IF TierFor(p, r) = "NONE" THEN 0 ELSE Points[TierFor(p, r)]
<1>1. TierFor(r, r) = "EXACT" /\ TierFor(p, r) \in ScoreTier \ {"EXACT"}
  BY ExactIffEqual, TierType
<1>2. \A t \in ScoredTiers : Points[t] \in Nat
  BY ScoringAssumption
<1>3. base \in Nat /\ Points["EXACT"] \in Nat /\ base < Points["EXACT"]
  BY <1>1, <1>2 DEF PricesFall, ScoreTier, ScoredTiers
<1>4. PointsFor(p, r, w) = base * w /\ PointsFor(r, r, w) = Points["EXACT"] * w
  BY <1>1 DEF PointsFor
<1>5. \A a, b \in Nat : a < b => a * w < b * w
  OBVIOUS
<1>6. QED
  BY <1>3, <1>4, <1>5

LEMMA WeightBounds ==
    ASSUME NEW d \in Int
    PROVE  /\ PhaseWeight(d) \in Nat \ {0}
           /\ PhaseCap > 0 => PhaseWeight(d) <= PhaseCap
           /\ d <= 0 => PhaseWeight(d) = 1
<1> DEFINE up == (IF d > 0 THEN d ELSE 0) * PhaseStep
<1>1. PhaseStep \in Nat /\ PhaseCap \in Int
  BY ScoringAssumption
<1>2. up \in Nat /\ (d <= 0 => up = 0)
  BY <1>1
<1> HIDE DEF up
<1>3. PhaseWeight(d) = (IF PhaseCap > 0 /\ (IF PhaseCap > 1 THEN PhaseCap ELSE 1) < 1 + up
                        THEN IF PhaseCap > 1 THEN PhaseCap ELSE 1 ELSE 1 + up)
  BY DEF PhaseWeight, up
<1>4. QED
  BY <1>1, <1>2, <1>3

\* A deeper knockout round never weighs less.
LEMMA WeightMonotone ==
    ASSUME NEW d \in Int, NEW e \in Int, d <= e
    PROVE  PhaseWeight(d) <= PhaseWeight(e)
<1> DEFINE Up(x) == (IF x > 0 THEN x ELSE 0) * PhaseStep
<1>1. PhaseStep \in Nat /\ PhaseCap \in Int
  BY ScoringAssumption
<1>2. \A a, b, c \in Nat : a <= b => a * c <= b * c
  OBVIOUS
<1>3. Up(d) \in Nat /\ Up(e) \in Nat /\ Up(d) <= Up(e)
  BY <1>1, <1>2
<1>4. PhaseWeight(d) = (IF PhaseCap > 0 /\ (IF PhaseCap > 1 THEN PhaseCap ELSE 1) < 1 + Up(d)
                        THEN IF PhaseCap > 1 THEN PhaseCap ELSE 1 ELSE 1 + Up(d))
  BY DEF PhaseWeight
<1>5. PhaseWeight(e) = (IF PhaseCap > 0 /\ (IF PhaseCap > 1 THEN PhaseCap ELSE 1) < 1 + Up(e)
                        THEN IF PhaseCap > 1 THEN PhaseCap ELSE 1 ELSE 1 + Up(e))
  BY DEF PhaseWeight
<1> HIDE DEF Up
<1>6. QED
  BY <1>1, <1>3, <1>4, <1>5

-----------------------------------------------------------------------------
(* The rounds of one season, and the weight of a round among them. *)

SeasonOf(R, s) == {q \in R : q.season = s}

\* A season has finitely many rounds: their positions tell them apart.
LEMMA SeasonIsFinite ==
    ASSUME NEW R \in RoundSets, NEW s
    PROVE  IsFiniteSet(SeasonOf(R, s))
<1> DEFINE S == SeasonOf(R, s)
           posOf == [q \in S |-> q.pos]
<1>1. PICK g \in [Seasons -> 0..MaxPos] :
        R = {[season |-> t, pos |-> p, knockout |-> p > g[t]] :
                t \in Seasons, p \in 1..MaxPos}
  BY DEF RoundSets
<1>2. \A q \in S : q = [season |-> s, pos |-> q.pos, knockout |-> q.pos > g[s]]
                   /\ q.pos \in 1..MaxPos
  BY <1>1 DEF SeasonOf
<1>3. posOf \in Injection(S, 1..MaxPos)
  <2>1. posOf \in [S -> 1..MaxPos]
    BY <1>2
  <2>2. \A a, b \in S : posOf[a] = posOf[b] => a = b
    BY <1>2
  <2>3. QED
    BY <2>1, <2>2 DEF Injection, IsInjective
<1>4. IsFiniteSet(1..MaxPos)
  BY FS_Interval, ScoredMatchAssumption
<1>5. QED
  BY <1>3, <1>4, FS_Injection

LEMMA DepthType ==
    ASSUME NEW R \in RoundSets, NEW r \in R
    PROVE  /\ DepthOf(R, r) \in Nat \ {0}
           /\ DepthOf(SeasonOf(R, r.season), r) = DepthOf(R, r)
<1> DEFINE before == {q \in R : /\ q.knockout
                                /\ q.season = r.season
                                /\ q.pos < r.pos}
<1>1. before \in SUBSET SeasonOf(R, r.season)
  BY DEF SeasonOf
<1>2. IsFiniteSet(before)
  BY <1>1, SeasonIsFinite, FS_Subset
<1>3. Cardinality(before) \in Nat
  BY <1>2, FS_CardinalityType
<1>4. before = {q \in SeasonOf(R, r.season) : /\ q.knockout
                                              /\ q.season = r.season
                                              /\ q.pos < r.pos}
  BY DEF SeasonOf
<1>5. QED
  BY <1>3, <1>4 DEF DepthOf

LEMMA DepthMonotone ==
    ASSUME NEW R \in RoundSets, NEW a \in R, NEW b \in R,
           a.season = b.season, a.pos <= b.pos
    PROVE  DepthOf(R, a) <= DepthOf(R, b)
<1> DEFINE Before(r) == {q \in R : /\ q.knockout
                                   /\ q.season = r.season
                                   /\ q.pos < r.pos}
<1>1. \A q \in R : q.pos \in Int
  BY ScoredMatchAssumption DEF RoundSets
<1>2. Before(a) \in SUBSET Before(b)
  BY <1>1
<1>3. Before(b) \in SUBSET SeasonOf(R, b.season)
  BY DEF SeasonOf
<1>4. IsFiniteSet(Before(b))
  BY <1>3, SeasonIsFinite, FS_Subset
<1>5. IsFiniteSet(Before(a)) /\ Cardinality(Before(a)) <= Cardinality(Before(b))
  BY <1>2, <1>4, FS_Subset
<1>6. Cardinality(Before(a)) \in Nat /\ Cardinality(Before(b)) \in Nat
  BY <1>4, <1>5, FS_CardinalityType
<1>7. QED
  BY <1>5, <1>6 DEF DepthOf

LEMMA RoundWeightType ==
    ASSUME NEW R \in RoundSets, NEW r \in R
    PROVE  /\ RoundWeight(R, r) \in Nat \ {0}
           /\ PhaseCap > 0 => RoundWeight(R, r) <= PhaseCap
<1>1. DepthOf(R, r) \in Int
  BY DepthType
<1>2. QED
  BY <1>1, WeightBounds, ScoringAssumption DEF RoundWeight

LEMMA RoundWeightMonotone ==
    ASSUME NEW R \in RoundSets, NEW a \in R, NEW b \in R,
           a.season = b.season, a.pos <= b.pos
    PROVE  RoundWeight(R, a) <= RoundWeight(R, b)
<1>1. PICK g \in [Seasons -> 0..MaxPos] :
        R = {[season |-> t, pos |-> p, knockout |-> p > g[t]] :
                t \in Seasons, p \in 1..MaxPos}
  BY DEF RoundSets
<1>2. a.knockout => b.knockout
  <2>1. /\ a.knockout = (a.pos > g[a.season]) /\ a.pos \in Int
        /\ b.knockout = (b.pos > g[b.season]) /\ b.pos \in Int
        /\ a.season \in Seasons
    BY <1>1
  <2>2. g[a.season] \in Int
    BY <2>1
  <2>3. a.pos > g[a.season] => b.pos > g[b.season]
    BY <2>1, <2>2
  <2>4. QED
    BY <2>1, <2>3, Zenon
<1>3. CASE a.knockout
  <2>1. DepthOf(R, a) \in Int /\ DepthOf(R, b) \in Int
    BY DepthType
  <2>2. PhaseWeight(DepthOf(R, a)) <= PhaseWeight(DepthOf(R, b))
    BY <2>1, DepthMonotone, WeightMonotone
  <2>3. QED
    BY <1>2, <1>3, <2>2 DEF RoundWeight
<1>4. CASE ~a.knockout
  BY <1>4, RoundWeightType DEF RoundWeight
<1>5. QED
  BY <1>3, <1>4

-----------------------------------------------------------------------------
(* The properties of the scored match, for every bound. *)

TypeOK ==
    /\ pred \in Lines
    /\ result \in Lines
    /\ rounds \in RoundSets
    /\ round \in rounds

LEMMA Typing == Spec => []TypeOK
<1>1. Init => TypeOK
  BY ScoredMatchAssumption DEF Init, TypeOK, Lines
<1>2. TypeOK /\ [Next]_vars => TypeOK'
  <2> SUFFICES ASSUME TypeOK, [Next]_vars PROVE TypeOK'
    OBVIOUS
  <2>1. ASSUME NEW side \in {"home", "away"}, Goal(side) PROVE TypeOK'
    BY <2>1, ScoredMatchAssumption DEF Goal, TypeOK, Lines
  <2>2. ASSUME NEW side \in {"home", "away"}, Annulled(side) PROVE TypeOK'
    BY <2>2, ScoredMatchAssumption DEF Annulled, TypeOK, Lines
  <2>3. CASE UNCHANGED vars
    BY <2>3 DEF vars, TypeOK
  <2>4. QED
    BY <2>1, <2>2, <2>3 DEF Next
<1>3. QED
  BY <1>1, <1>2, PTL DEF Spec

LEMMA LinesAreScorelines == Lines \subseteq Scoreline
BY ScoredMatchAssumption DEF Lines, Scoreline

\* Which team is at home never matters to the tier.
THEOREM SymmetryHolds == Spec => []SidesAreSymmetric
<1>1. TypeOK => SidesAreSymmetric
  BY TierSymmetric, LinesAreScorelines DEF TypeOK, SidesAreSymmetric, Swap
<1>2. QED
  BY <1>1, Typing, PTL

\* Under falling prices the exact scoreline out-earns every other prediction,
\* whatever the phase weighs.
THEOREM ExactAlwaysPaysMost ==
    ASSUME PricesFall PROVE Spec => []OnlyExactPaysMost
<1>1. TypeOK => OnlyExactPaysMost
  <2> SUFFICES ASSUME TypeOK, NEW other \in Lines, other # result
               PROVE  PointsFor(other, result, RoundWeight(rounds, round))
                        < PointsFor(result, result, RoundWeight(rounds, round))
    BY DEF OnlyExactPaysMost
  <2>1. RoundWeight(rounds, round) \in Nat \ {0}
    BY RoundWeightType DEF TypeOK
  <2>2. other \in Scoreline /\ result \in Scoreline
    BY LinesAreScorelines DEF TypeOK
  <2>3. QED
    BY <2>1, <2>2, ExactPaysMost
<1>2. QED
  BY <1>1, Typing, PTL

\* Under falling prices the ladder of tests in tierFor pays the best of the
\* facts the prediction got right.
THEOREM BestFactIsPaid ==
    ASSUME PricesFall PROVE Spec => []PaysBestFact
<1>1. TypeOK => PaysBestFact
  <2> SUFFICES ASSUME TypeOK PROVE PaysBestFact
    OBVIOUS
  <2>1. /\ pred.home \in Nat /\ pred.away \in Nat
        /\ result.home \in Nat /\ result.away \in Nat
    BY LinesAreScorelines DEF TypeOK, Scoreline
  <2>2. \A t \in ScoredTiers : Points[t] \in Nat
    BY ScoringAssumption
  <2>3. pred = result <=> pred.home = result.home /\ pred.away = result.away
    BY LinesAreScorelines DEF TypeOK, Scoreline
  <2>4. CASE Outcome(pred) # Outcome(result)
    <3>1. Facts = {}
      BY <2>4, <2>3 DEF Facts, ScoredTiers, Outcome, Diff
    <3>2. QED
      BY <2>4, <3>1 DEF PaysBestFact, PointsFor, TierFor
  <2>5. CASE Outcome(pred) = Outcome(result)
    <3> DEFINE tier == TierFor(pred, result)
    <3>1. tier \in Facts
      BY <2>5, <2>1, <2>3
      DEF TierFor, Facts, ScoredTiers, Outcome, Sign, Diff
    <3>2. \A f \in Facts : Points[tier] >= Points[f]
      BY <2>5, <2>1, <2>2, <2>3
      DEF TierFor, Facts, ScoredTiers, PricesFall
    <3>3. PointsFor(pred, result, 1) = Points[tier]
      BY <3>1, <2>2 DEF PointsFor, Facts, ScoredTiers
    <3>4. QED
      BY <3>1, <3>2, <3>3 DEF PaysBestFact
  <2>6. QED
    BY <2>4, <2>5
<1>2. QED
  BY <1>1, Typing, PTL

\* Weights are computed season by season, grow with the depth and respect the
\* ceiling, for any number of seasons and rounds.
THEOREM WeightsHold == Spec => []WeightsArePerSeason
<1>1. TypeOK => WeightsArePerSeason
  <2> SUFFICES ASSUME TypeOK PROVE WeightsArePerSeason
    OBVIOUS
  <2>1. rounds \in RoundSets /\ round \in rounds
    BY DEF TypeOK
  <2> DEFINE own == {r \in rounds : r.season = round.season}
  <2>2. own = SeasonOf(rounds, round.season)
    BY DEF SeasonOf
  <2>3. RoundWeight(rounds, round) = RoundWeight(own, round)
    BY <2>1, <2>2, DepthType DEF RoundWeight
  <2>4. \A r \in own : r.pos <= round.pos =>
            RoundWeight(rounds, r) <= RoundWeight(rounds, round)
    BY <2>1, RoundWeightMonotone
  <2>5. QED
    BY <2>1, <2>3, <2>4, RoundWeightType DEF WeightsArePerSeason
<1>2. QED
  BY <1>1, Typing, PTL

-----------------------------------------------------------------------------
(* The bracket. *)

Sides == {"home", "away"}
Columns == {"aggHome", "aggAway", "winner", "resolution"}

Busy(s) == s.pc \in {"tie", "write", "mirror"}
Held(a) == IF Busy(resolver[a]) THEN resolver[a].left ELSE {}

\* The legs of a tie as they stand, and one of those that x holds.
LegsOf(t) == [k \in DOMAIN Legs[t] |-> matches[Legs[t][k]]]
Now(x, k) == matches[Legs[x.tie][k]]

-----------------------------------------------------------------------------
(* Types: what records are, and that a match ends between two teams. *)

TieShape(row) == row = [c \in Sides \cup Columns |-> row[c]]
LegShape(leg) == leg = [c \in Sides \cup {"result"} |-> leg[c]]
TakenShape(x) ==
    /\ x.tie \in Ties /\ TieShape(x.row)
    /\ x.legs = [k \in DOMAIN Legs[x.tie] |-> x.legs[k]]

StateShape(s) ==
    \/ s = Idle
    \/ s = [pc |-> "due", n |-> s.n]
    \/ /\ \/ s = [pc |-> "tie", n |-> s.n, changed |-> s.changed, fresh |-> s.fresh, left |-> s.left]
          \/ /\ s.pc \in {"write", "mirror"}
             /\ s = [pc |-> s.pc, n |-> s.n, changed |-> s.changed, fresh |-> s.fresh,
                     left |-> s.left, home |-> s.home, away |-> s.away]
       /\ s.left # {}
       /\ \A x \in s.left : TakenShape(x)
       /\ \A x, y \in s.left : x.tie = y.tie => x = y

BracketTypes ==
    /\ ties = [t \in Ties |-> ties[t]] /\ \A t \in Ties : TieShape(ties[t])
    /\ matches = [m \in Matches |-> matches[m]] /\ \A m \in Matches : LegShape(matches[m])
    /\ resolver = [a \in Actors |-> resolver[a]] /\ \A a \in Actors : StateShape(resolver[a])
    /\ rewrites \in Nat
    /\ \A m \in Matches : matches[m].result # None =>
         matches[m].result \in ResultsOf[m] /\ matches[m].home # None /\ matches[m].away # None

-----------------------------------------------------------------------------
(* The invariant.  It speaks of histories in which no resolveSeason was     *)
(* overtaken by a correction.                                               *)

\* A leg has the teams of its tie.
Paired(k, side, leg, row) == leg[side] # None => leg[side] = Mirrored(k, row.home, row.away)[side]
LegsPaired == \A t \in Ties : \A k \in DOMAIN Legs[t], side \in Sides :
                 Paired(k, side, matches[Legs[t][k]], ties[t])

\* A team a tie was created with stays.
SeedsStay == \A t \in Ties, side \in Sides : ties[t][side] = None => Seeded[t][side] = None

\* What was read of a tie and was there still is.
ReadStands(x) ==
    /\ \A side \in Sides :
         /\ x.row[side] # None => ties[x.tie][side] = x.row[side]
         /\ x.row[side] = None => Seeded[x.tie][side] = None
    /\ \A k \in DOMAIN Legs[x.tie] :
         /\ x.legs[k].result # None =>
              x.legs[k] = Now(x, k) /\ x.legs[k].home # None /\ x.legs[k].away # None
         /\ \A side \in Sides : /\ x.legs[k][side] # None => Now(x, k)[side] = x.legs[k][side]
                                /\ Paired(k, side, x.legs[k], x.row)

ReadsStand == \A a \in Actors : \A x \in Held(a) : ReadStands(x)

\* A fresh run has read every result.
FreshReads ==
    \A a \in Actors : \A x \in Held(a) : resolver[a].fresh =>
        \A k \in DOMAIN Legs[x.tie] : x.legs[k].result = Now(x, k).result

\* The participants a run has settled on for the tie at hand.
Picked(a) ==
    LET s == resolver[a] IN LET x == First(s.left) IN
    s.pc \in {"write", "mirror"} => \A side \in Sides :
        /\ x.row[side] # None => s[side] = x.row[side]
        /\ s.pc = "mirror" /\ s[side] # None => ties[x.tie][side] = s[side]
PicksStand == \A a \in Actors : Picked(a)

\* Once a result was changed runs do not overlap.
Alone ==
    rewrites > 0 => \A a \in Actors : resolver[a] # Idle =>
        /\ \A b \in Actors \ {a} : resolver[b] = Idle
        /\ Busy(resolver[a]) =>
             /\ resolver[a].fresh
             /\ \A x \in Held(a) : \/ x.row = ties[x.tie]
                                   \/ resolver[a].pc = "mirror" /\ x = First(resolver[a].left)

\* The outcome in a tie's columns.
Bare(row) == \A c \in Columns : row[c] = None
Tells(row, legs) == \A c \in Columns : row[c] = Aggregate(row.home, row.away, legs)[c]
Sound(row, legs) == Bare(row) \/ (Decidable(row.home, row.away, legs) /\ Tells(row, legs))

\* The team a slot of a tie is for.
Given(t, side) == IF Seeded[t][side] # None THEN Seeded[t][side] ELSE Feeder(Source[t][side])

\* As long as no result was changed, what is written stays right.
Steady ==
    rewrites = 0 =>
      /\ \A t \in Ties : Sound(ties[t], LegsOf(t))
      /\ \A t \in Ties, side \in Sides : ties[t][side] # None => ties[t][side] = Given(t, side)
      /\ \A a \in Actors :
           /\ \A x \in Held(a) : Bare(x.row) \/ \A c \in Columns : ties[x.tie][c] = x.row[c]
           /\ resolver[a].pc \in {"write", "mirror"} => \A t \in Ties, side \in Sides :
                t = First(resolver[a].left).tie /\ resolver[a][side] # None =>
                  resolver[a][side] = Given(t, side)

\* The outcome of a tie is the one its legs have.
Settled(t) == Decidable(ties[t].home, ties[t].away, LegsOf(t)) => Tells(ties[t], LegsOf(t))

\* A fresh run has still to take, or has settled.
Past(a, t) == \A x \in Held(a) : x.tie = t => resolver[a].pc = "mirror" /\ x = First(resolver[a].left)
AllSettled ==
    /\ ~dirty => \A t \in Ties : Settled(t)
    /\ \A a \in Actors : Busy(resolver[a]) /\ resolver[a].fresh =>
         \A t \in Ties : Past(a, t) => Settled(t)

Orderly == LegsPaired /\ SeedsStay /\ ReadsStand /\ FreshReads /\ PicksStand /\ Alone /\ Steady /\ AllSettled
BracketInv == BracketTypes /\ (~overtaken => Orderly)

-----------------------------------------------------------------------------
(* The first of the ties left. *)

LEMMA FirstIsLeft ==
    ASSUME NEW left, left # {}, \A x \in left : x.tie \in Ties
    PROVE  First(left) \in left
<1> DEFINE Places == {Place(x.tie) : x \in left}
<1>1. \A t \in Ties : Place(t) \in Nat
  <2> TAKE t \in Ties
  <2>1. \E i \in DOMAIN TieOrder : TieOrder[i] = t
    BY DEF Ties
  <2>2. Place(t) \in DOMAIN TieOrder
    BY <2>1 DEF Place
  <2> QED
    BY <2>2, BracketAssumption DEF BracketAssumption
<1>2. Places \subseteq Nat /\ Places # {}
  BY <1>1
<1>3. PICK n \in Places : \A m \in Places : n <= m
  BY <1>2, LeastNat
<1>4. \E x \in left : \A y \in left : Place(x.tie) <= Place(y.tie)
  BY <1>3
<1> QED
  BY <1>4 DEF First

-----------------------------------------------------------------------------
(* Types. *)

LEMMA BusyState ==
    ASSUME BracketTypes, NEW a \in Actors, Busy(resolver[a])
    PROVE  LET s == resolver[a] IN
           /\ \/ s = [pc |-> "tie", n |-> s.n, changed |-> s.changed, fresh |-> s.fresh, left |-> s.left]
              \/ /\ s.pc \in {"write", "mirror"}
                 /\ s = [pc |-> s.pc, n |-> s.n, changed |-> s.changed, fresh |-> s.fresh,
                         left |-> s.left, home |-> s.home, away |-> s.away]
           /\ s.left # {} /\ Held(a) = s.left
           /\ \A x \in s.left : TakenShape(x)
           /\ \A x, y \in s.left : x.tie = y.tie => x = y
           /\ First(s.left) \in s.left /\ TakenShape(First(s.left)) /\ First(s.left).tie \in Ties
<1>1. StateShape(resolver[a])
  BY DEF BracketTypes
<1>2. resolver[a] # Idle /\ resolver[a] # [pc |-> "due", n |-> resolver[a].n]
  BY DEF Busy, Idle
<1>3. \A x \in resolver[a].left : TakenShape(x) /\ x.tie \in Ties
  BY <1>1, <1>2 DEF StateShape, TakenShape
<1>4. resolver[a].left # {}
  BY <1>1, <1>2 DEF StateShape
<1>5. First(resolver[a].left) \in resolver[a].left
  BY <1>3, <1>4, FirstIsLeft
<1> QED
  BY <1>1, <1>2, <1>3, <1>4, <1>5 DEF StateShape, Held

LEMMA BracketInitInv == BracketInit => BracketInv
<1> SUFFICES ASSUME BracketInit PROVE BracketInv
  OBVIOUS
<1> USE BracketAssumption DEF BracketAssumption
<1>1. \A a \in Actors : resolver[a] = Idle /\ Held(a) = {} /\ resolver[a].pc = "idle"
  BY DEF BracketInit, Held, Busy, Idle
<1>2. \A t \in Ties : /\ ties[t].home = Seeded[t].home /\ ties[t].away = Seeded[t].away
                      /\ Bare(ties[t]) /\ TieShape(ties[t])
  BY DEF BracketInit, Bare, TieShape, Columns, Sides
<1>3. \A m \in Matches : /\ matches[m].home = Fixture[m].home /\ matches[m].away = Fixture[m].away
                         /\ matches[m].result = None /\ LegShape(matches[m])
  BY DEF BracketInit, LegShape, Sides
<1>4. BracketTypes
  BY <1>1, <1>2, <1>3 DEF BracketInit, BracketTypes, StateShape, Sides
<1>5. LegsPaired
  <2> SUFFICES ASSUME NEW t \in Ties, NEW k \in DOMAIN Legs[t], NEW side \in Sides
               PROVE  Paired(k, side, matches[Legs[t][k]], ties[t])
    BY DEF LegsPaired
  <2>1. Legs[t][k] \in Matches
    OBVIOUS
  <2>2. Fixture[Legs[t][k]] = IF k = 2 THEN [home |-> Seeded[t].away, away |-> Seeded[t].home]
                              ELSE Seeded[t]
    OBVIOUS
  <2> QED
    BY <1>2, <1>3, <2>1, <2>2 DEF Paired, Mirrored, Sides
<1>10. SeedsStay
  BY <1>2 DEF SeedsStay, Sides
<1>6. ReadsStand /\ FreshReads /\ PicksStand
  BY <1>1 DEF ReadsStand, FreshReads, PicksStand, Picked
<1>7. Alone
  BY <1>1 DEF Alone, BracketInit
<1>8. Steady
  BY <1>1, <1>2 DEF Steady, Sound, Given, Sides
<1>9. AllSettled
  <2> SUFFICES ASSUME NEW t \in Ties, Decidable(ties[t].home, ties[t].away, LegsOf(t)) PROVE FALSE
    BY <1>1 DEF AllSettled, Busy, Settled
  <2>1. Legs[t] # <<>> /\ Legs[t] \in Seq(Matches)
    BY DEF Decidable, LegsOf
  <2>2. 1 \in DOMAIN Legs[t] /\ Legs[t][1] \in Matches
    BY <2>1
  <2> QED
    BY <1>3, <2>2 DEF Decidable, LegsOf
<1> QED
  BY <1>4, <1>5, <1>6, <1>7, <1>8, <1>9, <1>10 DEF BracketInv, Orderly

\* Ties that a pass may have left.
LeftShape(left) ==
    /\ \A x \in left : TakenShape(x)
    /\ \A x, y \in left : x.tie = y.tie => x = y

LEMMA ProceedIs ==
    ASSUME BracketTypes, NEW r \in Actors, NEW n, NEW changed, NEW fresh, NEW left, LeftShape(left),
           Proceed(r, [pc |-> "tie", n |-> n, changed |-> changed, fresh |-> fresh, left |-> left])
    PROVE  /\ resolver' = [a \in Actors |-> resolver'[a]]
           /\ \A b \in Actors \ {r} : resolver'[b] = resolver[b]
           /\ left # {} => resolver'[r] = [pc |-> "tie", n |-> n, changed |-> changed,
                                           fresh |-> fresh, left |-> left]
           /\ left = {} => resolver'[r] \in {Idle, [pc |-> "due", n |-> n]}
           /\ left # {} => (dirty' <=> dirty)
           /\ left = {} /\ ~dirty' => ~dirty \/ fresh
           /\ StateShape(resolver'[r])
<1> DEFINE s == [pc |-> "tie", n |-> n, changed |-> changed, fresh |-> fresh, left |-> left]
           next == IF s.left # {} THEN s
                   ELSE IF Again(s) THEN [pc |-> "due", n |-> s.n] ELSE Idle
<1>1. resolver' = [resolver EXCEPT ![r] = next]
  BY DEF Proceed
<1>2. resolver = [a \in Actors |-> resolver[a]]
  BY DEF BracketTypes
<1>3. s.left = left /\ s.n = n /\ s.fresh = fresh
  OBVIOUS
<1>4. dirty' = (dirty /\ ~(left = {} /\ ~Again(s) /\ fresh))
  BY DEF Proceed
<1>5. left # {} => next = s
  BY <1>3
<1>6. left = {} => next \in {Idle, [pc |-> "due", n |-> n]}
  BY <1>3
<1>7. StateShape(next)
  <2>1. CASE left = {}
    BY <1>6, <2>1 DEF StateShape, Idle
  <2>2. CASE left # {}
    BY <1>5, <2>2, <1>3 DEF StateShape, LeftShape
  <2> QED
    BY <2>1, <2>2
<1> HIDE DEF next
<1>8. resolver'[r] = next /\ \A b \in Actors \ {r} : resolver'[b] = resolver[b]
  BY <1>1, <1>2
<1>9. resolver' = [a \in Actors |-> resolver'[a]]
  BY <1>1, <1>2
<1> QED
  BY <1>4, <1>5, <1>6, <1>7, <1>8, <1>9

\* What a step of a run does to its own state.
Runs(r) ==
    /\ resolver' = [a \in Actors |-> resolver'[a]] /\ StateShape(resolver'[r])
    /\ \A b \in Actors \ {r} : resolver'[b] = resolver[b]

LEMMA TakenIs ==
    ASSUME BracketTypes, NEW t \in Ties
    PROVE  TakenShape(Taken(t)) /\ Taken(t).tie = t /\ Taken(t).row = ties[t] /\ Taken(t).legs = LegsOf(t)
BY DEF Taken, TakenShape, BracketTypes, LegsOf

LEMMA PassStartIs ==
    ASSUME BracketTypes, NEW r \in Actors, PassStart(r)
    PROVE  \E left :
             /\ left = {x \in {Taken(t) : t \in Ties} : Awaits(x)}
             /\ LeftShape(left) /\ Runs(r) /\ resolver[r].pc = "due"
             /\ UNCHANGED <<matches, ties, rewrites, overtaken>>
             /\ left # {} => /\ resolver'[r].pc = "tie" /\ resolver'[r].fresh = TRUE
                             /\ resolver'[r].left = left
                             /\ dirty' <=> dirty
             /\ left = {} => resolver'[r].pc \in {"idle", "due"}
<1> DEFINE left == {x \in {Taken(t) : t \in Ties} : Awaits(x)}
<1>1. LeftShape(left)
  BY TakenIs DEF LeftShape
<1>2. Proceed(r, [pc |-> "tie", n |-> resolver[r].n + 1, changed |-> FALSE, fresh |-> TRUE, left |-> left])
  BY DEF PassStart
<1>3. resolver[r].pc = "due" /\ UNCHANGED <<matches, ties, rewrites, overtaken>>
  BY DEF PassStart
<1> HIDE DEF left
<1>4. /\ Runs(r)
      /\ left # {} => /\ resolver'[r].pc = "tie" /\ resolver'[r].fresh = TRUE
                      /\ resolver'[r].left = left
                      /\ dirty' <=> dirty
      /\ left = {} => resolver'[r].pc \in {"idle", "due"}
  BY <1>1, <1>2, ProceedIs DEF Runs, Idle
<1> QED
  BY <1>1, <1>3, <1>4 DEF left

\* The run is done with the tie at hand.
Drops(r) ==
    LET left == resolver[r].left \ {First(resolver[r].left)} IN
    /\ Runs(r)
    /\ left # {} => /\ resolver'[r].pc = "tie" /\ resolver'[r].left = left
                    /\ resolver'[r].fresh = resolver[r].fresh
                    /\ dirty' <=> dirty
    /\ left = {} => /\ resolver'[r].pc \in {"idle", "due"}
                    /\ ~dirty' => ~dirty \/ resolver[r].fresh

LEMMA AdvanceIs ==
    ASSUME BracketTypes, NEW r \in Actors, Busy(resolver[r]), NEW changed,
           Advance(r, resolver[r], changed)
    PROVE  Drops(r)
<1> DEFINE s == resolver[r]
           left == s.left \ {First(s.left)}
<1>1. LeftShape(left)
  BY BusyState DEF LeftShape
<1>2. Proceed(r, [pc |-> "tie", n |-> s.n, changed |-> changed, fresh |-> s.fresh, left |-> left])
  BY DEF Advance
<1>3. /\ Runs(r)
      /\ left # {} => /\ resolver'[r].pc = "tie" /\ resolver'[r].left = left
                      /\ resolver'[r].fresh = s.fresh
                      /\ dirty' <=> dirty
      /\ left = {} => /\ resolver'[r].pc \in {"idle", "due"}
                      /\ ~dirty' => ~dirty \/ s.fresh
  <2> HIDE DEF left
  <2> QED
    BY <1>1, <1>2, ProceedIs DEF Runs, Idle
<1> QED
  BY <1>3 DEF Drops

\* The columns of what is wanted.
LEMMA WantedIs ==
    ASSUME NEW x, TieShape(x.row), NEW home, NEW away
    PROVE  /\ TieShape(Wanted(x, home, away))
           /\ Wanted(x, home, away).home = home /\ Wanted(x, home, away).away = away
           /\ \A c \in Columns : Wanted(x, home, away)[c] =
                IF Decidable(home, away, x.legs) THEN Aggregate(home, away, x.legs)[c] ELSE x.row[c]
BY DEF Wanted, TieShape, Sides, Columns

LEMMA ReadFeedersIs ==
    ASSUME BracketTypes, NEW r \in Actors, ReadFeeders(r)
    PROVE  LET s == resolver[r] IN LET x == First(s.left) IN
           \E home, away :
             /\ home = Participant(x, "home") /\ away = Participant(x, "away")
             /\ UNCHANGED <<matches, ties, rewrites, overtaken>> /\ s.pc = "tie"
             /\ \/ /\ Wanted(x, home, away) = x.row /\ Slots(x, home, away) = {}
                   /\ Drops(r)
                \/ /\ Runs(r) /\ (dirty' <=> dirty)
                   /\ resolver'[r].pc \in {"write", "mirror"}
                   /\ resolver'[r].pc = "mirror" => Wanted(x, home, away) = x.row
                   /\ resolver'[r].left = s.left /\ resolver'[r].fresh = s.fresh
                   /\ resolver'[r].home = home /\ resolver'[r].away = away
<1> DEFINE s == resolver[r]
           x == First(s.left)
           home == Participant(x, "home")
           away == Participant(x, "away")
<1>1. s.pc = "tie" /\ UNCHANGED <<matches, ties, rewrites, overtaken>> /\ TieRead(r, s, x, home, away)
  BY DEF ReadFeeders
<1>2. Busy(s)
  BY <1>1 DEF Busy
<1> HIDE DEF home, away
<1>3. CASE Wanted(x, home, away) = x.row /\ Slots(x, home, away) = {}
  <2>1. Advance(r, s, s.changed)
    BY <1>1, <1>3 DEF TieRead
  <2>2. Drops(r)
    BY <1>2, <2>1, AdvanceIs
  <2> QED
    BY <1>1, <1>3, <2>2 DEF home, away
<1>4. CASE ~(Wanted(x, home, away) = x.row /\ Slots(x, home, away) = {})
  <2> DEFINE pc == IF Wanted(x, home, away) # x.row THEN "write" ELSE "mirror"
             next == [pc |-> pc, n |-> s.n, changed |-> s.changed, fresh |-> s.fresh, left |-> s.left,
                      home |-> home, away |-> away]
  <2>1. resolver' = [resolver EXCEPT ![r] = next] /\ UNCHANGED dirty
    BY <1>1, <1>4 DEF TieRead
  <2>2. pc \in {"write", "mirror"} /\ (pc = "mirror" => Wanted(x, home, away) = x.row)
    OBVIOUS
  <2> HIDE DEF pc
  <2>3. StateShape(next)
    BY <1>2, <2>2, BusyState DEF StateShape
  <2>4. /\ resolver'[r] = next /\ resolver' = [a \in Actors |-> resolver'[a]]
        /\ \A b \in Actors \ {r} : resolver'[b] = resolver[b]
    BY <2>1 DEF BracketTypes
  <2>5. Runs(r)
    BY <2>3, <2>4 DEF Runs
  <2> QED
    BY <1>1, <2>1, <2>2, <2>4, <2>5 DEF home, away
<1> QED
  BY <1>3, <1>4

LEMMA Mirroring ==
    ASSUME NEW s, NEW flag,
           s = [pc |-> s.pc, n |-> s.n, changed |-> s.changed, fresh |-> s.fresh,
                left |-> s.left, home |-> s.home, away |-> s.away]
    PROVE  [s EXCEPT !.pc = "mirror", !.changed = flag]
             = [pc |-> "mirror", n |-> s.n, changed |-> flag, fresh |-> s.fresh,
                left |-> s.left, home |-> s.home, away |-> s.away]
<1> DEFINE once == [s EXCEPT !.pc = "mirror"]
<1>1. once = [pc |-> "mirror", n |-> s.n, changed |-> s.changed, fresh |-> s.fresh,
              left |-> s.left, home |-> s.home, away |-> s.away]
  OBVIOUS
<1> HIDE DEF once
<1>2. [once EXCEPT !.changed = flag]
        = [pc |-> "mirror", n |-> s.n, changed |-> flag, fresh |-> s.fresh,
           left |-> s.left, home |-> s.home, away |-> s.away]
  BY <1>1
<1> QED
  BY <1>2, Zenon DEF once

LEMMA WriteTieIs ==
    ASSUME BracketTypes, NEW r \in Actors, WriteTie(r)
    PROVE  LET s == resolver[r] IN LET x == First(s.left) IN LET w == Wanted(x, s.home, s.away) IN
           /\ s.pc = "write" /\ UNCHANGED <<matches, rewrites, overtaken>>
           /\ ties' = [t \in Ties |-> ties'[t]] /\ TieShape(ties'[x.tie])
           /\ \A t \in Ties \ {x.tie} : ties'[t] = ties[t]
           /\ \A c \in Sides \cup Columns :
                ties'[x.tie][c] = IF w[c] # x.row[c] THEN w[c] ELSE ties[x.tie][c]
           /\ \/ Slots(x, s.home, s.away) = {} /\ Drops(r)
              \/ /\ Runs(r) /\ (dirty' <=> dirty)
                 /\ resolver'[r].pc = "mirror"
                 /\ resolver'[r].left = s.left /\ resolver'[r].fresh = s.fresh
                 /\ resolver'[r].home = s.home /\ resolver'[r].away = s.away
<1> DEFINE s == resolver[r]
           x == First(s.left)
           w == Wanted(x, s.home, s.away)
           row == Patched(ties[x.tie], x.row, w)
<1>1. s.pc = "write" /\ UNCHANGED <<matches, rewrites, overtaken>> /\ ties' = [ties EXCEPT ![x.tie] = row]
  BY DEF WriteTie
<1>2. Busy(s) /\ x.tie \in Ties /\ TieShape(ties[x.tie])
  BY <1>1, BusyState DEF Busy, BracketTypes
<1>3. /\ ties' = [t \in Ties |-> ties'[t]] /\ ties'[x.tie] = row
      /\ \A t \in Ties \ {x.tie} : ties'[t] = ties[t]
  BY <1>1, <1>2 DEF BracketTypes
<1>4. /\ TieShape(row)
      /\ \A c \in Sides \cup Columns : row[c] = IF w[c] # x.row[c] THEN w[c] ELSE ties[x.tie][c]
  <2> HIDE DEF w, x
  <2>1. DOMAIN ties[x.tie] = Sides \cup Columns
    BY <1>2 DEF TieShape
  <2> QED
    BY <2>1 DEF Patched, TieShape
<1>5. CASE Slots(x, s.home, s.away) = {}
  <2>1. Advance(r, s, TRUE)
    BY <1>5 DEF WriteTie
  <2> QED
    BY <1>1, <1>2, <1>3, <1>4, <1>5, <2>1, AdvanceIs
<1>6. CASE Slots(x, s.home, s.away) # {}
  <2> DEFINE next == [s EXCEPT !.pc = "mirror", !.changed = TRUE]
  <2>1. resolver' = [resolver EXCEPT ![r] = next] /\ UNCHANGED dirty
    BY <1>6 DEF WriteTie
  <2>2. /\ s = [pc |-> s.pc, n |-> s.n, changed |-> s.changed, fresh |-> s.fresh,
                left |-> s.left, home |-> s.home, away |-> s.away]
        /\ s.left # {} /\ (\A y \in s.left : TakenShape(y))
        /\ \A y, z \in s.left : y.tie = z.tie => y = z
    <3>1. s.pc # "tie"
      BY <1>1
    <3>2. s # [pc |-> "tie", n |-> s.n, changed |-> s.changed, fresh |-> s.fresh, left |-> s.left]
      BY <3>1
    <3> QED
      BY <1>2, <3>2, BusyState
  <2>3. next = [pc |-> "mirror", n |-> s.n, changed |-> TRUE, fresh |-> s.fresh,
                left |-> s.left, home |-> s.home, away |-> s.away]
    BY <2>2, Mirroring
  <2> HIDE DEF next
  <2>4. StateShape(next)
    BY <2>2, <2>3 DEF StateShape
  <2>5. /\ resolver'[r] = next /\ resolver' = [a \in Actors |-> resolver'[a]]
        /\ \A b \in Actors \ {r} : resolver'[b] = resolver[b]
    BY <2>1 DEF BracketTypes
  <2>6. Runs(r)
    BY <2>4, <2>5 DEF Runs
  <2> QED
    BY <1>1, <1>3, <1>4, <2>1, <2>3, <2>5, <2>6
<1> QED
  BY <1>5, <1>6

LEMMA MirrorIs ==
    ASSUME BracketTypes, NEW r \in Actors, Mirror(r)
    PROVE  LET s == resolver[r] IN LET x == First(s.left) IN
           /\ s.pc = "mirror" /\ UNCHANGED <<ties, rewrites, overtaken>> /\ Drops(r)
           /\ matches' = [m \in Matches |-> matches'[m]]
           /\ \A m \in Matches : LegShape(matches'[m]) /\ matches'[m].result = matches[m].result
           /\ \A m \in Matches, side \in Sides :
                \/ /\ matches'[m][side] = matches[m][side]
                   /\ ~\E k \in DOMAIN x.legs : Legs[x.tie][k] = m /\ <<k, side>> \in Slots(x, s.home, s.away)
                \/ \E k \in DOMAIN x.legs :
                     /\ Legs[x.tie][k] = m /\ <<k, side>> \in Slots(x, s.home, s.away)
                     /\ matches'[m][side] = Mirrored(k, s.home, s.away)[side]
<1> DEFINE s == resolver[r]
           x == First(s.left)
           fills(m, side) == {f \in Slots(x, s.home, s.away) : Legs[x.tie][f[1]] = m /\ f[2] = side}
           team(m, side) == IF fills(m, side) = {} THEN matches[m][side]
                            ELSE Mirrored((CHOOSE f \in fills(m, side) : TRUE)[1], s.home, s.away)[side]
<1>1. /\ s.pc = "mirror" /\ UNCHANGED <<ties, rewrites, overtaken>> /\ Advance(r, s, TRUE)
      /\ matches' = [m \in Matches |-> [matches[m] EXCEPT !.home = team(m, "home"), !.away = team(m, "away")]]
  BY DEF Mirror
<1>2. Drops(r)
  BY <1>1, AdvanceIs DEF Busy
<1>3. \A m \in Matches, side \in Sides :
         \/ /\ team(m, side) = matches[m][side]
            /\ ~\E k \in DOMAIN x.legs : Legs[x.tie][k] = m /\ <<k, side>> \in Slots(x, s.home, s.away)
         \/ \E k \in DOMAIN x.legs :
              /\ Legs[x.tie][k] = m /\ <<k, side>> \in Slots(x, s.home, s.away)
              /\ team(m, side) = Mirrored(k, s.home, s.away)[side]
  <2> TAKE m \in Matches, side \in Sides
  <2>1. CASE fills(m, side) = {}
    BY <2>1
  <2>2. CASE fills(m, side) # {}
    <3>1. PICK f : f \in fills(m, side) /\ f = (CHOOSE g \in fills(m, side) : TRUE)
      BY <2>2
    <3>2. f \in Slots(x, s.home, s.away) /\ Legs[x.tie][f[1]] = m /\ f[2] = side
      BY <3>1
    <3>3. f \in (DOMAIN x.legs) \X {"home", "away"}
      BY <3>2 DEF Slots
    <3>4. f[1] \in DOMAIN x.legs /\ f = <<f[1], side>>
      BY <3>2, <3>3
    <3>5. team(m, side) = Mirrored(f[1], s.home, s.away)[side]
      BY <2>2, <3>1
    <3> QED
      BY <3>2, <3>4, <3>5
  <2> QED
    BY <2>1, <2>2
<1> HIDE DEF team
<1>4. /\ matches' = [m \in Matches |-> matches'[m]]
      /\ \A m \in Matches : /\ LegShape(matches'[m]) /\ matches'[m].result = matches[m].result
                            /\ matches'[m].home = team(m, "home") /\ matches'[m].away = team(m, "away")
  <2>1. \A m \in Matches : matches'[m] = [matches[m] EXCEPT !.home = team(m, "home"), !.away = team(m, "away")]
    BY <1>1
  <2>2. \A m \in Matches : LegShape(matches[m])
    BY DEF BracketTypes
  <2>3. matches' = [m \in Matches |-> matches'[m]]
    BY <1>1
  <2> QED
    BY <2>1, <2>2, <2>3 DEF LegShape, Sides
<1>5. \A m \in Matches, side \in Sides : matches'[m][side] = team(m, side)
  BY <1>4 DEF Sides
<1>6. \A m \in Matches, side \in Sides :
         \/ /\ matches'[m][side] = matches[m][side]
            /\ ~\E k \in DOMAIN x.legs : Legs[x.tie][k] = m /\ <<k, side>> \in Slots(x, s.home, s.away)
         \/ \E k \in DOMAIN x.legs :
              /\ Legs[x.tie][k] = m /\ <<k, side>> \in Slots(x, s.home, s.away)
              /\ matches'[m][side] = Mirrored(k, s.home, s.away)[side]
  <2> TAKE m \in Matches, side \in Sides
  <2> DEFINE gone == \E k \in DOMAIN x.legs : Legs[x.tie][k] = m /\ <<k, side>> \in Slots(x, s.home, s.away)
  <2>1. matches'[m][side] = team(m, side)
    BY <1>5
  <2>2. CASE team(m, side) = matches[m][side] /\ ~gone
    BY <2>1, <2>2
  <2>3. CASE \E k \in DOMAIN x.legs :
               /\ Legs[x.tie][k] = m /\ <<k, side>> \in Slots(x, s.home, s.away)
               /\ team(m, side) = Mirrored(k, s.home, s.away)[side]
    BY <2>1, <2>3
  <2> QED
    BY <1>3, <2>2, <2>3
<1> QED
  BY <1>1, <1>2, <1>4, <1>6

LEMMA RunsTyped ==
    ASSUME BracketTypes, NEW r \in Actors, Runs(r)
    PROVE  resolver' = [a \in Actors |-> resolver'[a]] /\ \A a \in Actors : StateShape(resolver'[a])
BY DEF BracketTypes, Runs

LEMMA DropsRuns == ASSUME NEW r, Drops(r) PROVE Runs(r)
BY DEF Drops

LEMMA ResolverTypes ==
    ASSUME BracketTypes, NEW r \in Actors, ResolverStep(r)
    PROVE  BracketTypes'
<1>1. CASE PassStart(r)
  <2>1. Runs(r) /\ UNCHANGED <<matches, ties, rewrites>>
    BY <1>1, PassStartIs
  <2> QED
    BY <2>1, RunsTyped DEF BracketTypes
<1>2. CASE ReadFeeders(r)
  <2>1. Runs(r) /\ UNCHANGED <<matches, ties, rewrites>>
    <3>1. (Drops(r) \/ Runs(r)) /\ UNCHANGED <<matches, ties, rewrites>>
      BY <1>2, ReadFeedersIs
    <3> QED
      BY <3>1, DropsRuns
  <2> QED
    BY <2>1, RunsTyped DEF BracketTypes
<1>3. CASE WriteTie(r)
  <2> DEFINE x == First(resolver[r].left)
  <2>1. /\ Runs(r) /\ UNCHANGED <<matches, rewrites>> /\ ties' = [t \in Ties |-> ties'[t]]
        /\ TieShape(ties'[x.tie]) /\ \A t \in Ties \ {x.tie} : ties'[t] = ties[t]
    <3>1. (Drops(r) \/ Runs(r)) /\ UNCHANGED <<matches, rewrites>>
      BY <1>3, WriteTieIs
    <3>2. /\ ties' = [t \in Ties |-> ties'[t]]
          /\ TieShape(ties'[x.tie]) /\ \A t \in Ties \ {x.tie} : ties'[t] = ties[t]
      BY <1>3, WriteTieIs
    <3> QED
      BY <3>1, <3>2, DropsRuns
  <2> QED
    BY <2>1, RunsTyped DEF BracketTypes
<1>4. CASE Mirror(r)
  <2> DEFINE s == resolver[r]
             x == First(s.left)
  <2>1. /\ Runs(r) /\ UNCHANGED <<ties, rewrites>> /\ matches' = [m \in Matches |-> matches'[m]]
        /\ \A m \in Matches : LegShape(matches'[m]) /\ matches'[m].result = matches[m].result
    BY <1>4, MirrorIs, DropsRuns
  <2>2. \A m \in Matches, side \in Sides : matches'[m][side] = matches[m][side] \/ matches'[m][side] # None
    <3> TAKE m \in Matches, side \in Sides
    <3>1. \/ matches'[m][side] = matches[m][side]
          \/ \E k \in DOMAIN x.legs : /\ <<k, side>> \in Slots(x, s.home, s.away)
                                      /\ matches'[m][side] = Mirrored(k, s.home, s.away)[side]
      BY <1>4, MirrorIs
    <3> QED
      BY <3>1 DEF Slots
  <2>3. \A m \in Matches : matches'[m].result # None =>
          matches'[m].result \in ResultsOf[m] /\ matches'[m].home # None /\ matches'[m].away # None
    BY <2>1, <2>2 DEF BracketTypes, Sides
  <2> QED
    BY <2>1, <2>3, RunsTyped DEF BracketTypes
<1> QED
  BY <1>1, <1>2, <1>3, <1>4 DEF ResolverStep

\* What is done of a result, whoever writes it.
LEMMA ResultWrittenIs ==
    ASSUME BracketTypes, NEW a \in Actors, NEW m \in Matches, NEW res, NEW next,
           res \in ResultsOf[m], next \in {Idle, [pc |-> "due", n |-> 0]},
           matches[m].home # None, matches[m].away # None,
           resolver[a] = Idle, ResultWritten(a, m, res, next)
    PROVE  /\ UNCHANGED ties
           /\ rewrites' = rewrites + (IF matches[m].result = None THEN 0 ELSE 1) /\ rewrites' \in Nat
           /\ ~overtaken' => ~overtaken /\ (rewrites' > 0 => \A b \in Actors : resolver[b] = Idle)
           /\ \A l \in Matches \ {m} : matches'[l] = matches[l]
           /\ matches'[m].result = res
           /\ \A side \in Sides : matches'[m][side] = matches[m][side]
           /\ dirty'
           /\ resolver'[a] = next
           /\ \A b \in Actors \ {a} :
                /\ resolver[b] = Idle => resolver'[b] = Idle
                /\ Busy(resolver'[b]) => /\ Busy(resolver[b]) /\ ~resolver'[b].fresh
                /\ resolver'[b].pc = resolver[b].pc
                /\ Busy(resolver[b]) => resolver'[b].left = resolver[b].left
                /\ resolver[b].pc \in {"write", "mirror"} => /\ resolver'[b].home = resolver[b].home
                                                             /\ resolver'[b].away = resolver[b].away
           /\ BracketTypes'
<1>1. /\ UNCHANGED ties
      /\ rewrites' = rewrites + (IF matches[m].result = None THEN 0 ELSE 1)
      /\ overtaken' = (overtaken \/ (rewrites' > 0 /\ \E b \in Actors : resolver[b] # Idle))
      /\ matches' = [matches EXCEPT ![m].result = res]
      /\ dirty' = TRUE
  BY DEF ResultWritten
<1>2. rewrites' \in Nat
  BY <1>1 DEF BracketTypes
<1>3. /\ matches' = [l \in Matches |-> matches'[l]] /\ \A l \in Matches \ {m} : matches'[l] = matches[l]
      /\ matches'[m] = [matches[m] EXCEPT !.result = res]
  BY <1>1 DEF BracketTypes
<1>4. LegShape(matches'[m]) /\ matches'[m].result = res /\ \A side \in Sides : matches'[m][side] = matches[m][side]
  BY <1>3 DEF BracketTypes, LegShape, Sides
<1>5. /\ \A b \in Actors : StateShape(resolver'[b])
      /\ resolver' = [b \in Actors |-> resolver'[b]]
      /\ resolver'[a] = next
      /\ \A b \in Actors \ {a} :
           /\ resolver[b] = Idle => resolver'[b] = Idle
           /\ Busy(resolver'[b]) => Busy(resolver[b]) /\ ~resolver'[b].fresh
           /\ resolver'[b].pc = resolver[b].pc
           /\ Busy(resolver[b]) => resolver'[b].left = resolver[b].left
           /\ resolver[b].pc \in {"write", "mirror"} => /\ resolver'[b].home = resolver[b].home
                                                        /\ resolver'[b].away = resolver[b].away
  <2>1. resolver' = [b \in Actors |->
          IF b = a THEN next
          ELSE IF "fresh" \in DOMAIN resolver[b] THEN [resolver[b] EXCEPT !.fresh = FALSE] ELSE resolver[b]]
    BY DEF ResultWritten
  <2>2. resolver'[a] = next /\ StateShape(next) /\ resolver' = [b \in Actors |-> resolver'[b]]
    BY <2>1 DEF StateShape, Idle
  <2>3. ASSUME NEW b \in Actors \ {a}
        PROVE  /\ StateShape(resolver'[b])
               /\ resolver[b] = Idle => resolver'[b] = Idle
               /\ Busy(resolver'[b]) => Busy(resolver[b]) /\ ~resolver'[b].fresh
               /\ resolver'[b].pc = resolver[b].pc
               /\ Busy(resolver[b]) => resolver'[b].left = resolver[b].left
               /\ resolver[b].pc \in {"write", "mirror"} => /\ resolver'[b].home = resolver[b].home
                                                            /\ resolver'[b].away = resolver[b].away
    <3> DEFINE s == resolver[b]
    <3> PICK no : no = FALSE
      OBVIOUS
    <3>1. CASE "fresh" \notin DOMAIN s
      <4>1. resolver'[b] = s
        BY <2>1, <3>1
      <4>2. ~Busy(s)
        <5> SUFFICES ASSUME Busy(s) PROVE FALSE
          OBVIOUS
        <5>1. s # [pc |-> "tie", n |-> s.n, changed |-> s.changed, fresh |-> s.fresh, left |-> s.left]
          BY <3>1
        <5>2. s # [pc |-> s.pc, n |-> s.n, changed |-> s.changed, fresh |-> s.fresh,
                   left |-> s.left, home |-> s.home, away |-> s.away]
          BY <3>1
        <5> QED
          BY <5>1, <5>2, BusyState
      <4> QED
        BY <4>1, <4>2 DEF BracketTypes, Busy
    <3>2. CASE "fresh" \in DOMAIN s
      <4>1. resolver'[b] = [s EXCEPT !.fresh = no]
        BY <2>1, <3>2
      <4>2. s # Idle /\ s # [pc |-> "due", n |-> s.n]
        BY <3>2 DEF Idle
      <4>3. /\ s.left # {} /\ (\A x \in s.left : TakenShape(x))
            /\ (\A x, y \in s.left : x.tie = y.tie => x = y)
            /\ Busy(s)
        BY <4>2 DEF BracketTypes, StateShape, Busy
      <4>4. CASE s = [pc |-> "tie", n |-> s.n, changed |-> s.changed, fresh |-> s.fresh, left |-> s.left]
        <5>1. resolver'[b] = [pc |-> "tie", n |-> s.n, changed |-> s.changed, fresh |-> no, left |-> s.left]
          BY <4>1, <4>4
        <5> QED
          BY <4>2, <4>3, <4>4, <5>1 DEF StateShape
      <4>5. CASE /\ s.pc \in {"write", "mirror"}
                 /\ s = [pc |-> s.pc, n |-> s.n, changed |-> s.changed, fresh |-> s.fresh,
                         left |-> s.left, home |-> s.home, away |-> s.away]
        <5>1. resolver'[b] = [pc |-> s.pc, n |-> s.n, changed |-> s.changed, fresh |-> no,
                              left |-> s.left, home |-> s.home, away |-> s.away]
          BY <4>1, <4>5
        <5> QED
          BY <4>2, <4>3, <4>5, <5>1 DEF StateShape
      <4> QED
        BY <4>2, <4>4, <4>5 DEF BracketTypes, StateShape
    <3> QED
      BY <3>1, <3>2
  <2> QED
    BY <2>2, <2>3
<1>6. BracketTypes'
  BY <1>1, <1>2, <1>3, <1>4, <1>5 DEF BracketTypes, Sides
<1> QED
  BY <1>1, <1>2, <1>3, <1>4, <1>5, <1>6

-----------------------------------------------------------------------------
(* As long as no resolveSeason is overtaken, what is there stays.           *)

TiesGrow == \A t \in Ties, side \in Sides : ties[t][side] # None => ties'[t][side] = ties[t][side]
LegsGrow == \A m \in Matches :
    /\ matches[m].result # None => matches'[m] = matches[m]
    /\ \A side \in Sides : matches[m][side] # None => matches'[m][side] = matches[m][side]

\* What a run holds of the tie at hand.
LEMMA AtHand ==
    ASSUME BracketTypes, Orderly, NEW r \in Actors, Busy(resolver[r])
    PROVE  LET s == resolver[r] IN LET x == First(s.left) IN
           /\ x \in Held(r) /\ x.tie \in Ties /\ TieShape(x.row) /\ ReadStands(x) /\ TakenShape(x)
           /\ rewrites > 0 /\ s.pc # "mirror" => x.row = ties[x.tie]
<1>1. LET s == resolver[r] IN LET x == First(s.left) IN
        x \in Held(r) /\ x.tie \in Ties /\ TieShape(x.row) /\ TakenShape(x)
  BY BusyState DEF TakenShape
<1>2. resolver[r] # Idle
  BY DEF Busy, Idle
<1> QED
  BY <1>1, <1>2 DEF Orderly, ReadsStand, Alone

LEMMA WriteSides ==
    ASSUME BracketTypes, Orderly, NEW r \in Actors, WriteTie(r)
    PROVE  LET s == resolver[r] IN LET x == First(s.left) IN
           /\ TiesGrow
           /\ \A side \in Sides : s[side] # None => ties'[x.tie][side] = s[side]
<1> DEFINE s == resolver[r]
           x == First(s.left)
           w == Wanted(x, s.home, s.away)
<1>1. s.pc = "write" /\ Busy(s)
  BY DEF WriteTie, Busy
<1>2. x.tie \in Ties /\ ReadStands(x) /\ TieShape(x.row) /\ x \in Held(r) /\ (rewrites > 0 => x.row = ties[x.tie])
  BY <1>1, AtHand
<1>3. \A t \in Ties \ {x.tie} : ties'[t] = ties[t]
  BY WriteTieIs
<1>4. \A side \in Sides : ties'[x.tie][side] = IF s[side] # x.row[side] THEN s[side] ELSE ties[x.tie][side]
  <2>1. \A side \in Sides : ties'[x.tie][side] = IF w[side] # x.row[side] THEN w[side] ELSE ties[x.tie][side]
    BY WriteTieIs
  <2>2. w.home = s.home /\ w.away = s.away
    BY <1>2, WantedIs
  <2> HIDE DEF w, x, s
  <2> QED
    BY <2>1, <2>2 DEF Sides
<1>5. ASSUME NEW side \in Sides
      PROVE  /\ ties[x.tie][side] # None => ties'[x.tie][side] = ties[x.tie][side]
             /\ s[side] # None => ties'[x.tie][side] = s[side]
  <2>1. CASE x.row[side] # None
    <3>1. s[side] = x.row[side] /\ ties[x.tie][side] = x.row[side]
      BY <1>1, <1>2, <2>1 DEF Orderly, PicksStand, Picked, ReadStands
    <3> QED
      BY <1>4, <3>1
  <2>2. CASE x.row[side] = None /\ s[side] = None
    BY <1>4, <2>2
  <2>3. CASE x.row[side] = None /\ s[side] # None
    <3>1. ties'[x.tie][side] = s[side]
      BY <1>4, <2>3
    <3>2. ASSUME ties[x.tie][side] # None PROVE ties[x.tie][side] = s[side]
      <4>1. rewrites = 0
        BY <1>2, <2>3, <3>2 DEF BracketTypes
      <4>2. s[side] = Given(x.tie, side) /\ ties[x.tie][side] = Given(x.tie, side)
        BY <1>1, <1>2, <2>3, <3>2, <4>1 DEF Orderly, Steady
      <4> QED
        BY <4>2
    <3> QED
      BY <3>1, <3>2
  <2> QED
    BY <2>1, <2>2, <2>3
<1>6. TiesGrow
  BY <1>3, <1>5 DEF TiesGrow
<1> QED
  BY <1>5, <1>6

LEMMA MirrorSides ==
    ASSUME BracketTypes, Orderly, NEW r \in Actors, Mirror(r)
    PROVE  LegsGrow /\ LegsPaired'
<1> DEFINE s == resolver[r]
           x == First(s.left)
<1>1. s.pc = "mirror" /\ Busy(s) /\ UNCHANGED ties
  BY DEF Mirror, Busy
<1>2. x.tie \in Ties /\ ReadStands(x) /\ TakenShape(x)
  BY <1>1, AtHand
<1>3. \A side \in Sides : s[side] # None => ties[x.tie][side] = s[side]
  BY <1>1 DEF Orderly, PicksStand, Picked
<1>4. DOMAIN x.legs = DOMAIN Legs[x.tie]
  BY <1>2 DEF TakenShape
<1>5. ASSUME NEW k \in DOMAIN Legs[x.tie], NEW side \in Sides, <<k, side>> \in Slots(x, s.home, s.away)
      PROVE  /\ Mirrored(k, s.home, s.away)[side] # None
             /\ Mirrored(k, s.home, s.away)[side] = Mirrored(k, ties[x.tie].home, ties[x.tie].away)[side]
  <2>1. Mirrored(k, s.home, s.away)[side] # None
    BY <1>5 DEF Slots
  <2> QED
    BY <2>1, <1>3 DEF Mirrored, Sides
<1>6. \A m \in Matches, side \in Sides :
        \/ matches'[m][side] = matches[m][side]
        \/ \E k \in DOMAIN Legs[x.tie] :
             /\ Legs[x.tie][k] = m
             /\ matches'[m][side] # None
             /\ matches'[m][side] = Mirrored(k, ties[x.tie].home, ties[x.tie].away)[side]
  <2> TAKE m \in Matches, side \in Sides
  <2>1. \/ matches'[m][side] = matches[m][side]
        \/ \E k \in DOMAIN x.legs :
             /\ Legs[x.tie][k] = m /\ <<k, side>> \in Slots(x, s.home, s.away)
             /\ matches'[m][side] = Mirrored(k, s.home, s.away)[side]
    BY MirrorIs
  <2> QED
    BY <2>1, <1>4, <1>5
<1>7. \A m \in Matches, side \in Sides : matches[m][side] # None => matches'[m][side] = matches[m][side]
  <2> SUFFICES ASSUME NEW m \in Matches, NEW side \in Sides, matches[m][side] # None,
                      NEW k \in DOMAIN Legs[x.tie], Legs[x.tie][k] = m,
                      matches'[m][side] = Mirrored(k, ties[x.tie].home, ties[x.tie].away)[side]
               PROVE  matches'[m][side] = matches[m][side]
    BY <1>6
  <2> QED
    BY <1>2 DEF Orderly, LegsPaired, Paired
<1>8. \A m \in Matches : matches[m].result # None => matches'[m] = matches[m]
  <2> SUFFICES ASSUME NEW m \in Matches, matches[m].result # None PROVE matches'[m] = matches[m]
    OBVIOUS
  <2>1. LegShape(matches[m]) /\ LegShape(matches'[m]) /\ matches'[m].result = matches[m].result
    BY MirrorIs DEF BracketTypes
  <2>2. \A side \in Sides : matches'[m][side] = matches[m][side]
    BY <1>7 DEF BracketTypes, Sides
  <2> QED
    BY <2>1, <2>2 DEF LegShape, Sides
<1>9. LegsPaired'
  <2> SUFFICES ASSUME NEW t \in Ties, NEW k \in DOMAIN Legs[t], NEW side \in Sides,
                      matches'[Legs[t][k]][side] # None
               PROVE  matches'[Legs[t][k]][side] = Mirrored(k, ties[t].home, ties[t].away)[side]
    BY <1>1 DEF LegsPaired, Paired
  <2>1. Legs[t][k] \in Matches
    BY BracketAssumption DEF BracketAssumption
  <2>2. CASE matches'[Legs[t][k]][side] = matches[Legs[t][k]][side]
    BY <2>2 DEF Orderly, LegsPaired, Paired
  <2>3. CASE matches'[Legs[t][k]][side] # matches[Legs[t][k]][side]
    <3>1. PICK l \in DOMAIN Legs[x.tie] :
             /\ Legs[x.tie][l] = Legs[t][k]
             /\ matches'[Legs[t][k]][side] = Mirrored(l, ties[x.tie].home, ties[x.tie].away)[side]
      BY <1>6, <2>1, <2>3
    <3>2. t = x.tie /\ k = l
      BY <1>2, <3>1, BracketAssumption DEF BracketAssumption
    <3> QED
      BY <3>1, <3>2
  <2> QED
    BY <2>2, <2>3
<1> QED
  BY <1>7, <1>8, <1>9 DEF LegsGrow

LEMMA PairsKeep ==
    ASSUME LegsPaired, TiesGrow, \A m \in Matches, side \in Sides : matches'[m][side] = matches[m][side]
    PROVE  LegsPaired'
<1> SUFFICES ASSUME NEW t \in Ties, NEW k \in DOMAIN Legs[t], NEW side \in Sides,
                    matches'[Legs[t][k]][side] # None
             PROVE  matches'[Legs[t][k]][side] = Mirrored(k, ties'[t].home, ties'[t].away)[side]
  BY DEF LegsPaired, Paired
<1>1. Legs[t][k] \in Matches
  BY BracketAssumption DEF BracketAssumption
<1>2. matches'[Legs[t][k]][side] = Mirrored(k, ties[t].home, ties[t].away)[side]
  BY <1>1 DEF LegsPaired, Paired
<1> QED
  BY <1>2 DEF TiesGrow, Mirrored, Sides

LEMMA SeedsKeep == SeedsStay /\ TiesGrow => SeedsStay'
BY DEF SeedsStay, TiesGrow

LEMMA ReadKeeps ==
    ASSUME NEW x, x.tie \in Ties, ReadStands(x), TiesGrow, LegsGrow
    PROVE  ReadStands(x)'
<1>1. \A k \in DOMAIN Legs[x.tie] : Legs[x.tie][k] \in Matches
  BY BracketAssumption DEF BracketAssumption
<1>2. \A side \in Sides : x.row[side] # None => ties'[x.tie][side] = x.row[side]
  BY DEF ReadStands, TiesGrow
<1>3. ASSUME NEW k \in DOMAIN Legs[x.tie]
      PROVE  /\ x.legs[k].result # None =>
                  x.legs[k] = Now(x, k)' /\ x.legs[k].home # None /\ x.legs[k].away # None
             /\ \A side \in Sides : /\ x.legs[k][side] # None => Now(x, k)'[side] = x.legs[k][side]
                                    /\ Paired(k, side, x.legs[k], x.row)
  BY <1>1 DEF ReadStands, LegsGrow, Now
<1> QED
  BY <1>2, <1>3 DEF ReadStands

\* A run whose state is as it was, or that has dropped something, holds no more than it did.
Keeps(a) ==
    /\ Held(a)' \subseteq Held(a)
    /\ Busy(resolver'[a]) => Busy(resolver[a]) /\ (resolver'[a].fresh => resolver[a].fresh)

LEMMA OthersKeep ==
    ASSUME NEW r, NEW b \in Actors \ {r}, Runs(r)
    PROVE  Keeps(b) /\ Held(b)' = Held(b)
BY DEF Keeps, Runs, Held

LEMMA DropsKeep ==
    ASSUME NEW r \in Actors, Busy(resolver[r]),
           \/ Drops(r)
           \/ /\ Runs(r) /\ Busy(resolver'[r])
              /\ resolver'[r].left = resolver[r].left /\ resolver'[r].fresh = resolver[r].fresh
    PROVE  Keeps(r)
<1>1. CASE Drops(r)
  <2> DEFINE left == resolver[r].left \ {First(resolver[r].left)}
  <2>1. CASE left = {}
    <3>1. resolver'[r].pc \in {"idle", "due"}
      BY <1>1, <2>1 DEF Drops
    <3> QED
      BY <3>1 DEF Keeps, Busy, Held
  <2>2. CASE left # {}
    <3>1. resolver'[r].pc = "tie" /\ resolver'[r].left = left /\ resolver'[r].fresh = resolver[r].fresh
      BY <1>1, <2>2 DEF Drops
    <3> QED
      BY <3>1 DEF Keeps, Busy, Held
  <2> QED
    BY <2>1, <2>2
<1>2. CASE /\ Runs(r) /\ Busy(resolver'[r])
           /\ resolver'[r].left = resolver[r].left /\ resolver'[r].fresh = resolver[r].fresh
  BY <1>2 DEF Keeps, Held
<1> QED
  BY <1>1, <1>2

LEMMA ReadsKeep ==
    ASSUME BracketTypes, Orderly, TiesGrow, LegsGrow, NEW a \in Actors, Keeps(a)
    PROVE  \A x \in Held(a)' : x.tie \in Ties /\ ReadStands(x)'
<1> TAKE x \in Held(a)'
<1>1. x \in Held(a)
  BY DEF Keeps
<1>2. Busy(resolver[a]) /\ x \in resolver[a].left
  BY <1>1 DEF Held
<1>3. x.tie \in Ties
  BY <1>2, BusyState DEF TakenShape
<1>4. ReadStands(x)
  BY <1>1 DEF Orderly, ReadsStand
<1> QED
  BY <1>3, <1>4, ReadKeeps

LEMMA FreshKeeps ==
    ASSUME BracketTypes, Orderly, NEW a \in Actors, Keeps(a),
           \A m \in Matches : matches'[m].result = matches[m].result
    PROVE  \A x \in Held(a)' : resolver'[a].fresh =>
             \A k \in DOMAIN Legs[x.tie] : x.legs[k].result = Now(x, k)'.result
<1> SUFFICES ASSUME NEW x \in Held(a)', resolver'[a].fresh, NEW k \in DOMAIN Legs[x.tie]
             PROVE  x.legs[k].result = Now(x, k)'.result
  OBVIOUS
<1>1. x \in Held(a) /\ resolver[a].fresh
  BY DEF Keeps, Held
<1>2. x.legs[k].result = Now(x, k).result
  BY <1>1 DEF Orderly, FreshReads
<1>3. x.tie \in Ties
  BY <1>1, BusyState DEF Held, TakenShape
<1>4. Legs[x.tie][k] \in Matches
  BY <1>3, BracketAssumption DEF BracketAssumption
<1> QED
  BY <1>2, <1>4 DEF Now

LEMMA OthersPicked ==
    ASSUME BracketTypes, Orderly, TiesGrow, NEW r, NEW b \in Actors \ {r}, Runs(r)
    PROVE  Picked(b)'
<1> DEFINE s == resolver[b]
           x == First(s.left)
<1>1. resolver'[b] = s
  BY DEF Runs
<1>2. CASE s.pc \in {"write", "mirror"}
  <2>1. x.tie \in Ties
    BY <1>2, AtHand DEF Busy
  <2>2. Picked(b)
    BY DEF Orderly, PicksStand
  <2> HIDE DEF x
  <2>3. \A side \in Sides :
          /\ x.row[side] # None => s[side] = x.row[side]
          /\ s.pc = "mirror" /\ s[side] # None => ties'[x.tie][side] = s[side]
    BY <1>2, <2>1, <2>2 DEF Picked, TiesGrow, x
  <2> QED
    BY <1>1, <2>3 DEF Picked, x
<1>3. CASE s.pc \notin {"write", "mirror"}
  BY <1>1, <1>3 DEF Picked
<1> QED
  BY <1>2, <1>3

\* What the drop of a tie leaves to be said of the run that drops it.
LEMMA DropsPicked ==
    ASSUME NEW r \in Actors, Drops(r)
    PROVE  resolver'[r].pc \notin {"write", "mirror"} /\ Picked(r)'
<1> DEFINE left == resolver[r].left \ {First(resolver[r].left)}
<1>1. left = {} => resolver'[r].pc \in {"idle", "due"}
  BY DEF Drops
<1>2. left # {} => resolver'[r].pc = "tie"
  BY DEF Drops
<1>3. resolver'[r].pc \notin {"write", "mirror"}
  BY <1>1, <1>2
<1> QED
  BY <1>3 DEF Picked

LEMMA AloneKeeps ==
    ASSUME BracketTypes, Orderly, NEW r \in Actors, Busy(resolver[r]), rewrites' = rewrites,
           \A t \in Ties \ {First(resolver[r].left).tie} : ties'[t] = ties[t],
           ties' = ties \/ resolver[r].pc = "write",
           \/ Drops(r)
           \/ /\ Runs(r) /\ resolver'[r].left = resolver[r].left /\ resolver'[r].fresh = resolver[r].fresh
              /\ \/ resolver'[r].pc = "mirror"
                 \/ resolver[r].pc = "tie" /\ ties' = ties
    PROVE  Alone'
<1> DEFINE s == resolver[r]
           x == First(s.left)
<1> SUFFICES ASSUME rewrites > 0, NEW a \in Actors, resolver'[a] # Idle
             PROVE  /\ \A b \in Actors \ {a} : resolver'[b] = Idle
                    /\ Busy(resolver'[a]) =>
                         /\ resolver'[a].fresh
                         /\ \A y \in Held(a)' : \/ y.row = ties'[y.tie]
                                                \/ resolver'[a].pc = "mirror" /\ y = First(resolver'[a].left)
  BY DEF Alone
<1>1. s # Idle
  BY DEF Busy, Idle
<1>2. /\ \A b \in Actors \ {r} : resolver[b] = Idle
      /\ s.fresh
      /\ \A y \in Held(r) : y.row = ties[y.tie] \/ (s.pc = "mirror" /\ y = x)
  BY <1>1 DEF Orderly, Alone
<1>3. Runs(r)
  BY DropsRuns
<1>4. \A b \in Actors \ {r} : resolver'[b] = Idle
  BY <1>2, <1>3 DEF Runs
<1>5. a = r
  BY <1>4
<1>6. /\ x \in s.left /\ Held(r) = s.left /\ (\A y, z \in s.left : y.tie = z.tie => y = z)
      /\ \A y \in s.left : y.tie \in Ties
  BY BusyState DEF TakenShape
<1>7. \A y \in s.left \ {x} : y.row = ties'[y.tie]
  BY <1>2, <1>6
<1>8. CASE Drops(r)
  <2> DEFINE left == s.left \ {x}
  <2>1. CASE left = {}
    BY <1>4, <1>5, <1>8, <2>1 DEF Drops, Busy
  <2>2. CASE left # {}
    <3>1. resolver'[r].left = left /\ resolver'[r].fresh = s.fresh /\ resolver'[r].pc = "tie"
      BY <1>8, <2>2 DEF Drops
    <3> QED
      BY <1>2, <1>4, <1>5, <1>7, <3>1 DEF Held
  <2> QED
    BY <2>1, <2>2
<1>9. CASE /\ resolver'[r].left = s.left /\ resolver'[r].fresh = s.fresh
           /\ \/ resolver'[r].pc = "mirror"
              \/ s.pc = "tie" /\ ties' = ties
  <2>1. Held(r)' \subseteq s.left
    BY <1>9 DEF Held
  <2>2. \A y \in s.left : \/ y.row = ties'[y.tie]
                          \/ resolver'[r].pc = "mirror" /\ y = x
    BY <1>2, <1>6, <1>7, <1>9
  <2> HIDE DEF x
  <2>3. x = First(resolver'[r].left)
    BY <1>9 DEF x
  <2> QED
    BY <1>2, <1>4, <1>5, <1>9, <2>1, <2>2, <2>3
<1> QED
  BY <1>8, <1>9

-----------------------------------------------------------------------------
(* Settled ties stay settled, and a fresh run settles what it takes.        *)

LEMMA LegsAreMatches == ASSUME NEW t \in Ties PROVE \A k \in DOMAIN Legs[t] : Legs[t][k] \in Matches
BY BracketAssumption DEF BracketAssumption

\* The legs of a tie that can be decided have all been played.
LEMMA DecidedLegs ==
    ASSUME NEW t \in Ties, NEW home, NEW away, Decidable(home, away, LegsOf(t))
    PROVE  /\ home # None /\ away # None /\ DOMAIN LegsOf(t) = DOMAIN Legs[t]
           /\ \A k \in DOMAIN Legs[t] : matches[Legs[t][k]].result # None
BY DEF Decidable, LegsOf

LEMMA PlayedLegsStay ==
    ASSUME NEW t \in Ties, LegsGrow, \A k \in DOMAIN Legs[t] : matches[Legs[t][k]].result # None
    PROVE  LegsOf(t)' = LegsOf(t)
BY LegsAreMatches DEF LegsGrow, LegsOf

LEMMA SettledKeeps ==
    ASSUME NEW t \in Ties, ties'[t] = ties[t], LegsGrow, Settled(t),
           \A m \in Matches : matches'[m].result = matches[m].result
    PROVE  Settled(t)'
<1> SUFFICES ASSUME Decidable(ties[t].home, ties[t].away, LegsOf(t)')
             PROVE  Tells(ties[t], LegsOf(t)')
  BY DEF Settled, Tells
<1>1. \A k \in DOMAIN Legs[t] : matches'[Legs[t][k]].result # None
  BY DEF Decidable, LegsOf
<1>2. \A k \in DOMAIN Legs[t] : matches[Legs[t][k]].result # None
  BY <1>1, LegsAreMatches
<1>3. LegsOf(t)' = LegsOf(t)
  BY <1>2, PlayedLegsStay
<1> QED
  BY <1>3 DEF Settled

\* A tie whose legs were all played when it was read.
LEMMA ReadLegs ==
    ASSUME NEW x, ReadStands(x), TakenShape(x),
           \A k \in DOMAIN Legs[x.tie] : x.legs[k].result # None
    PROVE  /\ x.legs = LegsOf(x.tie)
           /\ Legs[x.tie] # <<>> => x.row.home # None /\ x.row.away # None
<1>1. x.tie \in Ties /\ x.legs = [k \in DOMAIN Legs[x.tie] |-> x.legs[k]]
  BY DEF TakenShape
<1>2. \A k \in DOMAIN Legs[x.tie] :
        x.legs[k] = matches[Legs[x.tie][k]] /\ x.legs[k].home # None /\ x.legs[k].away # None
  BY DEF ReadStands, Now
<1>3. x.legs = LegsOf(x.tie)
  BY <1>1, <1>2 DEF LegsOf
<1>4. ASSUME Legs[x.tie] # <<>> PROVE x.row.home # None /\ x.row.away # None
  <2>1. 1 \in DOMAIN Legs[x.tie]
    BY <1>1, <1>4, BracketAssumption DEF BracketAssumption
  <2>2. \A side \in Sides : Paired(1, side, x.legs[1], x.row)
    BY <2>1 DEF ReadStands
  <2>3. x.legs[1].home # None /\ x.legs[1].away # None
    BY <1>2, <2>1
  <2> QED
    BY <2>2, <2>3 DEF Paired, Mirrored, Sides
<1> QED
  BY <1>3, <1>4

LEMMA FreshTie ==
    ASSUME BracketTypes, Orderly, NEW a \in Actors, NEW x \in Held(a), resolver[a].fresh,
           Decidable(ties[x.tie].home, ties[x.tie].away, LegsOf(x.tie))
    PROVE  /\ x.legs = LegsOf(x.tie)
           /\ x.row.home # None /\ x.row.home = ties[x.tie].home
           /\ x.row.away # None /\ x.row.away = ties[x.tie].away
<1>1. x.tie \in Ties /\ TakenShape(x)
  BY BusyState DEF Held, TakenShape
<1>2. ReadStands(x)
  BY DEF Orderly, ReadsStand
<1>3. \A k \in DOMAIN Legs[x.tie] : x.legs[k].result # None
  BY <1>1, DecidedLegs DEF Orderly, FreshReads, Now
<1>4. x.legs = LegsOf(x.tie) /\ (Legs[x.tie] # <<>> => x.row.home # None /\ x.row.away # None)
  BY <1>1, <1>2, <1>3, ReadLegs
<1>5. Legs[x.tie] # <<>>
  <2>1. LegsOf(x.tie) # <<>> /\ Legs[x.tie] \in Seq(Matches)
    BY <1>1, BracketAssumption DEF Decidable, BracketAssumption
  <2>2. Legs[x.tie] = <<>> => LegsOf(x.tie) = <<>>
    BY DEF LegsOf
  <2> QED
    BY <2>1, <2>2
<1> QED
  BY <1>2, <1>4, <1>5 DEF ReadStands, Sides

\* A write that decides a tie writes the outcome of the legs as they stand, whatever
\* was written since the tie was read.
LEMMA WriteDecides ==
    ASSUME BracketTypes, Orderly, NEW r \in Actors, WriteTie(r),
           Decidable(resolver[r].home, resolver[r].away, First(resolver[r].left).legs)
    PROVE  LET s == resolver[r] IN LET x == First(s.left) IN
           /\ x.legs = LegsOf(x.tie)
           /\ ties'[x.tie].home = s.home /\ ties'[x.tie].away = s.away
           /\ \A c \in Columns : ties'[x.tie][c] = Aggregate(s.home, s.away, x.legs)[c]
<1> DEFINE s == resolver[r]
           x == First(s.left)
           w == Wanted(x, s.home, s.away)
           agg == Aggregate(s.home, s.away, x.legs)
<1>1. s.pc = "write" /\ Busy(s)
  BY DEF WriteTie, Busy
<1>2. /\ x.tie \in Ties /\ ReadStands(x) /\ TieShape(x.row) /\ TakenShape(x) /\ x \in Held(r)
      /\ rewrites > 0 => x.row = ties[x.tie]
  BY <1>1, AtHand
<1>3. s.home # None /\ s.away # None /\ \A k \in DOMAIN x.legs : x.legs[k].result # None
  BY DEF Decidable
<1>4. x.legs = LegsOf(x.tie)
  BY <1>2, <1>3, ReadLegs DEF TakenShape
<1>5. ties'[x.tie].home = s.home /\ ties'[x.tie].away = s.away
  BY <1>3, WriteSides DEF Sides
<1>6. \A c \in Columns : w[c] = agg[c]
  BY <1>2, WantedIs
<1>7. \A c \in Columns : ties'[x.tie][c] = IF agg[c] # x.row[c] THEN agg[c] ELSE ties[x.tie][c]
  <2>1. \A c \in Columns : ties'[x.tie][c] = IF w[c] # x.row[c] THEN w[c] ELSE ties[x.tie][c]
    BY WriteTieIs
  <2> HIDE DEF w, x, s, agg
  <2> QED
    BY <1>6, <2>1
<1>8. ASSUME NEW c \in Columns, agg[c] = x.row[c] PROVE ties[x.tie][c] = agg[c]
  <2>1. CASE rewrites > 0
    BY <1>2, <1>8, <2>1
  <2>2. CASE rewrites = 0
    <3>1. Bare(x.row) \/ ties[x.tie][c] = x.row[c]
      BY <1>2, <2>2 DEF Orderly, Steady
    <3>2. Sound(ties[x.tie], LegsOf(x.tie))
      BY <1>2, <2>2 DEF Orderly, Steady
    <3>3. CASE Bare(x.row) /\ Bare(ties[x.tie])
      BY <1>8, <3>3 DEF Bare
    <3>4. CASE Decidable(ties[x.tie].home, ties[x.tie].away, LegsOf(x.tie)) /\ Tells(ties[x.tie], LegsOf(x.tie))
      <4>1. ties[x.tie].home # None /\ ties[x.tie].away # None
        BY <3>4 DEF Decidable
      <4>2. ties[x.tie].home = s.home /\ ties[x.tie].away = s.away
        BY <1>2, <1>5, <4>1, WriteSides DEF TiesGrow, Sides
      <4>3. ties[x.tie][c] = Aggregate(ties[x.tie].home, ties[x.tie].away, LegsOf(x.tie))[c]
        BY <3>4 DEF Tells
      <4> QED
        BY <1>4, <4>2, <4>3
    <3> QED
      BY <1>8, <3>1, <3>2, <3>3, <3>4 DEF Sound
  <2> QED
    BY <2>1, <2>2 DEF BracketTypes
<1>9. \A c \in Columns : ties'[x.tie][c] = agg[c]
  BY <1>7, <1>8
<1> QED
  BY <1>4, <1>5, <1>9

\* A write that decides nothing leaves the outcome alone.
LEMMA WriteDecidesNot ==
    ASSUME BracketTypes, Orderly, NEW r \in Actors, WriteTie(r),
           ~Decidable(resolver[r].home, resolver[r].away, First(resolver[r].left).legs)
    PROVE  LET x == First(resolver[r].left) IN \A c \in Columns : ties'[x.tie][c] = ties[x.tie][c]
<1> DEFINE s == resolver[r]
           x == First(s.left)
           w == Wanted(x, s.home, s.away)
<1>1. TieShape(x.row)
  BY AtHand DEF WriteTie, Busy
<1>2. \A c \in Columns : w[c] = x.row[c]
  BY <1>1, WantedIs
<1>3. \A c \in Columns : ties'[x.tie][c] = IF w[c] # x.row[c] THEN w[c] ELSE ties[x.tie][c]
  BY WriteTieIs
<1> HIDE DEF w, x
<1>4. \A c \in Columns : ties'[x.tie][c] = ties[x.tie][c]
  BY <1>2, <1>3
<1> QED
  BY <1>4 DEF x

\* The teams of a tie whose legs have all been played are known.
LEMMA PlayedTeams ==
    ASSUME BracketTypes, Orderly, NEW t \in Ties, NEW home, NEW away,
           Decidable(home, away, LegsOf(t))
    PROVE  ties[t].home # None /\ ties[t].away # None
<1>1. Legs[t] \in Seq(Matches) /\ Legs[t] # <<>>
  <2>1. LegsOf(t) # <<>> /\ Legs[t] \in Seq(Matches)
    BY BracketAssumption DEF Decidable, BracketAssumption
  <2>2. Legs[t] = <<>> => LegsOf(t) = <<>>
    BY DEF LegsOf
  <2> QED
    BY <2>1, <2>2
<1>2. 1 \in DOMAIN Legs[t] /\ Legs[t][1] \in Matches
  BY <1>1
<1>3. matches[Legs[t][1]].result # None
  BY <1>2, DecidedLegs
<1>4. \A side \in Sides : matches[Legs[t][1]][side] # None
  BY <1>2, <1>3 DEF BracketTypes, Sides
<1>5. \A side \in Sides : Paired(1, side, matches[Legs[t][1]], ties[t])
  BY <1>2 DEF Orderly, LegsPaired
<1> QED
  BY <1>4, <1>5 DEF Paired, Mirrored, Sides

LEMMA WriteSettles ==
    ASSUME BracketTypes, Orderly, NEW r \in Actors, WriteTie(r)
    PROVE  \A t \in Ties :
             Settled(t) \/ (resolver[r].fresh /\ t = First(resolver[r].left).tie) => Settled(t)'
<1> DEFINE s == resolver[r]
           x == First(s.left)
<1> PICK T : T = x.tie
  OBVIOUS
<1>1. s.pc = "write" /\ Busy(s) /\ UNCHANGED matches
  BY DEF WriteTie, Busy
<1>2. T \in Ties /\ x \in Held(r) /\ TakenShape(x) /\ T = x.tie
  BY <1>1, AtHand
<1>3. \A t \in Ties : LegsOf(t)' = LegsOf(t)
  BY <1>1 DEF LegsOf
<1>4. \A t \in Ties \ {T} : Settled(t) => Settled(t)'
  <2>1. \A t \in Ties \ {T} : ties'[t] = ties[t]
    BY WriteTieIs
  <2> QED
    BY <1>3, <2>1 DEF Settled, Tells
<1>5. CASE Decidable(s.home, s.away, x.legs)
  <2>1. /\ x.legs = LegsOf(T) /\ ties'[T].home = s.home /\ ties'[T].away = s.away
        /\ \A c \in Columns : ties'[T][c] = Aggregate(s.home, s.away, x.legs)[c]
    BY <1>2, <1>5, WriteDecides
  <2>2. Settled(T)'
    BY <1>2, <1>3, <2>1 DEF Settled, Tells
  <2> QED
    BY <1>2, <1>4, <2>2
<1>6. CASE ~Decidable(s.home, s.away, x.legs)
  <2>1. \A c \in Columns : ties'[T][c] = ties[T][c]
    BY <1>2, <1>6, WriteDecidesNot
  <2>2. ASSUME Decidable(ties'[T].home, ties'[T].away, LegsOf(T)')
        PROVE  ties'[T].home = ties[T].home /\ ties'[T].away = ties[T].away
    <3>1. ties[T].home # None /\ ties[T].away # None
      BY <1>2, <1>3, <2>2, PlayedTeams
    <3> QED
      BY <1>2, <3>1, WriteSides DEF TiesGrow, Sides
  <2>3. Settled(T) => Settled(T)'
    BY <1>2, <1>3, <2>1, <2>2 DEF Settled, Tells
  <2>4. ASSUME s.fresh, Decidable(ties'[T].home, ties'[T].away, LegsOf(T)') PROVE FALSE
    <3>1. Decidable(ties[T].home, ties[T].away, LegsOf(T))
      BY <1>2, <1>3, <2>2, <2>4
    <3>2. /\ x.legs = LegsOf(T) /\ x.row.home # None /\ x.row.home = ties[T].home
          /\ x.row.away # None /\ x.row.away = ties[T].away
      BY <1>2, <2>4, <3>1, FreshTie
    <3>3. s.home = x.row.home /\ s.away = x.row.away
      BY <1>1, <3>2 DEF Orderly, PicksStand, Picked, Sides
    <3> QED
      BY <1>6, <3>1, <3>2, <3>3
  <2>5. s.fresh => Settled(T)'
    BY <2>4 DEF Settled
  <2> QED
    BY <1>2, <1>4, <2>3, <2>5
<1> QED
  BY <1>5, <1>6

\* A tie whose columns are those wanted of what a fresh run read of it.
LEMMA ReadSettles ==
    ASSUME BracketTypes, Orderly, NEW r \in Actors, resolver[r].pc = "tie", resolver[r].fresh,
           LET x == First(resolver[r].left) IN
             Wanted(x, Participant(x, "home"), Participant(x, "away")) = x.row
    PROVE  Settled(First(resolver[r].left).tie)
<1> DEFINE s == resolver[r]
           x == First(s.left)
           T == x.tie
<1> SUFFICES ASSUME Decidable(ties[T].home, ties[T].away, LegsOf(T)) PROVE Tells(ties[T], LegsOf(T))
  BY DEF Settled
<1>1. /\ T \in Ties /\ x \in Held(r) /\ TieShape(x.row)
      /\ rewrites > 0 => x.row = ties[T]
  BY AtHand DEF Busy
<1>2. /\ x.legs = LegsOf(T) /\ x.row.home # None /\ x.row.home = ties[T].home
      /\ x.row.away # None /\ x.row.away = ties[T].away
  BY <1>1, FreshTie
<1>3. Participant(x, "home") = ties[T].home /\ Participant(x, "away") = ties[T].away
  BY <1>2 DEF Participant
<1>4. Decidable(ties[T].home, ties[T].away, x.legs)
  BY <1>2
<1>5. \A c \in Columns : x.row[c] = Aggregate(ties[T].home, ties[T].away, LegsOf(T))[c]
  <2>1. Wanted(x, ties[T].home, ties[T].away) = x.row
    BY <1>3
  <2>2. \A c \in Columns : Wanted(x, ties[T].home, ties[T].away)[c] = Aggregate(ties[T].home, ties[T].away, x.legs)[c]
    BY <1>1, <1>4, WantedIs
  <2> QED
    BY <1>2, <2>1, <2>2
<1>6. CASE rewrites > 0
  BY <1>1, <1>5, <1>6 DEF Tells
<1>7. CASE rewrites = 0
  <2>1. Sound(ties[T], LegsOf(T)) /\ (Bare(x.row) \/ \A c \in Columns : ties[T][c] = x.row[c])
    BY <1>1, <1>7 DEF Orderly, Steady
  <2>2. CASE Bare(x.row) /\ Bare(ties[T])
    BY <1>5, <2>2 DEF Bare, Tells
  <2> QED
    BY <1>5, <2>1, <2>2 DEF Sound, Tells
<1> QED
  BY <1>6, <1>7 DEF BracketTypes

\* A tie that a pass passes over.
LEMMA PassedOverSettled ==
    ASSUME BracketTypes, NEW t \in Ties, ~Awaits(Taken(t))
    PROVE  Settled(t)
<1> SUFFICES ASSUME Decidable(ties[t].home, ties[t].away, LegsOf(t)) PROVE Tells(ties[t], LegsOf(t))
  BY DEF Settled
<1> DEFINE x == Taken(t)
<1>1. x.tie = t /\ x.row = ties[t] /\ x.legs = LegsOf(t) /\ TieShape(x.row)
  BY TakenIs DEF TakenShape
<1>2. Wanted(x, x.row.home, x.row.away) = x.row
  BY DEF Awaits
<1> HIDE DEF x
<1>3. \A c \in Columns : Wanted(x, x.row.home, x.row.away)[c] = Aggregate(ties[t].home, ties[t].away, LegsOf(t))[c]
  BY <1>1, WantedIs
<1> QED
  BY <1>1, <1>2, <1>3 DEF Tells

LEMMA SettlingKeeps ==
    ASSUME BracketTypes, Orderly, NEW r \in Actors, Busy(resolver[r]),
           \A t \in Ties : Settled(t) \/ (resolver[r].fresh /\ t = First(resolver[r].left).tie) => Settled(t)',
           \/ Drops(r)
           \/ /\ Runs(r) /\ (dirty' <=> dirty) /\ Busy(resolver'[r])
              /\ resolver'[r].left = resolver[r].left /\ resolver'[r].fresh = resolver[r].fresh
    PROVE  AllSettled'
<1> DEFINE s == resolver[r]
           x == First(s.left)
           left == s.left \ {x}
<1>1. x \in s.left /\ Held(r) = s.left /\ \A y, z \in s.left : y.tie = z.tie => y = z
  BY BusyState
<1>2. \A t \in Ties : s.fresh /\ (\A y \in left : y.tie # t) => Settled(t)'
  <2> SUFFICES ASSUME NEW t \in Ties, s.fresh, \A y \in left : y.tie # t PROVE Settled(t)'
    OBVIOUS
  <2>1. CASE t = x.tie
    BY <2>1
  <2>2. CASE t # x.tie
    <3>1. Past(r, t)
      BY <1>1, <2>2 DEF Past
    <3> QED
      BY <3>1 DEF Orderly, AllSettled
  <2> QED
    BY <2>1, <2>2
<1>3. Runs(r)
  BY DropsRuns
<1>4. ASSUME NEW a \in Actors \ {r}, Busy(resolver'[a]), resolver'[a].fresh, NEW t \in Ties, Past(a, t)'
      PROVE  Settled(t)'
  <2>1. Past(a, t) /\ Busy(resolver[a]) /\ resolver[a].fresh
    BY <1>3, <1>4 DEF Runs, Past, Held
  <2> QED
    BY <2>1 DEF Orderly, AllSettled
<1>5. CASE Drops(r) /\ left = {}
  <2>1. resolver'[r].pc \in {"idle", "due"} /\ (~dirty' => ~dirty \/ s.fresh)
    BY <1>5 DEF Drops
  <2>2. ~Busy(resolver'[r])
    BY <2>1 DEF Busy
  <2>3. ~dirty' => \A t \in Ties : Settled(t)'
    BY <1>2, <1>5, <2>1 DEF Orderly, AllSettled
  <2> QED
    BY <1>4, <2>2, <2>3 DEF AllSettled
<1>6. CASE Drops(r) /\ left # {}
  <2>1. resolver'[r].pc = "tie" /\ resolver'[r].left = left /\ resolver'[r].fresh = s.fresh /\ (dirty' <=> dirty)
    BY <1>6 DEF Drops
  <2> HIDE DEF left
  <2>2. \A t \in Ties : Past(r, t)' => \A y \in left : y.tie # t
    BY <2>1 DEF Past, Held, Busy
  <2>3. \A t \in Ties : resolver'[r].fresh /\ Past(r, t)' => Settled(t)'
    BY <1>2, <2>1, <2>2
  <2>4. ~dirty' => \A t \in Ties : Settled(t)'
    BY <2>1 DEF Orderly, AllSettled
  <2> QED
    BY <1>4, <2>3, <2>4 DEF AllSettled
<1>7. CASE /\ (dirty' <=> dirty) /\ Busy(resolver'[r])
           /\ resolver'[r].left = s.left /\ resolver'[r].fresh = s.fresh
  <2>1. \A t \in Ties : Past(r, t)' => \A y \in left : y.tie # t
    BY <1>1, <1>7 DEF Past, Held
  <2>2. \A t \in Ties : resolver'[r].fresh /\ Past(r, t)' => Settled(t)'
    BY <1>2, <1>7, <2>1
  <2>3. ~dirty' => \A t \in Ties : Settled(t)'
    BY <1>7 DEF Orderly, AllSettled
  <2> QED
    BY <1>4, <2>2, <2>3 DEF AllSettled
<1> QED
  BY <1>5, <1>6, <1>7

-----------------------------------------------------------------------------
(* As long as no result was changed, what is written stays right.           *)

ColumnsGrow == \A t \in Ties : Bare(ties[t]) \/ \A c \in Columns : ties'[t][c] = ties[t][c]

LEMMA WriteSound ==
    ASSUME BracketTypes, Orderly, NEW r \in Actors, WriteTie(r), rewrites = 0
    PROVE  ColumnsGrow /\ \A t \in Ties : Sound(ties[t], LegsOf(t))'
<1> DEFINE s == resolver[r]
           x == First(s.left)
<1> PICK T : T = x.tie
  OBVIOUS
<1>1. s.pc = "write" /\ Busy(s) /\ UNCHANGED matches
  BY DEF WriteTie, Busy
<1>2. T \in Ties /\ x \in Held(r) /\ TakenShape(x) /\ T = x.tie
  BY <1>1, AtHand
<1>3. \A t \in Ties : LegsOf(t)' = LegsOf(t)
  BY <1>1 DEF LegsOf
<1>4. \A t \in Ties : Sound(ties[t], LegsOf(t))
  BY DEF Orderly, Steady
<1>5. \A t \in Ties \ {T} : ties'[t] = ties[t]
  BY <1>2, WriteTieIs
<1>6. /\ Bare(ties[T]) \/ \A c \in Columns : ties'[T][c] = ties[T][c]
      /\ Sound(ties'[T], LegsOf(T))
  <2>1. CASE Decidable(s.home, s.away, x.legs)
    <3>1. /\ x.legs = LegsOf(T) /\ ties'[T].home = s.home /\ ties'[T].away = s.away
          /\ \A c \in Columns : ties'[T][c] = Aggregate(s.home, s.away, x.legs)[c]
      BY <1>2, <2>1, WriteDecides
    <3>2. Sound(ties'[T], LegsOf(T))
      BY <2>1, <3>1 DEF Sound, Tells
    <3>3. ASSUME ~Bare(ties[T]) PROVE \A c \in Columns : ties'[T][c] = ties[T][c]
      <4>1. Decidable(ties[T].home, ties[T].away, LegsOf(T)) /\ Tells(ties[T], LegsOf(T))
        BY <1>2, <1>4, <3>3 DEF Sound
      <4>2. ties[T].home = s.home /\ ties[T].away = s.away
        BY <1>2, <3>1, <4>1, WriteSides DEF TiesGrow, Sides, Decidable
      <4> QED
        BY <3>1, <4>1, <4>2 DEF Tells
    <3> QED
      BY <3>2, <3>3
  <2>2. CASE ~Decidable(s.home, s.away, x.legs)
    <3>1. \A c \in Columns : ties'[T][c] = ties[T][c]
      BY <1>2, <2>2, WriteDecidesNot
    <3>2. CASE Bare(ties[T])
      BY <3>1, <3>2 DEF Sound, Bare
    <3>3. CASE Decidable(ties[T].home, ties[T].away, LegsOf(T)) /\ Tells(ties[T], LegsOf(T))
      <4>1. ties'[T].home = ties[T].home /\ ties'[T].away = ties[T].away
        BY <1>2, <3>3, WriteSides DEF TiesGrow, Sides, Decidable
      <4> QED
        BY <3>1, <3>3, <4>1 DEF Sound, Tells
    <3> QED
      BY <1>2, <1>4, <3>1, <3>2, <3>3 DEF Sound
  <2> QED
    BY <2>1, <2>2
<1>7. ColumnsGrow
  BY <1>5, <1>6 DEF ColumnsGrow
<1>8. \A t \in Ties : Sound(ties'[t], LegsOf(t)')
  BY <1>3, <1>4, <1>5, <1>6
<1> QED
  BY <1>7, <1>8 DEF Sound, Bare, Tells

\* Any other step: the columns are as they were, and a decided tie keeps its legs.
LEMMA SoundKeeps ==
    ASSUME BracketTypes, Orderly, ties' = ties, LegsGrow, rewrites = 0
    PROVE  ColumnsGrow /\ \A t \in Ties : Sound(ties[t], LegsOf(t))'
<1>1. ColumnsGrow
  BY DEF ColumnsGrow
<1>2. ASSUME NEW t \in Ties PROVE Sound(ties[t], LegsOf(t)')
  <2>1. Sound(ties[t], LegsOf(t))
    BY DEF Orderly, Steady
  <2>2. CASE Bare(ties[t])
    BY <2>2 DEF Sound
  <2>3. CASE Decidable(ties[t].home, ties[t].away, LegsOf(t))
    <3>1. LegsOf(t)' = LegsOf(t)
      BY <2>3, DecidedLegs, PlayedLegsStay
    <3> QED
      BY <2>1, <3>1
  <2> QED
    BY <2>1, <2>2, <2>3 DEF Sound
<1> QED
  BY <1>1, <1>2 DEF Sound, Bare, Tells

LEMMA DoneGroupsStay ==
    ASSUME LegsGrow, NEW g \in Groups, GroupDone(g)
    PROVE  GroupDone(g)' /\ Played(g)' = Played(g)
<1>1. \A m \in GroupMatches[g] : m \in Matches /\ matches[m].result # None /\ matches'[m] = matches[m]
  BY BracketAssumption DEF BracketAssumption, GroupDone, LegsGrow
<1>2. GroupDone(g)'
  BY <1>1 DEF GroupDone
<1>3. {n \in GroupMatches[g] : matches'[n].result # None} = {n \in GroupMatches[g] : matches[n].result # None}
  BY <1>1
<1> QED
  BY <1>1, <1>2, <1>3 DEF Played

LEMMA DonePlacesStay ==
    ASSUME LegsGrow, NEW g \in Groups, GroupDone(g), NEW n
    PROVE  AtPlace(g, n)' = AtPlace(g, n)
BY DoneGroupsStay DEF AtPlace

LEMMA DoneDrawStays ==
    ASSUME LegsGrow, \A g \in Groups : GroupDone(g), NEW third, NEW letter
    PROVE  BestThird(third, letter)' = BestThird(third, letter)
<1>1. \A g \in Groups : Played(g)' = Played(g)
  BY DoneGroupsStay
<1>2. Drawn(third, letter)' = Drawn(third, letter)
  BY <1>1 DEF Drawn
<1> QED
  BY <1>2 DEF BestThird

\* A feeder that has given a team gives it for good.
LEMMA FeederStays ==
    ASSUME BracketTypes, TiesGrow, LegsGrow, ColumnsGrow, NEW s \in Slot \cup {None}, Feeder(s) # None
    PROVE  Feeder(s)' = Feeder(s)
<1>1. s # None /\ s \in Slot
  BY DEF Feeder
<1>2. ASSUME NEW t \in Ties, ties[t].winner # None PROVE ties'[t].winner = ties[t].winner
  BY <1>2 DEF ColumnsGrow, Bare, Columns
<1>3. CASE s.type = "MATCH_WINNER"
  <2>1. s.tie \in Ties
    BY <1>1, <1>3 DEF Slot
  <2> QED
    BY <1>1, <1>2, <1>3, <2>1 DEF Feeder
<1>4. CASE s.type = "MATCH_LOSER"
  <2>1. s.tie \in Ties
    BY <1>1, <1>4 DEF Slot
  <2>2. Feeder(s) = Loser(s.tie) /\ Feeder(s)' = Loser(s.tie)'
    BY <1>1, <1>4 DEF Feeder
  <2>3. ties[s.tie].winner # None /\ ties[s.tie].home # None /\ ties[s.tie].away # None
    BY <2>2 DEF Loser
  <2>4. /\ ties'[s.tie].winner = ties[s.tie].winner
        /\ ties'[s.tie].home = ties[s.tie].home /\ ties'[s.tie].away = ties[s.tie].away
    BY <1>2, <2>1, <2>3 DEF TiesGrow, Sides
  <2> QED
    BY <2>2, <2>4 DEF Loser
<1>5. CASE s.type = "GROUP_POSITION"
  <2>1. s.group \in Groups
    BY <1>1, <1>5 DEF Slot
  <2>2. GroupDone(s.group)
    BY <1>1, <1>5 DEF Feeder
  <2>3. GroupDone(s.group)' /\ AtPlace(s.group, s.position)' = AtPlace(s.group, s.position)
    BY <2>1, <2>2, DoneGroupsStay, DonePlacesStay
  <2> QED
    BY <1>1, <1>5, <2>2, <2>3 DEF Feeder
<1>6. CASE s.type = "BEST_RANKED"
  <2>1. \A g \in Groups : GroupDone(g)
    BY <1>1, <1>6 DEF Feeder
  <2>2. \A g \in Groups : GroupDone(g)' /\ AtPlace(g, ThirdPlace)' = AtPlace(g, ThirdPlace)
    BY <2>1, DoneGroupsStay, DonePlacesStay
  <2>3. [g \in Groups |-> AtPlace(g, ThirdPlace)]' = [g \in Groups |-> AtPlace(g, ThirdPlace)]
    BY <2>2
  <2>4. PICK third : third = [g \in Groups |-> AtPlace(g, ThirdPlace)]
    OBVIOUS
  <2>5. BestThird(third, s.winnerGroup)' = BestThird(third, s.winnerGroup)
    BY <2>1, DoneDrawStays
  <2>6. Feeder(s) = BestThird(third, s.winnerGroup)
    BY <1>1, <1>6, <2>1, <2>4 DEF Feeder
  <2>7. Feeder(s)' = BestThird(third, s.winnerGroup)'
    BY <1>1, <1>6, <2>2, <2>3, <2>4 DEF Feeder
  <2> QED
    BY <2>5, <2>6, <2>7
<1> QED
  BY <1>1, <1>3, <1>4, <1>5, <1>6 DEF Slot

LEMMA GivenStays ==
    ASSUME BracketTypes, TiesGrow, LegsGrow, ColumnsGrow,
           NEW t \in Ties, NEW side \in Sides, Given(t, side) # None
    PROVE  Given(t, side)' = Given(t, side)
<1>1. Source[t][side] \in Slot \cup {None}
  BY BracketAssumption DEF BracketAssumption, Sides
<1> QED
  BY <1>1, FeederStays DEF Given

LEMMA SteadyKeeps ==
    ASSUME BracketTypes, Orderly, rewrites = 0, TiesGrow, LegsGrow, ColumnsGrow,
           \A t \in Ties : Sound(ties[t], LegsOf(t))',
           \A t \in Ties, side \in Sides : ties'[t][side] # None =>
             ties'[t][side] = ties[t][side] \/ ties'[t][side] = Given(t, side),
           \A a \in Actors : \A x \in Held(a)' : x \in Held(a) \/ x.row = ties'[x.tie],
           \A a \in Actors : resolver'[a].pc \in {"write", "mirror"} =>
             \A t \in Ties, side \in Sides :
               t = First(resolver'[a].left).tie /\ resolver'[a][side] # None =>
                 resolver'[a][side] = Given(t, side)
    PROVE  Steady'
<1>1. ASSUME NEW t \in Ties, NEW side \in Sides, ties'[t][side] # None
      PROVE  ties'[t][side] = Given(t, side)'
  <2>1. ties'[t][side] = Given(t, side)
    BY <1>1 DEF Orderly, Steady
  <2> QED
    BY <1>1, <2>1, GivenStays
<1>2. ASSUME NEW a \in Actors, NEW x \in Held(a)'
      PROVE  Bare(x.row) \/ \A c \in Columns : ties'[x.tie][c] = x.row[c]
  <2>1. CASE x \in Held(a)
    <3>1. x.tie \in Ties
      BY <2>1, BusyState DEF Held, TakenShape
    <3>2. Bare(x.row) \/ \A c \in Columns : ties[x.tie][c] = x.row[c]
      BY <2>1 DEF Orderly, Steady
    <3>3. Bare(ties[x.tie]) \/ \A c \in Columns : ties'[x.tie][c] = ties[x.tie][c]
      BY <3>1 DEF ColumnsGrow
    <3> QED
      BY <3>2, <3>3 DEF Bare
  <2> QED
    BY <1>2, <2>1
<1>3. ASSUME NEW a \in Actors, resolver'[a].pc \in {"write", "mirror"}, NEW t \in Ties, NEW side \in Sides,
             t = First(resolver'[a].left).tie, resolver'[a][side] # None
      PROVE  resolver'[a][side] = Given(t, side)'
  <2>1. resolver'[a][side] = Given(t, side)
    BY <1>3
  <2>2. Given(t, side)' = Given(t, side)
    BY <1>3, <2>1, GivenStays
  <2> QED
    BY <2>1, <2>2
<1> QED
  BY <1>1, <1>2, <1>3 DEF Steady, Bare

-----------------------------------------------------------------------------
(* The steps of a resolveSeason. *)

\* What a pass takes of a tie is what there is.
LEMMA TakenStands ==
    ASSUME BracketTypes, Orderly, NEW x, x.tie \in Ties, x.row = ties[x.tie], x.legs = LegsOf(x.tie)
    PROVE  ReadStands(x)
<1>1. \A k \in DOMAIN Legs[x.tie] : x.legs[k] = matches[Legs[x.tie][k]] /\ Legs[x.tie][k] \in Matches
  BY LegsAreMatches DEF LegsOf
<1> QED
  BY <1>1 DEF ReadStands, Now, Orderly, LegsPaired, SeedsStay, BracketTypes

LEMMA PassStartOrderly ==
    ASSUME BracketTypes, Orderly, NEW r \in Actors, PassStart(r)
    PROVE  Orderly'
<1> PICK left :
      /\ left = {x \in {Taken(t) : t \in Ties} : Awaits(x)}
      /\ LeftShape(left) /\ Runs(r) /\ resolver[r].pc = "due"
      /\ UNCHANGED <<matches, ties, rewrites, overtaken>>
      /\ left # {} => /\ resolver'[r].pc = "tie" /\ resolver'[r].fresh = TRUE
                      /\ resolver'[r].left = left
                      /\ dirty' <=> dirty
      /\ left = {} => resolver'[r].pc \in {"idle", "due"}
  BY PassStartIs
<1>1. TiesGrow /\ LegsGrow /\ UNCHANGED <<matches, ties, rewrites>>
  BY DEF TiesGrow, LegsGrow
<1>2. Held(r)' = left
  BY DEF Held, Busy
<1>3. \A b \in Actors \ {r} : Keeps(b) /\ Held(b)' = Held(b)
  BY OthersKeep
<1>4. \A x \in left : x.tie \in Ties /\ x.row = ties[x.tie] /\ x.legs = LegsOf(x.tie) /\ Awaits(x)
  BY TakenIs
<1>5. \A t \in Ties : (\A x \in left : x.tie # t) => Settled(t)
  BY TakenIs, PassedOverSettled
<1>6. LegsPaired' /\ SeedsStay'
  BY <1>1, PairsKeep, SeedsKeep DEF Orderly
<1>7. ReadsStand'
  <2>1. \A x \in left : ReadStands(x)
    BY <1>4, TakenStands
  <2>2. \A x \in left : ReadStands(x)'
    BY <1>1, <1>4, <2>1, ReadKeeps
  <2>3. \A b \in Actors \ {r} : \A x \in Held(b)' : ReadStands(x)'
    BY <1>1, <1>3, ReadsKeep
  <2> QED
    BY <1>2, <2>2, <2>3 DEF ReadsStand
<1>8. FreshReads'
  <2>1. \A b \in Actors \ {r} : \A x \in Held(b)' : resolver'[b].fresh =>
             \A k \in DOMAIN Legs[x.tie] : x.legs[k].result = Now(x, k)'.result
    BY <1>1, <1>3, FreshKeeps
  <2>2. \A x \in left : \A k \in DOMAIN Legs[x.tie] : x.legs[k].result = Now(x, k)'.result
    <3> TAKE x \in left
    <3>1. x.legs = LegsOf(x.tie)
      BY <1>4
    <3> QED
      BY <1>1, <3>1 DEF LegsOf, Now
  <2> QED
    BY <1>2, <2>1, <2>2 DEF FreshReads
<1>9. PicksStand'
  <2>1. Picked(r)'
    BY DEF Picked
  <2> QED
    BY <1>1, <2>1, OthersPicked DEF PicksStand
<1>10. Alone'
  <2> SUFFICES ASSUME rewrites > 0, NEW a \in Actors, resolver'[a] # Idle
               PROVE  /\ \A b \in Actors \ {a} : resolver'[b] = Idle
                      /\ Busy(resolver'[a]) =>
                           /\ resolver'[a].fresh
                           /\ \A y \in Held(a)' : y.row = ties'[y.tie]
    BY <1>1 DEF Alone
  <2>1. \A b \in Actors \ {r} : resolver'[b] = Idle
    BY DEF Orderly, Alone, Runs, Idle
  <2>2. a = r
    BY <2>1
  <2> QED
    BY <1>1, <1>2, <1>4, <2>1, <2>2 DEF Busy
<1>11. Steady'
  <2> SUFFICES ASSUME rewrites = 0 PROVE Steady'
    BY <1>1 DEF Steady
  <2>1. ColumnsGrow /\ \A t \in Ties : Sound(ties[t], LegsOf(t))'
    BY <1>1, SoundKeeps
  <2>2. \A a \in Actors : \A x \in Held(a)' : x \in Held(a) \/ x.row = ties'[x.tie]
    BY <1>1, <1>2, <1>3, <1>4
  <2>3. ASSUME NEW a \in Actors, resolver'[a].pc \in {"write", "mirror"}
        PROVE  \A t \in Ties, side \in Sides :
                 t = First(resolver'[a].left).tie /\ resolver'[a][side] # None =>
                   resolver'[a][side] = Given(t, side)
    <3>1. a # r /\ resolver'[a] = resolver[a]
      BY <2>3 DEF Runs
    <3> QED
      BY <2>3, <3>1 DEF Orderly, Steady
  <2> QED
    BY <1>1, <2>1, <2>2, <2>3, SteadyKeeps
<1>12. AllSettled'
  <2>1. \A t \in Ties : Settled(t)' <=> Settled(t)
    BY <1>1 DEF Settled, Tells, LegsOf
  <2>2. ~dirty' => \A t \in Ties : Settled(t)
    BY <1>5 DEF Orderly, AllSettled
  <2>3. ASSUME NEW t \in Ties, Busy(resolver'[r]), Past(r, t)' PROVE Settled(t)
    <3>1. left # {} /\ resolver'[r].pc = "tie"
      BY <2>3 DEF Busy
    <3>2. \A x \in left : x.tie # t
      BY <1>2, <2>3, <3>1 DEF Past
    <3> QED
      BY <1>5, <3>2
  <2>4. ASSUME NEW a \in Actors \ {r}, Busy(resolver'[a]), resolver'[a].fresh, NEW t \in Ties, Past(a, t)'
        PROVE  Settled(t)
    <3>1. Past(a, t) /\ Busy(resolver[a]) /\ resolver[a].fresh
      BY <2>4 DEF Runs, Past, Held
    <3> QED
      BY <3>1 DEF Orderly, AllSettled
  <2> QED
    BY <2>1, <2>2, <2>3, <2>4 DEF AllSettled
<1> QED
  BY <1>6, <1>7, <1>8, <1>9, <1>10, <1>11, <1>12 DEF Orderly

\* What the steps of a pass share.
LEMMA RunOrderly ==
    ASSUME BracketTypes, Orderly, NEW r \in Actors, Busy(resolver[r]), Runs(r), Keeps(r),
           TiesGrow, LegsGrow, \A m \in Matches : matches'[m].result = matches[m].result,
           LegsPaired', Picked(r)', Alone', AllSettled',
           rewrites' = rewrites,
           rewrites = 0 =>
             /\ ColumnsGrow /\ \A t \in Ties : Sound(ties[t], LegsOf(t))'
             /\ \A t \in Ties, side \in Sides : ties'[t][side] # None =>
                  ties'[t][side] = ties[t][side] \/ ties'[t][side] = Given(t, side)
             /\ resolver'[r].pc \in {"write", "mirror"} =>
                  \A t \in Ties, side \in Sides :
                    t = First(resolver'[r].left).tie /\ resolver'[r][side] # None =>
                      resolver'[r][side] = Given(t, side)
    PROVE  Orderly'
<1>1. \A a \in Actors : Keeps(a)
  BY OthersKeep
<1>2. SeedsStay'
  BY SeedsKeep DEF Orderly
<1>3. ReadsStand'
  BY <1>1, ReadsKeep DEF ReadsStand
<1>4. FreshReads'
  BY <1>1, FreshKeeps DEF FreshReads
<1>5. PicksStand'
  BY OthersPicked DEF PicksStand
<1>6. Steady'
  <2> SUFFICES ASSUME rewrites = 0 PROVE Steady'
    BY DEF Steady
  <2>1. \A a \in Actors : \A x \in Held(a)' : x \in Held(a) \/ x.row = ties'[x.tie]
    BY <1>1 DEF Keeps
  <2>2. ASSUME NEW a \in Actors \ {r}, resolver'[a].pc \in {"write", "mirror"}
        PROVE  \A t \in Ties, side \in Sides :
                 t = First(resolver'[a].left).tie /\ resolver'[a][side] # None =>
                   resolver'[a][side] = Given(t, side)
    <3>1. resolver'[a] = resolver[a]
      BY DEF Runs
    <3> QED
      BY <2>2, <3>1 DEF Orderly, Steady
  <2> QED
    BY <2>1, <2>2, SteadyKeeps
<1> QED
  BY <1>2, <1>3, <1>4, <1>5, <1>6 DEF Orderly

LEMMA ReadFeedersOrderly ==
    ASSUME BracketTypes, Orderly, NEW r \in Actors, ReadFeeders(r)
    PROVE  Orderly'
<1> DEFINE s == resolver[r]
           x == First(s.left)
<1> PICK home, away :
      /\ home = Participant(x, "home") /\ away = Participant(x, "away")
      /\ UNCHANGED <<matches, ties, rewrites, overtaken>> /\ s.pc = "tie"
      /\ \/ /\ Wanted(x, home, away) = x.row /\ Slots(x, home, away) = {}
            /\ Drops(r)
         \/ /\ Runs(r) /\ (dirty' <=> dirty)
            /\ resolver'[r].pc \in {"write", "mirror"}
            /\ resolver'[r].pc = "mirror" => Wanted(x, home, away) = x.row
            /\ resolver'[r].left = s.left /\ resolver'[r].fresh = s.fresh
            /\ resolver'[r].home = home /\ resolver'[r].away = away
  BY ReadFeedersIs
<1> DEFINE stays == /\ Runs(r) /\ (dirty' <=> dirty)
                    /\ resolver'[r].pc \in {"write", "mirror"}
                    /\ resolver'[r].pc = "mirror" => Wanted(x, home, away) = x.row
                    /\ resolver'[r].left = s.left /\ resolver'[r].fresh = s.fresh
                    /\ resolver'[r].home = home /\ resolver'[r].away = away
<1>1. UNCHANGED <<matches, ties, rewrites>> /\ s.pc = "tie" /\ Busy(s)
  BY DEF Busy
<1>2. x.tie \in Ties /\ ReadStands(x) /\ TieShape(x.row) /\ x \in Held(r)
  BY <1>1, AtHand
<1>3. Drops(r) \/ stays
  OBVIOUS
<1>4. Runs(r)
  BY <1>3, DropsRuns
<1>5. TiesGrow /\ LegsGrow /\ \A m \in Matches : matches'[m].result = matches[m].result
  BY <1>1 DEF TiesGrow, LegsGrow
<1>6. LegsPaired'
  BY <1>1, <1>5, PairsKeep DEF Orderly
<1>7. Keeps(r)
  BY <1>1, <1>3, DropsKeep DEF Busy
<1>8. Picked(r)'
  <2>1. CASE Drops(r)
    BY <2>1, DropsPicked
  <2>2. CASE stays
    <3>1. \A side \in Sides : x.row[side] # None => resolver'[r][side] = x.row[side]
      BY <2>2 DEF Participant, Sides
    <3>2. ASSUME resolver'[r].pc = "mirror", NEW side \in Sides, resolver'[r][side] # None
          PROVE  ties[x.tie][side] = resolver'[r][side]
      <4>1. Wanted(x, home, away) = x.row
        BY <2>2, <3>2
      <4>2. x.row.home = home /\ x.row.away = away
        BY <1>2, <4>1, WantedIs
      <4>3. resolver'[r][side] = x.row[side]
        BY <2>2, <4>2 DEF Sides
      <4> QED
        BY <1>2, <3>2, <4>3 DEF ReadStands
    <3>3. ties' = ties /\ First(resolver'[r].left) = x
      BY <1>1, <2>2
    <3> HIDE DEF x
    <3> QED
      BY <3>1, <3>2, <3>3 DEF Picked
  <2> QED
    BY <1>3, <2>1, <2>2
<1>9. Alone'
  BY <1>1, <1>3, AloneKeeps
<1>10. AllSettled'
  <2>1. \A t \in Ties : Settled(t)' <=> Settled(t)
    BY <1>1 DEF Settled, Tells, LegsOf
  <2>2. CASE Wanted(x, home, away) = x.row
    <3>1. s.fresh => Settled(x.tie)
      BY <1>1, <2>2, ReadSettles
    <3> QED
      BY <1>1, <1>3, <2>1, <3>1, SettlingKeeps DEF Busy
  <2>3. CASE Wanted(x, home, away) # x.row
    <3>1. Runs(r) /\ (dirty' <=> dirty) /\ resolver'[r].pc = "write" /\ resolver'[r].left = s.left
      BY <2>3
    <3>2. \A t \in Ties : Past(r, t)' => Past(r, t)
      BY <1>1, <3>1 DEF Past, Held, Busy
    <3>3. ASSUME NEW a \in Actors, Busy(resolver'[a]), resolver'[a].fresh, NEW t \in Ties, Past(a, t)'
          PROVE  Settled(t)
      <4>1. CASE a = r
        BY <1>1, <2>3, <3>2, <3>3, <4>1 DEF Orderly, AllSettled
      <4>2. CASE a # r
        <5>1. Past(a, t) /\ Busy(resolver[a]) /\ resolver[a].fresh
          BY <1>4, <3>3, <4>2 DEF Runs, Past, Held
        <5> QED
          BY <5>1 DEF Orderly, AllSettled
      <4> QED
        BY <4>1, <4>2
    <3> QED
      BY <2>1, <3>1, <3>3 DEF Orderly, AllSettled
  <2> QED
    BY <2>2, <2>3
<1>11. ASSUME rewrites = 0
       PROVE  /\ ColumnsGrow /\ \A t \in Ties : Sound(ties[t], LegsOf(t))'
              /\ resolver'[r].pc \in {"write", "mirror"} =>
                   \A t \in Ties, side \in Sides :
                     t = First(resolver'[r].left).tie /\ resolver'[r][side] # None =>
                       resolver'[r][side] = Given(t, side)
  <2>1. ColumnsGrow /\ \A t \in Ties : Sound(ties[t], LegsOf(t))'
    BY <1>1, <1>5, <1>11, SoundKeeps
  <2>2. ASSUME resolver'[r].pc \in {"write", "mirror"}, NEW side \in Sides, resolver'[r][side] # None
        PROVE  resolver'[r][side] = Given(x.tie, side)
    <3>1. stays
      BY <1>3, <2>2, DropsPicked
    <3>2. resolver'[r][side] = IF x.row[side] # None THEN x.row[side] ELSE Feeder(Source[x.tie][side])
      BY <3>1 DEF Participant, Sides
    <3>3. CASE x.row[side] # None
      <4>1. ties[x.tie][side] = x.row[side]
        BY <1>2, <3>3 DEF ReadStands
      <4> QED
        BY <1>2, <1>11, <3>2, <3>3, <4>1 DEF Orderly, Steady
    <3>4. CASE x.row[side] = None
      <4>1. Seeded[x.tie][side] = None
        BY <1>2, <3>4 DEF ReadStands
      <4> QED
        BY <3>2, <3>4, <4>1 DEF Given
    <3> QED
      BY <3>3, <3>4
  <2>3. resolver'[r].pc \in {"write", "mirror"} => First(resolver'[r].left) = x
    BY <1>3, DropsPicked
  <2> QED
    BY <2>1, <2>2, <2>3
<1> QED
  BY <1>1, <1>4, <1>5, <1>6, <1>7, <1>8, <1>9, <1>10, <1>11, RunOrderly

LEMMA WriteTieOrderly ==
    ASSUME BracketTypes, Orderly, NEW r \in Actors, WriteTie(r)
    PROVE  Orderly'
<1> DEFINE s == resolver[r]
           x == First(s.left)
           stays == /\ Runs(r) /\ (dirty' <=> dirty)
                    /\ resolver'[r].pc = "mirror"
                    /\ resolver'[r].left = s.left /\ resolver'[r].fresh = s.fresh
                    /\ resolver'[r].home = s.home /\ resolver'[r].away = s.away
<1>1. UNCHANGED <<matches, rewrites>> /\ s.pc = "write" /\ Busy(s)
  BY DEF WriteTie, Busy
<1>2. x.tie \in Ties /\ ReadStands(x) /\ TieShape(x.row) /\ x \in Held(r)
  BY <1>1, AtHand
<1>3. Drops(r) \/ stays
  BY WriteTieIs
<1>4. Runs(r)
  BY <1>3, DropsRuns
<1>5. /\ TiesGrow /\ LegsGrow /\ \A m \in Matches : matches'[m].result = matches[m].result
      /\ \A side \in Sides : s[side] # None => ties'[x.tie][side] = s[side]
  BY <1>1, WriteSides DEF LegsGrow
<1>6. LegsPaired'
  BY <1>1, <1>5, PairsKeep DEF Orderly
<1>7. Keeps(r)
  BY <1>1, <1>3, DropsKeep DEF Busy
<1>8. \A t \in Ties \ {x.tie} : ties'[t] = ties[t]
  BY WriteTieIs
<1>9. stays => First(resolver'[r].left) = x /\ \A side \in Sides : resolver'[r][side] = s[side]
  BY DEF Sides
<1>10. Picked(r)'
  <2>1. CASE Drops(r)
    BY <2>1, DropsPicked
  <2>2. CASE stays
    <3>1. \A side \in Sides : x.row[side] # None => s[side] = x.row[side]
      BY <1>1 DEF Orderly, PicksStand, Picked
    <3> HIDE DEF x
    <3> QED
      BY <1>5, <1>9, <2>2, <3>1 DEF Picked
  <2> QED
    BY <1>3, <2>1, <2>2
<1>11. Alone'
  BY <1>1, <1>3, <1>8, AloneKeeps
<1>12. AllSettled'
  <2>1. \A t \in Ties : Settled(t) \/ (s.fresh /\ t = x.tie) => Settled(t)'
    BY WriteSettles
  <2> QED
    BY <1>1, <1>3, <2>1, SettlingKeeps DEF Busy
<1>13. ASSUME rewrites = 0
       PROVE  /\ ColumnsGrow /\ \A t \in Ties : Sound(ties[t], LegsOf(t))'
              /\ \A t \in Ties, side \in Sides : ties'[t][side] # None =>
                   ties'[t][side] = ties[t][side] \/ ties'[t][side] = Given(t, side)
              /\ resolver'[r].pc \in {"write", "mirror"} =>
                   \A t \in Ties, side \in Sides :
                     t = First(resolver'[r].left).tie /\ resolver'[r][side] # None =>
                       resolver'[r][side] = Given(t, side)
  <2>1. ColumnsGrow /\ \A t \in Ties : Sound(ties[t], LegsOf(t))'
    BY <1>13, WriteSound
  <2>2. \A side \in Sides : s[side] # None => s[side] = Given(x.tie, side)
    BY <1>1, <1>2, <1>13 DEF Orderly, Steady
  <2>3. ASSUME NEW side \in Sides, ties'[x.tie][side] # None
        PROVE  ties'[x.tie][side] = ties[x.tie][side] \/ ties'[x.tie][side] = Given(x.tie, side)
    <3>1. CASE s[side] # None
      BY <1>5, <2>2, <3>1
    <3>2. CASE s[side] = None
      <4>1. x.row[side] = None
        BY <1>1, <3>2 DEF Orderly, PicksStand, Picked
      <4>2. ties'[x.tie][side] = IF Wanted(x, s.home, s.away)[side] # x.row[side]
                                 THEN Wanted(x, s.home, s.away)[side] ELSE ties[x.tie][side]
        BY WriteTieIs
      <4>3. Wanted(x, s.home, s.away)[side] = s[side]
        BY <1>2, WantedIs DEF Sides
      <4> QED
        BY <3>2, <4>1, <4>2, <4>3
    <3> QED
      BY <3>1, <3>2
  <2>4. resolver'[r].pc \in {"write", "mirror"} =>
          First(resolver'[r].left) = x /\ \A side \in Sides : resolver'[r][side] = s[side]
    BY <1>3, <1>9, DropsPicked
  <2> QED
    BY <1>8, <2>1, <2>2, <2>3, <2>4
<1> QED
  BY <1>1, <1>4, <1>5, <1>6, <1>7, <1>10, <1>11, <1>12, <1>13, RunOrderly

LEMMA MirrorOrderly ==
    ASSUME BracketTypes, Orderly, NEW r \in Actors, Mirror(r)
    PROVE  Orderly'
<1> DEFINE s == resolver[r]
           x == First(s.left)
<1>1. UNCHANGED <<ties, rewrites>> /\ s.pc = "mirror" /\ Busy(s)
  BY DEF Mirror, Busy
<1>2. /\ Drops(r) /\ Runs(r) /\ LegsGrow /\ LegsPaired'
      /\ \A m \in Matches : matches'[m].result = matches[m].result
  BY MirrorIs, MirrorSides, DropsRuns
<1>3. TiesGrow
  BY <1>1 DEF TiesGrow
<1>4. Keeps(r)
  BY <1>1, <1>2, DropsKeep
<1>5. Picked(r)' /\ resolver'[r].pc \notin {"write", "mirror"}
  BY <1>2, DropsPicked
<1>6. Alone'
  BY <1>1, <1>2, AloneKeeps
<1>7. AllSettled'
  <2>1. \A t \in Ties : Settled(t) => Settled(t)'
    BY <1>1, <1>2, SettledKeeps
  <2>2. ASSUME s.fresh, NEW t \in Ties, t = x.tie PROVE Settled(t)
    <3>1. x \in s.left /\ Held(r) = s.left /\ \A y, z \in s.left : y.tie = z.tie => y = z
      BY <1>1, BusyState
    <3>2. Past(r, t)
      BY <1>1, <2>2, <3>1 DEF Past
    <3> QED
      BY <1>1, <2>2, <3>2 DEF Orderly, AllSettled
  <2> QED
    BY <1>1, <1>2, <2>1, <2>2, SettlingKeeps
<1>8. rewrites = 0 => ColumnsGrow /\ \A t \in Ties : Sound(ties[t], LegsOf(t))'
  BY <1>1, <1>2, SoundKeeps
<1> QED
  BY <1>1, <1>2, <1>3, <1>4, <1>5, <1>6, <1>7, <1>8, RunOrderly

-----------------------------------------------------------------------------
(* A result is written; the process dies. *)

LEMMA ResultOrderly ==
    ASSUME BracketTypes, Orderly, ~overtaken', NEW a \in Actors, NEW m \in Matches, NEW res, NEW next,
           res \in ResultsOf[m], next \in {Idle, [pc |-> "due", n |-> 0]},
           matches[m].home # None, matches[m].away # None,
           resolver[a] = Idle, ResultWritten(a, m, res, next)
    PROVE  Orderly'
<1>1. /\ UNCHANGED ties
      /\ rewrites' = rewrites + (IF matches[m].result = None THEN 0 ELSE 1) /\ rewrites' \in Nat
      /\ rewrites' > 0 => \A b \in Actors : resolver[b] = Idle
      /\ \A l \in Matches \ {m} : matches'[l] = matches[l]
      /\ matches'[m].result = res
      /\ \A side \in Sides : matches'[m][side] = matches[m][side]
      /\ dirty'
      /\ resolver'[a] = next
  BY ResultWrittenIs
<1>2. \A b \in Actors \ {a} :
        /\ resolver[b] = Idle => resolver'[b] = Idle
        /\ Busy(resolver'[b]) => /\ Busy(resolver[b]) /\ ~resolver'[b].fresh
        /\ resolver'[b].pc = resolver[b].pc
        /\ Busy(resolver[b]) => resolver'[b].left = resolver[b].left
        /\ resolver[b].pc \in {"write", "mirror"} => /\ resolver'[b].home = resolver[b].home
                                                     /\ resolver'[b].away = resolver[b].away
  BY ResultWrittenIs
<1>3. ~Busy(resolver'[a]) /\ Held(a)' = {}
  BY <1>1 DEF Busy, Held, Idle
<1>4. \A b \in Actors : Busy(resolver'[b]) => b # a /\ Busy(resolver[b]) /\ ~resolver'[b].fresh
  BY <1>2, <1>3
<1>5. \A b \in Actors : Keeps(b)
  BY <1>2, <1>3, <1>4 DEF Keeps, Held
<1>6. TiesGrow /\ \A l \in Matches, side \in Sides : matches'[l][side] = matches[l][side]
  BY <1>1 DEF TiesGrow
<1>7. rewrites' = 0 => LegsGrow /\ rewrites = 0
  <2> SUFFICES ASSUME rewrites' = 0 PROVE LegsGrow /\ rewrites = 0
    OBVIOUS
  <2>1. matches[m].result = None /\ rewrites = 0
    BY <1>1 DEF BracketTypes
  <2> QED
    BY <1>1, <1>6, <2>1 DEF LegsGrow
<1>8. LegsPaired' /\ SeedsStay'
  BY <1>6, PairsKeep, SeedsKeep DEF Orderly
<1>9. rewrites' # 0 => \A b \in Actors : ~Busy(resolver'[b]) /\ Held(b)' = {}
  BY <1>1, <1>4 DEF Busy, Held, Idle
<1>10. ReadsStand'
  <2>1. CASE rewrites' = 0
    BY <1>5, <1>6, <1>7, <2>1, ReadsKeep DEF ReadsStand
  <2>2. CASE rewrites' # 0
    BY <1>9, <2>2 DEF ReadsStand
  <2> QED
    BY <2>1, <2>2
<1>11. FreshReads' /\ AllSettled'
  <2>1. \A b \in Actors : \A x \in Held(b)' : ~resolver'[b].fresh
    BY <1>4 DEF Held
  <2> QED
    BY <1>1, <1>4, <2>1 DEF FreshReads, AllSettled
<1>12. \A b \in Actors : resolver'[b].pc \in {"write", "mirror"} =>
         /\ Busy(resolver[b]) /\ resolver[b].pc = resolver'[b].pc
         /\ resolver'[b].left = resolver[b].left
         /\ \A side \in Sides : resolver'[b][side] = resolver[b][side]
  BY <1>2, <1>3 DEF Busy, Sides
<1>13. PicksStand'
  <2> SUFFICES ASSUME NEW b \in Actors, resolver'[b].pc \in {"write", "mirror"} PROVE Picked(b)'
    BY DEF PicksStand, Picked
  <2> DEFINE x == First(resolver[b].left)
  <2>1. x = First(resolver'[b].left) /\ x.tie \in Ties
    BY <1>12, AtHand
  <2>2. Picked(b)
    BY DEF Orderly, PicksStand
  <2>3. \A side \in Sides :
          /\ x.row[side] # None => resolver'[b][side] = x.row[side]
          /\ resolver'[b].pc = "mirror" /\ resolver'[b][side] # None => ties'[x.tie][side] = resolver'[b][side]
    BY <1>1, <1>12, <2>2 DEF Picked
  <2> HIDE DEF x
  <2> QED
    BY <2>1, <2>3 DEF Picked
<1>14. Alone'
  <2> SUFFICES ASSUME rewrites' > 0, NEW b \in Actors, resolver'[b] # Idle
               PROVE  (\A c \in Actors \ {b} : resolver'[c] = Idle) /\ ~Busy(resolver'[b])
    BY DEF Alone
  <2>1. \A c \in Actors \ {a} : resolver'[c] = Idle
    BY <1>1, <1>2
  <2> QED
    BY <1>3, <2>1
<1>15. Steady'
  <2> SUFFICES ASSUME rewrites' = 0 PROVE Steady'
    BY DEF Steady
  <2>1. rewrites = 0 /\ LegsGrow /\ ColumnsGrow /\ \A t \in Ties : Sound(ties[t], LegsOf(t))'
    BY <1>1, <1>7, SoundKeeps
  <2>2. \A b \in Actors : \A x \in Held(b)' : x \in Held(b) \/ x.row = ties'[x.tie]
    BY <1>5 DEF Keeps
  <2>3. ASSUME NEW b \in Actors, resolver'[b].pc \in {"write", "mirror"}
        PROVE  \A t \in Ties, side \in Sides :
                 t = First(resolver'[b].left).tie /\ resolver'[b][side] # None =>
                   resolver'[b][side] = Given(t, side)
    BY <1>12, <2>1, <2>3 DEF Orderly, Steady
  <2> QED
    BY <1>1, <1>6, <2>1, <2>2, <2>3, SteadyKeeps
<1> QED
  BY <1>8, <1>10, <1>11, <1>13, <1>14, <1>15 DEF Orderly

LEMMA IdleIs ==
    ASSUME BracketTypes, NEW a \in Actors, resolver[a].pc = "idle"
    PROVE  resolver[a] = Idle
BY DEF BracketTypes, StateShape, Idle

\* Whoever writes a result was idle, and the match had its teams.
LEMMA ResultSteps ==
    ASSUME BracketTypes, NEW m \in Matches,
           (\E a \in Actors : Finish(a, m)) \/ Correct(m) \/ RobotCorrects(m)
    PROVE  \E a \in Actors, res \in ResultsOf[m], next \in {Idle, [pc |-> "due", n |-> 0]} :
             /\ matches[m].home # None /\ matches[m].away # None
             /\ resolver[a] = Idle /\ ResultWritten(a, m, res, next)
<1>1. CASE \E a \in Actors : Finish(a, m)
  BY <1>1, IdleIs DEF Finish
<1>2. CASE Correct(m)
  <2>1. PICK res \in ResultsOf[m] : ResultWritten("admin", m, res, [pc |-> "due", n |-> 0])
    BY <1>2 DEF Correct
  <2>2. "admin" \in Actors /\ resolver["admin"].pc = "idle" /\ matches[m].result # None
    BY <1>2 DEF Correct
  <2>3. resolver["admin"] = Idle /\ matches[m].home # None /\ matches[m].away # None
    BY <2>2, IdleIs DEF BracketTypes
  <2> QED
    BY <2>1, <2>2, <2>3
<1>3. CASE RobotCorrects(m)
  <2>1. PICK res \in ResultsOf[m] :
          ResultWritten("robot", m, res, IF res.pens # matches[m].result.pens THEN [pc |-> "due", n |-> 0] ELSE Idle)
    BY <1>3 DEF RobotCorrects
  <2>2. "robot" \in Actors /\ resolver["robot"].pc = "idle" /\ matches[m].result # None
    BY <1>3 DEF RobotCorrects
  <2>3. resolver["robot"] = Idle /\ matches[m].home # None /\ matches[m].away # None
    BY <2>2, IdleIs DEF BracketTypes
  <2> QED
    BY <2>1, <2>2, <2>3
<1> QED
  BY <1>1, <1>2, <1>3

LEMMA BracketStep ==
    ASSUME BracketInv, [BracketNext]_bracketVars
    PROVE  BracketInv'
<1> USE DEF BracketInv
<1>1. CASE \E r \in Actors : ResolverStep(r)
  <2> PICK r \in Actors : ResolverStep(r)
    BY <1>1
  <2>1. BracketTypes'
    BY ResolverTypes
  <2>2. overtaken' = overtaken
    BY DEF ResolverStep, PassStart, ReadFeeders, WriteTie, Mirror
  <2>3. Orderly => Orderly'
    BY PassStartOrderly, ReadFeedersOrderly, WriteTieOrderly, MirrorOrderly DEF ResolverStep
  <2> QED
    BY <2>1, <2>2, <2>3
<1>2. CASE \E m \in Matches : (\E a \in Actors : Finish(a, m)) \/ Correct(m) \/ RobotCorrects(m)
  <2> PICK m \in Matches : (\E a \in Actors : Finish(a, m)) \/ Correct(m) \/ RobotCorrects(m)
    BY <1>2
  <2> PICK a \in Actors, res \in ResultsOf[m], next \in {Idle, [pc |-> "due", n |-> 0]} :
        /\ matches[m].home # None /\ matches[m].away # None
        /\ resolver[a] = Idle /\ ResultWritten(a, m, res, next)
    BY ResultSteps
  <2>1. BracketTypes' /\ (~overtaken' => ~overtaken)
    BY ResultWrittenIs
  <2>2. ~overtaken' => Orderly'
    BY <2>1, ResultOrderly
  <2> QED
    BY <2>1, <2>2
<1>3. CASE Crash
  <2>1. /\ resolver' = [a \in Actors |-> Idle] /\ UNCHANGED <<matches, ties, rewrites, overtaken>>
        /\ ~dirty' => ~dirty
    BY <1>3 DEF Crash
  <2>2. \A a \in Actors : resolver'[a] = Idle /\ ~Busy(resolver'[a]) /\ Held(a)' = {}
                          /\ resolver'[a].pc = "idle"
    BY <2>1 DEF Busy, Held, Idle
  <2>3. BracketTypes'
    BY <2>1, <2>2 DEF BracketTypes, StateShape
  <2>4. ASSUME Orderly PROVE Orderly'
    <3>1. LegsPaired' /\ SeedsStay'
      BY <2>1, <2>4 DEF Orderly, LegsPaired, SeedsStay, Paired
    <3>2. ReadsStand' /\ FreshReads' /\ PicksStand' /\ Alone'
      BY <2>2 DEF ReadsStand, FreshReads, PicksStand, Picked, Alone
    <3>3. TiesGrow /\ LegsGrow
      BY <2>1 DEF TiesGrow, LegsGrow
    <3>4. Steady'
      <4> SUFFICES ASSUME rewrites = 0 PROVE Steady'
        BY <2>1 DEF Steady
      <4>1. ColumnsGrow /\ \A t \in Ties : Sound(ties[t], LegsOf(t))'
        BY <2>1, <2>4, <3>3, SoundKeeps
      <4> QED
        BY <2>1, <2>2, <2>4, <3>3, <4>1, SteadyKeeps
    <3>5. AllSettled'
      <4>1. \A t \in Ties : Settled(t)' <=> Settled(t)
        BY <2>1 DEF Settled, Tells, LegsOf
      <4> QED
        BY <2>1, <2>2, <2>4, <4>1 DEF Orderly, AllSettled
    <3> QED
      BY <3>1, <3>2, <3>4, <3>5 DEF Orderly
  <2> QED
    BY <2>1, <2>3, <2>4
<1>4. CASE UNCHANGED bracketVars
  <2>1. UNCHANGED <<matches, ties, resolver, dirty, rewrites, overtaken>>
    BY <1>4 DEF bracketVars
  <2>2. BracketTypes'
    BY <2>1 DEF BracketTypes
  <2>3. ASSUME Orderly PROVE Orderly'
    <3>1. LegsPaired' /\ SeedsStay'
      BY <2>1, <2>3 DEF Orderly, LegsPaired, SeedsStay, Paired
    <3>2. ReadsStand' /\ FreshReads' /\ PicksStand'
      BY <2>1, <2>3 DEF Orderly, ReadsStand, ReadStands, Now, Held, FreshReads, PicksStand, Picked
    <3>3. Alone' /\ AllSettled'
      BY <2>1, <2>3 DEF Orderly, Alone, Held, AllSettled, Past, Settled, Tells, LegsOf
    <3>4. TiesGrow /\ LegsGrow
      BY <2>1 DEF TiesGrow, LegsGrow
    <3>5. Steady'
      <4> SUFFICES ASSUME rewrites = 0 PROVE Steady'
        BY <2>1 DEF Steady
      <4>1. ColumnsGrow /\ \A t \in Ties : Sound(ties[t], LegsOf(t))'
        BY <2>1, <2>3, <3>4, SoundKeeps
      <4>2. \A a \in Actors : \A x \in Held(a)' : x \in Held(a)
        BY <2>1 DEF Held
      <4>3. ASSUME NEW a \in Actors, resolver'[a].pc \in {"write", "mirror"}
            PROVE  \A t \in Ties, side \in Sides :
                     t = First(resolver'[a].left).tie /\ resolver'[a][side] # None =>
                       resolver'[a][side] = Given(t, side)
        BY <2>1, <2>3, <4>3 DEF Orderly, Steady
      <4> QED
        BY <2>1, <2>3, <3>4, <4>1, <4>2, <4>3, SteadyKeeps
    <3> QED
      BY <3>1, <3>2, <3>3, <3>5 DEF Orderly
  <2> QED
    BY <2>1, <2>2, <2>3
<1> QED
  BY <1>1, <1>2, <1>3, <1>4 DEF BracketNext

LEMMA BracketInvariant == BracketSpec => []BracketInv
<1>1. BracketInv /\ [BracketNext]_bracketVars => BracketInv'
  BY BracketStep
<1> QED
  BY <1>1, BracketInitInv, PTL DEF BracketSpec

-----------------------------------------------------------------------------
(* Goals are added up to a number. *)

LEMMA SumIsTotal ==
    ASSUME NEW amounts
    PROVE  SumOf(amounts) = Summed(amounts)
BY SMT DEF Summed, SumOf, MapThenSumSet, MapThenFoldSet, Totals, Adds, One

LEMMA SumIsNumber ==
    ASSUME NEW S, IsFiniteSet(S), NEW amounts \in [S -> Int]
    PROVE  SumOf(amounts) \in Int
<1>1. PICK h : Summed(amounts) = h[S] /\ Adding(amounts, S, h)
  BY TotalsAre
<1> QED
  BY <1>1, SumIsTotal DEF Adding

-----------------------------------------------------------------------------
(* The outcome of a tie at rest. *)

Scores(legs, team) == [k \in DOMAIN legs |-> IF legs[k].home = team THEN legs[k].result.home
                                             ELSE legs[k].result.away]

\* The legs of a tie that can be decided: finished, with a score, between its teams.
LEMMA DecidedLeg ==
    ASSUME BracketTypes, LegsPaired, NEW t \in Ties,
           Decidable(ties[t].home, ties[t].away, LegsOf(t)),
           NEW k \in DOMAIN LegsOf(t)
    PROVE  /\ LegsOf(t)[k].result \in Result
           /\ LegsOf(t)[k].home = Mirrored(k, ties[t].home, ties[t].away).home
           /\ LegsOf(t)[k].away = Mirrored(k, ties[t].home, ties[t].away).away
<1> DEFINE m == Legs[t][k]
<1>1. k \in DOMAIN Legs[t] /\ m \in Matches /\ LegsOf(t)[k] = matches[m]
  BY LegsAreMatches DEF LegsOf
<1>2. matches[m].result # None
  BY <1>1 DEF Decidable
<1>3. matches[m].result \in ResultsOf[m] /\ matches[m].home # None /\ matches[m].away # None
  BY <1>1, <1>2 DEF BracketTypes
<1>4. matches[m].result \in Result
  BY <1>1, <1>3, BracketAssumption DEF BracketAssumption
<1>5. Paired(k, "home", matches[m], ties[t]) /\ Paired(k, "away", matches[m], ties[t])
  BY <1>1 DEF LegsPaired, Sides
<1> QED
  BY <1>1, <1>3, <1>4, <1>5 DEF Paired

LEMMA LegsCounted ==
    ASSUME NEW t \in Ties
    PROVE  /\ IsFiniteSet(DOMAIN LegsOf(t))
           /\ LegsOf(t) # <<>> => Len(LegsOf(t)) \in DOMAIN LegsOf(t)
<1>1. Legs[t] \in Seq(Matches)
  BY BracketAssumption DEF BracketAssumption
<1>2. LegsOf(t) \in Seq({matches[m] : m \in Matches})
  BY <1>1 DEF LegsOf
<1>3. DOMAIN LegsOf(t) = 1 .. Len(LegsOf(t)) /\ Len(LegsOf(t)) \in Nat
  BY <1>2
<1>4. IsFiniteSet(1 .. Len(LegsOf(t)))
  BY <1>3, FS_Interval
<1> QED
  BY <1>2, <1>3, <1>4

LEMMA GoalsAreScores ==
    ASSUME NEW home, NEW away, NEW legs, Decidable(home, away, legs), NEW team \in {home, away}
    PROVE  [k \in DOMAIN legs |-> GoalsIn(legs[k], team, home)] = Scores(legs, team)
<1>1. ASSUME NEW k \in DOMAIN legs
      PROVE  GoalsIn(legs[k], team, home) = IF legs[k].home = team THEN legs[k].result.home
                                            ELSE legs[k].result.away
  BY DEF GoalsIn, Decidable
<1> QED
  BY <1>1 DEF Scores

LEMMA ScoresAddUp ==
    ASSUME BracketTypes, LegsPaired, NEW t \in Ties,
           Decidable(ties[t].home, ties[t].away, LegsOf(t)), NEW team
    PROVE  SumOf(Scores(LegsOf(t), team)) \in Int
<1> DEFINE legs == LegsOf(t)
<1>1. \A k \in DOMAIN legs : legs[k].result.home \in Int /\ legs[k].result.away \in Int
  BY DecidedLeg DEF Result
<1> HIDE DEF legs
<1>2. Scores(legs, team) \in [DOMAIN legs -> Int]
  BY <1>1 DEF Scores
<1>3. IsFiniteSet(DOMAIN legs)
  BY LegsCounted DEF legs
<1>4. SumOf(Scores(legs, team)) \in Int
  BY <1>2, <1>3, SumIsNumber
<1> QED
  BY <1>4 DEF legs

\* Who wins the shootout of the last leg.
Shoots(legs, team) ==
    LET last == legs[Len(legs)] IN last.result.pens # None /\ last[last.result.pens] = team

LEMMA OutcomeIs ==
    ASSUME BracketTypes, LegsPaired, NEW t \in Ties,
           Decidable(ties[t].home, ties[t].away, LegsOf(t)), Tells(ties[t], LegsOf(t))
    PROVE  LET total(team) == SumOf(Scores(LegsOf(t), team)) IN
           /\ ties[t].aggHome = total(ties[t].home) /\ ties[t].aggAway = total(ties[t].away)
           /\ \A team, other \in {ties[t].home, ties[t].away} : team # other =>
                (ties[t].winner = team <=>
                   \/ total(team) > total(other)
                   \/ total(team) = total(other) /\ Shoots(LegsOf(t), team))
<1> DEFINE legs == LegsOf(t)
           home == ties[t].home
           away == ties[t].away
           h == SumOf(Scores(legs, home))
           a == SumOf(Scores(legs, away))
           last == legs[Len(legs)]
           shootout == IF last.result.pens = None THEN None
                       ELSE IF (last.result.pens = "home") = (last.home = home) THEN home ELSE away
<1>1. h \in Int /\ a \in Int
  BY ScoresAddUp
<1>2. home # None /\ away # None
  BY DEF Decidable
<1>3. /\ [k \in DOMAIN legs |-> GoalsIn(legs[k], home, home)] = Scores(legs, home)
      /\ [k \in DOMAIN legs |-> GoalsIn(legs[k], away, home)] = Scores(legs, away)
  BY GoalsAreScores
<1>4. ties[t].aggHome = h /\ ties[t].aggAway = a
      /\ ties[t].winner = IF h > a THEN home ELSE IF a > h THEN away ELSE shootout
  <2>1. \A c \in {"aggHome", "aggAway", "winner"} : ties[t][c] = Aggregate(home, away, legs)[c]
    BY DEF Tells, Columns
  <2>2. /\ Aggregate(home, away, legs).aggHome = h /\ Aggregate(home, away, legs).aggAway = a
        /\ Aggregate(home, away, legs).winner = IF h > a THEN home ELSE IF a > h THEN away ELSE shootout
    <3> HIDE DEF legs, home, away
    <3> QED
      BY <1>3 DEF Aggregate
  <2> QED
    BY <2>1, <2>2
<1>5. /\ last.result.pens \in {None, "home", "away"}
      /\ {last.home, last.away} = {home, away}
  <2>1. Len(legs) \in DOMAIN legs
    BY LegsCounted DEF Decidable
  <2>2. /\ last.result \in Result
        /\ last.home = Mirrored(Len(legs), home, away).home
        /\ last.away = Mirrored(Len(legs), home, away).away
    BY <2>1, DecidedLeg
  <2> HIDE DEF last, home, away
  <2> QED
    BY <2>2 DEF Result, Mirrored
<1>6. ASSUME home # away
      PROVE  /\ Shoots(legs, home) <=> shootout = home
             /\ Shoots(legs, away) <=> shootout = away
  <2> HIDE DEF legs, home, away
  <2>1. CASE last.result.pens = None
    BY <1>2, <2>1 DEF Shoots
  <2>2. CASE last.result.pens = "home" /\ "home" # None
    BY <1>2, <1>5, <1>6, <2>2 DEF Shoots
  <2>3. CASE last.result.pens = "away" /\ "away" # None
    BY <1>2, <1>5, <1>6, <2>3 DEF Shoots
  <2> QED
    BY <1>5, <2>1, <2>2, <2>3
<1> HIDE DEF h, a, shootout
<1>7. ASSUME home # away
      PROVE  /\ ties[t].winner = home <=> (h > a \/ (h = a /\ Shoots(legs, home)))
             /\ ties[t].winner = away <=> (a > h \/ (a = h /\ Shoots(legs, away)))
  <2>1. CASE h > a
    BY <1>1, <1>4, <1>7, <2>1
  <2>2. CASE a > h
    BY <1>1, <1>4, <1>7, <2>2
  <2>3. CASE h = a
    BY <1>1, <1>4, <1>6, <1>7, <2>3
  <2> QED
    BY <1>1, <2>1, <2>2, <2>3
<1> QED
  BY <1>4, <1>7 DEF h, a

\* At rest, the aggregate and the winner of every tie are those of its legs as they
\* stand, however the robot's and the admin's resolveSeason overlapped, crashed or were
\* repeated and whatever was corrected, as long as none was overtaken by a correction.
THEOREM WinnersAlwaysStand == BracketSpec => []WinnersStand
<1>1. BracketInv => WinnersStand
  <2> SUFFICES ASSUME BracketInv, AtRest, ~overtaken, NEW t \in Ties
               PROVE  LET legs == Taken(t).legs
                          row == ties[t]
                          Scored(team, k) == IF legs[k].home = team THEN legs[k].result.home
                                             ELSE legs[k].result.away
                          Total(team) == SumOf([k \in DOMAIN legs |-> Scored(team, k)])
                          Shootout(team) == LET last == legs[Len(legs)]
                                            IN  last.result.pens # None
                                                /\ last[last.result.pens] = team
                      IN  Decidable(row.home, row.away, legs) =>
                            /\ row.aggHome = Total(row.home)
                            /\ row.aggAway = Total(row.away)
                            /\ \A team, other \in {row.home, row.away} :
                                 team # other =>
                                   (row.winner = team <=>
                                      \/ Total(team) > Total(other)
                                      \/ Total(team) = Total(other) /\ Shootout(team))
    BY Zenon DEF WinnersStand
  <2>1. BracketTypes /\ LegsPaired /\ AllSettled /\ ~dirty
    BY DEF BracketInv, Orderly, AtRest
  <2>2. Taken(t).legs = LegsOf(t)
    BY <2>1, TakenIs
  <2>3. Decidable(ties[t].home, ties[t].away, LegsOf(t)) => Tells(ties[t], LegsOf(t))
    BY <2>1 DEF AllSettled, Settled
  <2>4. Decidable(ties[t].home, ties[t].away, LegsOf(t)) =>
          LET total(team) == SumOf(Scores(LegsOf(t), team)) IN
          /\ ties[t].aggHome = total(ties[t].home) /\ ties[t].aggAway = total(ties[t].away)
          /\ \A team, other \in {ties[t].home, ties[t].away} : team # other =>
               (ties[t].winner = team <=>
                  \/ total(team) > total(other)
                  \/ total(team) = total(other) /\ Shoots(LegsOf(t), team))
    BY <2>1, <2>3, OutcomeIs
  <2> QED
    BY <2>2, <2>4 DEF Scores, Shoots
<1> QED
  BY <1>1, BracketInvariant, PTL

-----------------------------------------------------------------------------
(* The legs come to have the tie's teams.  The team of a leg's side is that *)
(* of the tie's side across.                                                *)

Across(k, side) == IF k = 2 THEN (IF side = "home" THEN "away" ELSE "home") ELSE side

\* The leg's slot is empty though the tie has the team.
Lacks(t, k, side) == matches[Legs[t][k]][side] = None /\ ties[t][Across(k, side)] # None

\* A run is about to fill it.
Fills(a, t, k, side) ==
    LET s == resolver[a] IN LET x == First(s.left) IN
    s.pc = "mirror" /\ x.tie = t /\ <<k, side>> \in Slots(x, s.home, s.away)

\* A run has still to take the tie: it has not yet looked for that team in vain.
Misses(s, x, k, side) ==
    s.pc \in {"write", "mirror"} /\ x = First(s.left) /\ s[Across(k, side)] = None
Comes(a, t, k, side) == \E x \in Held(a) : x.tie = t /\ ~Misses(resolver[a], x, k, side)

Reached(t, k, side) ==
    \/ \E a \in Actors : Fills(a, t, k, side)
    \/ dirty /\ \A a \in Actors : Busy(resolver[a]) /\ resolver[a].fresh => Comes(a, t, k, side)

LegsReach == \A t \in Ties : \A k \in DOMAIN Legs[t], side \in Sides :
                Lacks(t, k, side) => Reached(t, k, side)

LEMMA AcrossIs ==
    ASSUME NEW k, NEW side \in Sides
    PROVE  /\ Across(k, side) \in Sides
           /\ \A row : Mirrored(k, row.home, row.away)[side] = row[Across(k, side)]
BY DEF Across, Sides, Mirrored

\* The slots a run fills are those of the teams it has.
LEMMA SlotIs ==
    ASSUME NEW x, TakenShape(x), ReadStands(x), NEW row, NEW k \in DOMAIN Legs[x.tie], NEW side \in Sides,
           matches[Legs[x.tie][k]][side] = None, row[Across(k, side)] # None
    PROVE  <<k, side>> \in Slots(x, row.home, row.away)
<1>1. DOMAIN x.legs = DOMAIN Legs[x.tie]
  BY DEF TakenShape
<1>2. x.legs[k][side] = None
  BY DEF ReadStands, Now
<1>3. Mirrored(k, row.home, row.away)[side] # None
  BY AcrossIs
<1> QED
  BY <1>1, <1>2, <1>3 DEF Slots, Sides

LEMMA OthersReach ==
    ASSUME NEW r \in Actors, Runs(r), NEW b \in Actors \ {r}, NEW t, NEW k, NEW side
    PROVE  /\ Fills(b, t, k, side) => Fills(b, t, k, side)'
           /\ Busy(resolver'[b]) /\ resolver'[b].fresh => Busy(resolver[b]) /\ resolver[b].fresh
           /\ Comes(b, t, k, side) => Comes(b, t, k, side)'
BY DEF Runs, Fills, Comes, Held, Misses

\* A run that takes up or drops the tie at hand comes to those it has still to take.
LEMMA StillComes ==
    ASSUME BracketTypes, NEW r \in Actors, Busy(resolver[r]),
           \/ Drops(r)
           \/ /\ Runs(r) /\ (dirty' <=> dirty) /\ Busy(resolver'[r])
              /\ resolver'[r].left = resolver[r].left /\ resolver'[r].fresh = resolver[r].fresh,
           NEW x \in Held(r), x # First(resolver[r].left), NEW k, NEW side
    PROVE  Comes(r, x.tie, k, side)' /\ (dirty' <=> dirty)
<1> DEFINE s == resolver[r]
           left == s.left \ {First(s.left)}
<1>1. x \in left
  BY DEF Held
<1>2. CASE Drops(r)
  <2>1. resolver'[r].pc = "tie" /\ resolver'[r].left = left /\ (dirty' <=> dirty)
    BY <1>1, <1>2 DEF Drops
  <2>2. x \in Held(r)' /\ ~Misses(resolver'[r], x, k, side)
    BY <1>1, <2>1 DEF Held, Busy, Misses
  <2> QED
    BY <2>1, <2>2 DEF Comes
<1>3. CASE /\ (dirty' <=> dirty) /\ Busy(resolver'[r])
           /\ resolver'[r].left = s.left /\ resolver'[r].fresh = s.fresh
  <2>1. x \in Held(r)'
    BY <1>1, <1>3 DEF Held
  <2>2. First(resolver'[r].left) = First(s.left)
    BY <1>3
  <2>3. ~Misses(resolver'[r], x, k, side)
    BY <2>2 DEF Misses
  <2> QED
    BY <1>3, <2>1, <2>3 DEF Comes
<1> QED
  BY <1>2, <1>3

\* A run that is not fresh leaves it known that a result was written.
LEMMA StaleKeeps ==
    ASSUME NEW r \in Actors, Busy(resolver[r]), ~resolver[r].fresh, dirty,
           \/ Drops(r)
           \/ /\ (dirty' <=> dirty) /\ Busy(resolver'[r]) /\ resolver'[r].fresh = resolver[r].fresh
    PROVE  dirty' /\ ~(Busy(resolver'[r]) /\ resolver'[r].fresh)
<1> DEFINE left == resolver[r].left \ {First(resolver[r].left)}
<1>1. CASE Drops(r) /\ left = {}
  BY <1>1 DEF Drops, Busy
<1>2. CASE Drops(r) /\ left # {}
  <2>1. resolver'[r].fresh = resolver[r].fresh /\ (dirty' <=> dirty)
    BY <1>2 DEF Drops
  <2> QED
    BY <2>1
<1>3. CASE (dirty' <=> dirty) /\ Busy(resolver'[r]) /\ resolver'[r].fresh = resolver[r].fresh
  BY <1>3
<1> QED
  BY <1>1, <1>2, <1>3

\* What the steps of a pass share: what was lacking is still reached, if it is when the
\* run is at its tie.
LEMMA RunReaches ==
    ASSUME BracketTypes, Orderly, NEW r \in Actors, Busy(resolver[r]),
           \/ Drops(r)
           \/ /\ Runs(r) /\ (dirty' <=> dirty) /\ Busy(resolver'[r])
              /\ resolver'[r].left = resolver[r].left /\ resolver'[r].fresh = resolver[r].fresh,
           NEW t \in Ties, NEW k, NEW side, Reached(t, k, side),
           Fills(r, t, k, side) => Reached(t, k, side)',
           LET x == First(resolver[r].left) IN
             t = x.tie /\ resolver[r].fresh /\ ~Misses(resolver[r], x, k, side) => 
                (dirty' <=> dirty) /\ Comes(r, t, k, side)'
    PROVE  Reached(t, k, side)'
<1> DEFINE s == resolver[r]
           x == First(s.left)
<1>1. Runs(r)
  BY DropsRuns
<1>2. CASE \E a \in Actors : Fills(a, t, k, side)
  BY <1>1, <1>2, OthersReach DEF Reached
<1>3. CASE dirty /\ \A a \in Actors : Busy(resolver[a]) /\ resolver[a].fresh => Comes(a, t, k, side)
  <2>1. \A a \in Actors \ {r} : Busy(resolver'[a]) /\ resolver'[a].fresh => Comes(a, t, k, side)'
    BY <1>1, <1>3, OthersReach
  <2>2. CASE ~s.fresh
    <3>1. dirty' /\ ~(Busy(resolver'[r]) /\ resolver'[r].fresh)
      BY <1>3, <2>2, StaleKeeps
    <3> QED
      BY <2>1, <3>1 DEF Reached
  <2>3. CASE s.fresh
    <3>1. PICK y \in Held(r) : y.tie = t /\ ~Misses(s, y, k, side)
      BY <1>3, <2>3 DEF Comes
    <3>2. (dirty' <=> dirty) /\ Comes(r, t, k, side)'
      <4>1. CASE y = x
        BY <2>3, <3>1, <4>1
      <4>2. CASE y # x
        <5>1. Comes(r, y.tie, k, side)' /\ (dirty' <=> dirty)
          BY <3>1, <4>2, StillComes
        <5> QED
          BY <3>1, <5>1
      <4> QED
        BY <4>1, <4>2
    <3> QED
      BY <1>3, <2>1, <3>2 DEF Reached
  <2> QED
    BY <2>2, <2>3
<1> QED
  BY <1>2, <1>3 DEF Reached

LEMMA PassStartReaches ==
    ASSUME BracketTypes, Orderly, LegsReach, NEW r \in Actors, PassStart(r)
    PROVE  LegsReach'
<1> PICK left :
      /\ left = {x \in {Taken(t) : t \in Ties} : Awaits(x)}
      /\ LeftShape(left) /\ Runs(r) /\ resolver[r].pc = "due"
      /\ UNCHANGED <<matches, ties, rewrites, overtaken>>
      /\ left # {} => /\ resolver'[r].pc = "tie" /\ resolver'[r].fresh = TRUE
                      /\ resolver'[r].left = left
                      /\ dirty' <=> dirty
      /\ left = {} => resolver'[r].pc \in {"idle", "due"}
  BY PassStartIs
<1> SUFFICES ASSUME NEW t \in Ties, NEW k \in DOMAIN Legs[t], NEW side \in Sides, Lacks(t, k, side)'
             PROVE  Reached(t, k, side)'
  BY DEF LegsReach
<1>1. Lacks(t, k, side) /\ Reached(t, k, side)
  BY DEF Lacks, LegsReach
<1> DEFINE x == Taken(t)
<1>2. x.tie = t /\ x.row = ties[t] /\ TakenShape(x) /\ x.legs = LegsOf(t)
  BY TakenIs
<1>3. x \in left
  <2>1. ReadStands(x)
    BY <1>2, TakenStands
  <2>2. <<k, side>> \in Slots(x, x.row.home, x.row.away)
    BY <1>1, <1>2, <2>1, SlotIs DEF Lacks
  <2>3. Awaits(x)
    BY <2>2 DEF Awaits
  <2> QED
    BY <2>3
<1> HIDE DEF x
<1>4. Comes(r, t, k, side)' /\ (dirty' <=> dirty)
  BY <1>2, <1>3 DEF Comes, Held, Busy, Misses
<1>5. ~Fills(r, t, k, side)
  BY DEF Fills
<1>6. CASE \E a \in Actors : Fills(a, t, k, side)
  BY <1>5, <1>6, OthersReach DEF Reached
<1>7. CASE dirty /\ \A a \in Actors : Busy(resolver[a]) /\ resolver[a].fresh => Comes(a, t, k, side)
  BY <1>4, <1>7, OthersReach DEF Reached
<1> QED
  BY <1>1, <1>6, <1>7 DEF Reached

\* A run that takes up a tie has the teams that the tie has.
LEMMA PartnersKnown ==
    ASSUME BracketTypes, Orderly, NEW r \in Actors, resolver[r].pc = "tie", NEW side \in Sides,
           ties[First(resolver[r].left).tie][side] # None
    PROVE  Participant(First(resolver[r].left), side) # None
<1> DEFINE x == First(resolver[r].left)
<1>1. /\ x.tie \in Ties /\ x \in Held(r) /\ ReadStands(x)
      /\ rewrites > 0 => x.row = ties[x.tie]
  BY AtHand DEF Busy
<1>2. CASE x.row[side] # None
  BY <1>2 DEF Participant
<1>3. CASE x.row[side] = None
  <2>1. rewrites = 0
    BY <1>1, <1>3 DEF BracketTypes
  <2>2. ties[x.tie][side] = Given(x.tie, side)
    BY <1>1, <2>1 DEF Orderly, Steady
  <2>3. Seeded[x.tie][side] = None
    BY <1>1, <1>3 DEF ReadStands
  <2> QED
    BY <1>3, <2>2, <2>3 DEF Participant, Given
<1> QED
  BY <1>2, <1>3

LEMMA ReadFeedersReaches ==
    ASSUME BracketTypes, Orderly, LegsReach, NEW r \in Actors, ReadFeeders(r)
    PROVE  LegsReach'
<1> DEFINE s == resolver[r]
           x == First(s.left)
<1> PICK home, away :
      /\ home = Participant(x, "home") /\ away = Participant(x, "away")
      /\ UNCHANGED <<matches, ties, rewrites, overtaken>> /\ s.pc = "tie"
      /\ \/ /\ Wanted(x, home, away) = x.row /\ Slots(x, home, away) = {}
            /\ Drops(r)
         \/ /\ Runs(r) /\ (dirty' <=> dirty)
            /\ resolver'[r].pc \in {"write", "mirror"}
            /\ resolver'[r].pc = "mirror" => Wanted(x, home, away) = x.row
            /\ resolver'[r].left = s.left /\ resolver'[r].fresh = s.fresh
            /\ resolver'[r].home = home /\ resolver'[r].away = away
  BY ReadFeedersIs
<1> DEFINE stays == /\ Runs(r) /\ (dirty' <=> dirty)
                    /\ resolver'[r].pc \in {"write", "mirror"}
                    /\ resolver'[r].left = s.left /\ resolver'[r].fresh = s.fresh
                    /\ resolver'[r].home = home /\ resolver'[r].away = away
<1>1. UNCHANGED <<matches, ties, rewrites>> /\ s.pc = "tie" /\ Busy(s)
  BY DEF Busy
<1>2. x.tie \in Ties /\ ReadStands(x) /\ TakenShape(x) /\ x \in Held(r) /\ Held(r) = s.left
  BY <1>1, AtHand, BusyState
<1>3. (Drops(r) /\ Slots(x, home, away) = {}) \/ stays
  OBVIOUS
<1> SUFFICES ASSUME NEW t \in Ties, NEW k \in DOMAIN Legs[t], NEW side \in Sides, Lacks(t, k, side)'
             PROVE  Reached(t, k, side)'
  BY DEF LegsReach
<1>4. Lacks(t, k, side) /\ Reached(t, k, side) /\ Across(k, side) \in Sides
  BY AcrossIs DEF Lacks, LegsReach
<1>5. ~Fills(r, t, k, side)
  BY DEF Fills
<1>6. ASSUME t = x.tie PROVE (dirty' <=> dirty) /\ Comes(r, t, k, side)'
  <2>1. Participant(x, Across(k, side)) # None
    BY <1>4, <1>6, PartnersKnown DEF Lacks
  <2>2. PICK row : row = [home |-> home, away |-> away]
    OBVIOUS
  <2>3. row[Across(k, side)] # None
    BY <1>4, <2>1, <2>2 DEF Sides
  <2>4. <<k, side>> \in Slots(x, home, away)
    BY <1>2, <1>4, <1>6, <2>2, <2>3, SlotIs DEF Lacks
  <2>5. stays
    BY <1>3, <2>4
  <2>6. resolver'[r][Across(k, side)] # None
    BY <1>4, <2>2, <2>3, <2>5 DEF Sides
  <2>7. x \in Held(r)'
    BY <1>2, <2>5 DEF Held, Busy
  <2>8. ~Misses(resolver'[r], x, k, side)
    BY <2>6 DEF Misses
  <2> QED
    BY <1>6, <2>5, <2>7, <2>8 DEF Comes
<1> QED
  BY <1>1, <1>3, <1>4, <1>5, <1>6, RunReaches DEF Busy

LEMMA WriteTieReaches ==
    ASSUME BracketTypes, Orderly, LegsReach, NEW r \in Actors, WriteTie(r)
    PROVE  LegsReach'
<1> DEFINE s == resolver[r]
           x == First(s.left)
           stays == /\ Runs(r) /\ (dirty' <=> dirty)
                    /\ resolver'[r].pc = "mirror"
                    /\ resolver'[r].left = s.left /\ resolver'[r].fresh = s.fresh
                    /\ resolver'[r].home = s.home /\ resolver'[r].away = s.away
<1>1. UNCHANGED <<matches, rewrites>> /\ s.pc = "write" /\ Busy(s)
  BY DEF WriteTie, Busy
<1>2. /\ x.tie \in Ties /\ ReadStands(x) /\ TieShape(x.row) /\ TakenShape(x) /\ x \in Held(r)
      /\ \A y, z \in s.left : y.tie = z.tie => y = z
  BY <1>1, AtHand, BusyState
<1>3. (Drops(r) /\ Slots(x, s.home, s.away) = {}) \/ stays
  BY WriteTieIs
<1> SUFFICES ASSUME NEW t \in Ties, NEW k \in DOMAIN Legs[t], NEW side \in Sides, Lacks(t, k, side)'
             PROVE  Reached(t, k, side)'
  BY DEF LegsReach
<1>4. Across(k, side) \in Sides /\ matches[Legs[t][k]][side] = None
  BY <1>1, AcrossIs DEF Lacks
<1>5. CASE t # x.tie
  <2>1. ties'[t] = ties[t]
    BY <1>5, WriteTieIs
  <2>2. Reached(t, k, side)
    BY <1>1, <2>1 DEF Lacks, LegsReach
  <2>3. ~Fills(r, t, k, side)
    BY <1>1 DEF Fills
  <2> QED
    BY <1>1, <1>3, <1>5, <2>2, <2>3, RunReaches DEF Busy
<1>6. CASE t = x.tie /\ s[Across(k, side)] # None
  <2>1. <<k, side>> \in Slots(x, s.home, s.away)
    BY <1>2, <1>4, <1>6, SlotIs
  <2>2. stays
    BY <1>3, <2>1
  <2>3. Fills(r, t, k, side)'
    BY <1>6, <2>1, <2>2 DEF Fills
  <2> QED
    BY <2>3 DEF Reached
<1>7. CASE t = x.tie /\ s[Across(k, side)] = None
  <2>1. x.row[Across(k, side)] = None
    BY <1>1, <1>4, <1>7 DEF Orderly, PicksStand, Picked
  <2>2. Wanted(x, s.home, s.away)[Across(k, side)] = s[Across(k, side)]
    BY <1>2, <1>4, WantedIs DEF Sides
  <2>3. ties'[x.tie][Across(k, side)] = ties[x.tie][Across(k, side)]
    BY <1>4, <1>7, <2>1, <2>2, WriteTieIs
  <2>4. Reached(t, k, side)
    BY <1>1, <1>7, <2>3 DEF Lacks, LegsReach
  <2>5. ~Fills(r, t, k, side)
    BY <1>1 DEF Fills
  <2>6. Misses(s, x, k, side)
    BY <1>1, <1>7 DEF Misses
  <2> QED
    BY <1>1, <1>3, <2>4, <2>5, <2>6, RunReaches DEF Busy
<1> QED
  BY <1>5, <1>6, <1>7

LEMMA MirrorReaches ==
    ASSUME BracketTypes, Orderly, LegsReach, NEW r \in Actors, Mirror(r)
    PROVE  LegsReach'
<1> DEFINE s == resolver[r]
           x == First(s.left)
<1>1. UNCHANGED <<ties, rewrites>> /\ s.pc = "mirror" /\ Busy(s) /\ Drops(r)
  BY MirrorIs DEF Mirror, Busy
<1>2. x.tie \in Ties /\ ReadStands(x) /\ TakenShape(x)
  BY <1>1, AtHand
<1> SUFFICES ASSUME NEW t \in Ties, NEW k \in DOMAIN Legs[t], NEW side \in Sides, Lacks(t, k, side)'
             PROVE  Reached(t, k, side)'
  BY DEF LegsReach
<1>3. Legs[t][k] \in Matches
  BY LegsAreMatches
<1>4. Lacks(t, k, side) /\ Reached(t, k, side)
  BY <1>1, <1>3, MirrorSides DEF LegsGrow, Lacks, LegsReach
<1>5. ~(t = x.tie /\ <<k, side>> \in Slots(x, s.home, s.away))
  <2> SUFFICES ASSUME t = x.tie, <<k, side>> \in Slots(x, s.home, s.away) PROVE FALSE
    OBVIOUS
  <2>1. k \in DOMAIN x.legs
    BY <1>2 DEF TakenShape
  <2>2. PICK l \in DOMAIN x.legs : /\ <<l, side>> \in Slots(x, s.home, s.away)
                                   /\ matches'[Legs[t][k]][side] = Mirrored(l, s.home, s.away)[side]
    BY <1>3, <2>1, MirrorIs
  <2>3. matches'[Legs[t][k]][side] # None
    BY <2>2 DEF Slots
  <2> QED
    BY <2>3 DEF Lacks
<1>6. ~Fills(r, t, k, side)
  BY <1>5 DEF Fills
<1>7. t = x.tie => Misses(s, x, k, side)
  BY <1>1, <1>2, <1>4, <1>5, SlotIs DEF Misses, Lacks
<1> QED
  BY <1>1, <1>4, <1>6, <1>7, RunReaches

-----------------------------------------------------------------------------
(* The slots come to have the teams their feeders give, as long as no       *)
(* result was changed.                                                      *)

\* The feeder gives a team, and the tie does not have it.
Vacant(t, side) == ties[t][side] = None /\ Given(t, side) # None

Told == \A t \in Ties : Settled(t)
Full == Told /\ \A t \in Ties, side \in Sides : ~Vacant(t, side)

\* A run is to write the outcome of x.
Owed(x) == Wanted(x, x.row.home, x.row.away) # x.row

\* A run has nothing left for the slot in this pass.
Spent(a, t, side) == \A x \in Held(a) : x.tie = t =>
    resolver[a].pc \in {"write", "mirror"} /\ x = First(resolver[a].left) /\ resolver[a][side] = None

\* A run will fill what is vacant: in this pass, or, if it is the first one, in the next, as
\* it has something to write.
WillFill(a) ==
    LET s == resolver[a] IN
    \/ s.pc = "due" /\ (s.n = 0 \/ Told)
    \/ /\ Busy(s) /\ s.fresh /\ (s.n = 1 \/ Told)
       /\ \A t \in Ties, side \in Sides : Vacant(t, side) /\ Spent(a, t, side) =>
            s.n = 1 /\ (s.changed \/ \E x \in Held(a) : Owed(x))

SlotsReach ==
    rewrites = 0 => \/ Full
                    \/ \E a \in Actors : WillFill(a)
                    \/ dirty /\ \A a \in Actors : resolver[a] = Idle

\* What the steps of the runs do.
Onwards ==
    /\ TiesGrow /\ LegsGrow /\ ColumnsGrow
    /\ \A m \in Matches : matches'[m].result = matches[m].result
    /\ \A t \in Ties : Sound(ties[t], LegsOf(t))'
    /\ \A t \in Ties : Settled(t) => Settled(t)'

LEMMA NothingNew ==
    ASSUME UNCHANGED <<matches, ties>>
    PROVE  /\ \A t \in Ties : Settled(t)' <=> Settled(t)
           /\ \A t \in Ties, side \in Sides : Vacant(t, side)' <=> Vacant(t, side)
           /\ Told' <=> Told
           /\ Full' <=> Full
<1>1. \A t \in Ties : Settled(t)' <=> Settled(t)
  BY DEF Settled, Tells, LegsOf
<1>2. \A t \in Ties, side \in Sides : Vacant(t, side)' <=> Vacant(t, side)
  BY DEF Vacant, Given, Feeder, Loser, GroupDone, AtPlace, Played, BestThird, Drawn
<1>3. Told' <=> Told
  BY <1>1 DEF Told
<1> QED
  BY <1>1, <1>2, <1>3 DEF Full

LEMMA RunsGoOn ==
    ASSUME BracketTypes, Orderly, rewrites = 0, NEW r \in Actors, ResolverStep(r)
    PROVE  Onwards /\ rewrites' = 0
<1>1. CASE UNCHANGED <<matches, ties, rewrites>>
  <2>1. TiesGrow /\ LegsGrow /\ \A m \in Matches : matches'[m].result = matches[m].result
    BY <1>1 DEF TiesGrow, LegsGrow
  <2>2. ColumnsGrow /\ \A t \in Ties : Sound(ties[t], LegsOf(t))'
    BY <1>1, <2>1, SoundKeeps
  <2>3. \A t \in Ties : Settled(t) => Settled(t)'
    BY <1>1 DEF Settled, Tells, LegsOf
  <2> QED
    BY <1>1, <2>1, <2>2, <2>3 DEF Onwards
<1>2. CASE WriteTie(r)
  <2>1. UNCHANGED <<matches, rewrites>>
    BY <1>2 DEF WriteTie
  <2>2. TiesGrow /\ LegsGrow /\ \A m \in Matches : matches'[m].result = matches[m].result
    BY <1>2, <2>1, WriteSides DEF LegsGrow
  <2>3. ColumnsGrow /\ \A t \in Ties : Sound(ties[t], LegsOf(t))'
    BY <1>2, WriteSound
  <2>4. \A t \in Ties : Settled(t) => Settled(t)'
    BY <1>2, WriteSettles
  <2> QED
    BY <2>1, <2>2, <2>3, <2>4 DEF Onwards
<1>3. CASE Mirror(r)
  <2>1. UNCHANGED <<ties, rewrites>>
    BY <1>3 DEF Mirror
  <2>2. TiesGrow /\ LegsGrow /\ \A m \in Matches : matches'[m].result = matches[m].result
    BY <1>3, <2>1, MirrorIs, MirrorSides DEF TiesGrow
  <2>3. ColumnsGrow /\ \A t \in Ties : Sound(ties[t], LegsOf(t))'
    BY <2>1, <2>2, SoundKeeps
  <2>4. \A t \in Ties : Settled(t) => Settled(t)'
    BY <2>1, <2>2, SettledKeeps
  <2> QED
    BY <2>1, <2>2, <2>3, <2>4 DEF Onwards
<1> QED
  BY <1>1, <1>2, <1>3 DEF ResolverStep, PassStart, ReadFeeders

\* A tie that has its outcome gets no other winner.
LEMMA NoNewWinner ==
    ASSUME BracketTypes, Orderly, Onwards, NEW u \in Ties, Settled(u), ties[u].winner = None
    PROVE  ties'[u].winner = None
<1> SUFFICES ASSUME ties'[u].winner # None PROVE FALSE
  OBVIOUS
<1>1. Bare(ties[u]) /\ ~Bare(ties'[u])
  BY DEF Onwards, ColumnsGrow, Columns, Bare
<1>2. Sound(ties'[u], LegsOf(u)')
  BY DEF Onwards, Sound, Bare, Tells
<1>3. Decidable(ties'[u].home, ties'[u].away, LegsOf(u)') /\ Tells(ties'[u], LegsOf(u)')
  BY <1>1, <1>2 DEF Sound
<1>4. \A k \in DOMAIN Legs[u] : matches[Legs[u][k]].result # None
  <2>1. \A k \in DOMAIN Legs[u] : matches'[Legs[u][k]].result # None
    BY <1>3 DEF Decidable, LegsOf
  <2> QED
    BY <2>1, LegsAreMatches DEF Onwards
<1>5. LegsOf(u)' = LegsOf(u)
  BY <1>4, PlayedLegsStay DEF Onwards
<1>6. ties[u].home # None /\ ties[u].away # None
  BY <1>3, <1>5, PlayedTeams
<1>7. ties'[u].home = ties[u].home /\ ties'[u].away = ties[u].away
  BY <1>6 DEF Onwards, TiesGrow, Sides
<1>8. Tells(ties[u], LegsOf(u))
  BY <1>3, <1>5, <1>7 DEF Settled
<1> QED
  BY <1>3, <1>5, <1>7, <1>8 DEF Tells, Columns

\* Only an outcome that is written, or a result, is news for a feeder.
LEMMA FeederNews ==
    ASSUME BracketTypes, Orderly, rewrites = 0, Onwards, Told, NEW s \in Slot \cup {None}, Feeder(s) = None
    PROVE  Feeder(s)' = None
<1>1. CASE s = None
  BY <1>1 DEF Feeder
<1>2. CASE s # None /\ s.type = "MATCH_WINNER"
  <2>1. s.tie \in Ties
    BY <1>2 DEF Slot
  <2>2. Feeder(s) = ties[s.tie].winner /\ Feeder(s)' = ties'[s.tie].winner
    BY <1>2 DEF Feeder
  <2> QED
    BY <2>1, <2>2, NoNewWinner DEF Told
<1>3. CASE s # None /\ s.type = "MATCH_LOSER"
  <2>1. s.tie \in Ties
    BY <1>3 DEF Slot
  <2>2. Feeder(s) = Loser(s.tie) /\ Feeder(s)' = Loser(s.tie)'
    BY <1>3 DEF Feeder
  <2>3. ties[s.tie].winner = None
    <3> SUFFICES ASSUME ties[s.tie].winner # None PROVE FALSE
      OBVIOUS
    <3>1. Sound(ties[s.tie], LegsOf(s.tie)) /\ ~Bare(ties[s.tie])
      BY <2>1 DEF Orderly, Steady, Bare, Columns
    <3>2. ties[s.tie].home # None /\ ties[s.tie].away # None
      BY <3>1 DEF Sound, Decidable
    <3> QED
      BY <2>2, <3>2 DEF Loser
  <2>4. ties'[s.tie].winner = None
    BY <2>1, <2>3, NoNewWinner DEF Told
  <2> QED
    BY <2>2, <2>4 DEF Loser
<1>4. \A g \in Groups : GroupDone(g)' <=> GroupDone(g)
  BY BracketAssumption DEF BracketAssumption, GroupDone, Onwards
<1>5. CASE s # None /\ s.type = "GROUP_POSITION"
  <2>1. s.group \in Groups
    BY <1>5 DEF Slot
  <2>2. GroupDone(s.group) => AtPlace(s.group, s.position)' = AtPlace(s.group, s.position)
    BY <2>1, DonePlacesStay DEF Onwards
  <2>3. Feeder(s) = IF GroupDone(s.group) THEN AtPlace(s.group, s.position) ELSE None
    BY <1>5 DEF Feeder
  <2>4. Feeder(s)' = IF GroupDone(s.group)' THEN AtPlace(s.group, s.position)' ELSE None
    BY <1>5 DEF Feeder
  <2> QED
    BY <1>4, <2>1, <2>2, <2>3, <2>4
<1>6. CASE s # None /\ s.type = "BEST_RANKED"
  <2>1. CASE \A g \in Groups : GroupDone(g)
    <3>1. \A g \in Groups : GroupDone(g)' /\ AtPlace(g, ThirdPlace)' = AtPlace(g, ThirdPlace)
      BY <1>4, <2>1, DonePlacesStay DEF Onwards
    <3>2. [g \in Groups |-> AtPlace(g, ThirdPlace)]' = [g \in Groups |-> AtPlace(g, ThirdPlace)]
      BY <3>1
    <3>3. PICK third : third = [g \in Groups |-> AtPlace(g, ThirdPlace)]
      OBVIOUS
    <3>4. BestThird(third, s.winnerGroup)' = BestThird(third, s.winnerGroup)
      BY <2>1, DoneDrawStays DEF Onwards
    <3>5. Feeder(s) = BestThird(third, s.winnerGroup)
      BY <1>6, <2>1, <3>3 DEF Feeder
    <3>6. Feeder(s)' = BestThird(third, s.winnerGroup)'
      BY <1>6, <3>1, <3>2, <3>3 DEF Feeder
    <3> QED
      BY <3>4, <3>5, <3>6
  <2>2. CASE ~\A g \in Groups : GroupDone(g)
    <3>1. ~\A g \in Groups : GroupDone(g)'
      BY <1>4, <2>2
    <3> QED
      BY <1>6, <3>1 DEF Feeder
  <2> QED
    BY <2>1, <2>2
<1> QED
  BY <1>1, <1>2, <1>3, <1>5, <1>6 DEF Slot

LEMMA NoNewVacancy ==
    ASSUME BracketTypes, Orderly, rewrites = 0, Onwards, Told, NEW t \in Ties, NEW side \in Sides,
           Vacant(t, side)'
    PROVE  Vacant(t, side)
<1>1. Source[t][side] \in Slot \cup {None}
  BY BracketAssumption DEF BracketAssumption, Sides
<1>2. ties'[t][side] = None /\ Given(t, side)' # None
  BY DEF Vacant
<1>3. ties[t][side] = None
  BY <1>2 DEF Onwards, TiesGrow
<1>4. Given(t, side) # None
  BY <1>1, <1>2, FeederNews DEF Given
<1> QED
  BY <1>3, <1>4 DEF Vacant

\* Who is to tell an outcome has something to write.
LEMMA UntoldIsOwed ==
    ASSUME BracketTypes, Orderly, rewrites = 0, NEW a \in Actors, Busy(resolver[a]), resolver[a].fresh, ~Told
    PROVE  \E x \in Held(a) : Owed(x)
<1> PICK u \in Ties : ~Settled(u)
  BY DEF Told
<1>1. PICK x \in Held(a) : x.tie = u
  BY DEF Orderly, AllSettled, Past
<1>2. Decidable(ties[u].home, ties[u].away, LegsOf(u)) /\ ~Tells(ties[u], LegsOf(u))
  BY DEF Settled
<1>3. /\ x.legs = LegsOf(u)
      /\ x.row.home = ties[u].home /\ x.row.away = ties[u].away
  BY <1>1, <1>2, FreshTie
<1>4. TieShape(x.row)
  BY <1>1, BusyState DEF Held, TakenShape
<1>5. Sound(ties[u], LegsOf(u)) /\ (Bare(x.row) \/ \A c \in Columns : ties[u][c] = x.row[c])
  BY <1>1 DEF Orderly, Steady
<1>6. Bare(ties[u])
  BY <1>2, <1>5 DEF Sound
<1>7. \A c \in Columns : x.row[c] = ties[u][c]
  BY <1>5, <1>6 DEF Bare
<1>8. \A c \in Columns : Wanted(x, x.row.home, x.row.away)[c] = Aggregate(ties[u].home, ties[u].away, LegsOf(u))[c]
  BY <1>2, <1>3, <1>4, WantedIs
<1>9. Owed(x)
  BY <1>2, <1>7, <1>8 DEF Owed, Tells
<1> QED
  BY <1>1, <1>9

LEMMA FullKeeps ==
    ASSUME BracketTypes, Orderly, rewrites = 0, Onwards, Full
    PROVE  Full'
<1>1. Told /\ Told'
  BY DEF Full, Told, Onwards
<1> QED
  BY <1>1, NoNewVacancy DEF Full

LEMMA OthersFill ==
    ASSUME BracketTypes, Orderly, rewrites = 0, Onwards, NEW r \in Actors, Runs(r), NEW b \in Actors \ {r}, WillFill(b)
    PROVE  WillFill(b)'
<1>1. Told => Told'
  BY DEF Told, Onwards
<1>2. resolver'[b] = resolver[b] /\ Held(b)' = Held(b)
  BY DEF Runs, Held
<1>3. CASE resolver[b].pc = "due" /\ (resolver[b].n = 0 \/ Told)
  BY <1>1, <1>2, <1>3 DEF WillFill
<1>4. CASE Busy(resolver[b]) /\ resolver[b].fresh /\ (resolver[b].n = 1 \/ Told)
  <2>1. ASSUME NEW t \in Ties, NEW side \in Sides, Vacant(t, side)', Spent(b, t, side)'
        PROVE  resolver[b].n = 1 /\ (resolver[b].changed \/ \E x \in Held(b) : Owed(x))
    <3>1. CASE ~Told
      BY <1>4, <3>1, UntoldIsOwed
    <3>2. CASE Told
      <4>1. Vacant(t, side)
        BY <2>1, <3>2, NoNewVacancy
      <4>2. Spent(b, t, side)
        BY <1>2, <2>1 DEF Spent
      <4> QED
        BY <1>4, <4>1, <4>2 DEF WillFill, Busy
    <3> QED
      BY <3>1, <3>2
  <2> QED
    BY <1>1, <1>2, <1>4, <2>1 DEF WillFill, Owed
<1> QED
  BY <1>3, <1>4 DEF WillFill

\* The run is done with the tie at hand, and may be with the pass.
Moves(r, changed) ==
    LET s == resolver[r] IN LET left == s.left \ {First(s.left)} IN
    /\ left # {} => resolver'[r] = [pc |-> "tie", n |-> s.n, changed |-> changed,
                                    fresh |-> s.fresh, left |-> left]
    /\ left = {} => resolver'[r] = IF changed /\ s.n < MaxPasses THEN [pc |-> "due", n |-> s.n] ELSE Idle

LEMMA AdvanceMoves ==
    ASSUME BracketTypes, NEW r \in Actors, NEW changed, Advance(r, resolver[r], changed)
    PROVE  Moves(r, changed)
<1> DEFINE s == resolver[r]
           left == s.left \ {First(s.left)}
           next == [pc |-> "tie", n |-> s.n, changed |-> changed, fresh |-> s.fresh, left |-> left]
<1>1. resolver' = [resolver EXCEPT ![r] =
         IF next.left # {} THEN next ELSE IF Again(next) THEN [pc |-> "due", n |-> next.n] ELSE Idle]
  BY DEF Advance, Proceed
<1>2. next.left = left /\ next.n = s.n /\ (Again(next) <=> changed /\ s.n < MaxPasses)
  BY DEF Again
<1> HIDE DEF next, left
<1>3. resolver'[r] = IF next.left # {} THEN next ELSE IF Again(next) THEN [pc |-> "due", n |-> next.n] ELSE Idle
  BY <1>1 DEF BracketTypes
<1>4. /\ left # {} => resolver'[r] = next
      /\ left = {} => resolver'[r] = IF changed /\ s.n < MaxPasses THEN [pc |-> "due", n |-> s.n] ELSE Idle
  BY <1>2, <1>3
<1> QED
  BY <1>4 DEF Moves, next, left

LEMMA MovesOn ==
    ASSUME BracketTypes, Orderly, rewrites = 0, Onwards, MaxPasses > 1,
           NEW r \in Actors, Busy(resolver[r]), WillFill(r), NEW changed, Moves(r, changed),
           resolver[r].changed \/ Owed(First(resolver[r].left)) => changed,
           NEW T, T = First(resolver[r].left).tie, resolver[r].fresh => Settled(T)',
           \A side \in Sides : ties'[T][side] = None /\ Vacant(T, side) => Spent(r, T, side)
    PROVE  Full' \/ WillFill(r)'
<1> DEFINE s == resolver[r]
           x == First(s.left)
           left == s.left \ {x}
<1>1. s.fresh /\ (s.n = 1 \/ Told)
  BY DEF WillFill, Busy
<1>2. Told => Told'
  BY DEF Told, Onwards
<1>3. T \in Ties /\ x \in s.left /\ Held(r) = s.left /\ \A y, z \in s.left : y.tie = z.tie => y = z
  BY BusyState
<1>4. ASSUME NEW t \in Ties, NEW side \in Sides, Vacant(t, side)', \A y \in left : y.tie # t
      PROVE  s.n = 1 /\ (changed \/ \E y \in left : Owed(y))
  <2>1. s.n = 1 /\ (s.changed \/ \E y \in s.left : Owed(y))
    <3>1. CASE ~Told
      BY <1>1, <1>3, <3>1, UntoldIsOwed
    <3>2. CASE Told
      <4>1. Vacant(t, side)
        BY <1>4, <3>2, NoNewVacancy
      <4>2. Spent(r, t, side)
        <5>1. CASE t = T
          BY <1>4, <4>1, <5>1 DEF Vacant
        <5>2. CASE t # T
          BY <1>3, <1>4, <5>2 DEF Spent
        <5> QED
          BY <5>1, <5>2
      <4> QED
        BY <1>3, <4>1, <4>2 DEF WillFill, Busy
    <3> QED
      BY <3>1, <3>2
  <2>2. CASE s.changed
    BY <2>1, <2>2
  <2>3. CASE \E y \in s.left : Owed(y)
    BY <2>1, <2>3
  <2> QED
    BY <2>1, <2>2, <2>3
<1>5. CASE left # {}
  <2>1. resolver'[r] = [pc |-> "tie", n |-> s.n, changed |-> changed, fresh |-> s.fresh, left |-> left]
    BY <1>5 DEF Moves
  <2> HIDE DEF left
  <2>2. /\ resolver'[r].pc = "tie" /\ Busy(resolver'[r]) /\ Held(r)' = left
        /\ resolver'[r].fresh = s.fresh /\ resolver'[r].n = s.n /\ resolver'[r].changed = changed
    BY <2>1 DEF Busy, Held
  <2>3. ASSUME NEW t \in Ties, NEW side \in Sides, Vacant(t, side)', Spent(r, t, side)'
        PROVE  resolver'[r].n = 1 /\ (resolver'[r].changed \/ \E y \in Held(r)' : Owed(y))
    <3>1. \A y \in left : y.tie # t
      BY <2>2, <2>3 DEF Spent
    <3>2. s.n = 1 /\ (changed \/ \E y \in left : Owed(y))
      BY <1>4, <2>3, <3>1
    <3> QED
      BY <2>2, <3>2
  <2>4. resolver'[r].fresh /\ (resolver'[r].n = 1 \/ Told')
    BY <1>1, <1>2, <2>2
  <2> QED
    BY <2>2, <2>3, <2>4 DEF WillFill, Owed
<1>6. CASE left = {}
  <2>1. \A t \in Ties : Settled(t)'
    <3> SUFFICES ASSUME NEW t \in Ties, t # T PROVE Settled(t)'
      BY <1>1
    <3>1. Past(r, t)
      BY <1>3, <1>6 DEF Past
    <3>2. Settled(t)
      BY <1>1, <3>1 DEF Orderly, AllSettled
    <3> QED
      BY <3>2 DEF Onwards
  <2>2. Told'
    BY <2>1 DEF Told
  <2>3. CASE changed /\ s.n < MaxPasses
    <3>1. resolver'[r] = [pc |-> "due", n |-> s.n]
      BY <1>6, <2>3 DEF Moves
    <3> QED
      BY <2>2, <3>1 DEF WillFill
  <2>4. CASE ~(changed /\ s.n < MaxPasses)
    <3>1. \A t \in Ties, side \in Sides : ~Vacant(t, side)'
      BY <1>4, <1>6, <2>4
    <3> QED
      BY <2>2, <3>1 DEF Full
  <2> QED
    BY <2>3, <2>4
<1> QED
  BY <1>5, <1>6

LEMMA StaysOn ==
    ASSUME BracketTypes, Orderly, rewrites = 0, Onwards,
           NEW r \in Actors, Busy(resolver[r]), WillFill(r), NEW pc \in {"write", "mirror"},
           NEW changed, NEW home, NEW away,
           resolver'[r] = [pc |-> pc, n |-> resolver[r].n, changed |-> changed, fresh |-> resolver[r].fresh,
                           left |-> resolver[r].left, home |-> home, away |-> away],
           resolver[r].changed => changed,
           LET T == First(resolver[r].left).tie IN
             \A side \in Sides : Vacant(T, side) /\ resolver'[r][side] = None => Spent(r, T, side)
    PROVE  WillFill(r)'
<1> DEFINE s == resolver[r]
           x == First(s.left)
<1> PICK T : T = x.tie
  OBVIOUS
<1>1. s.fresh /\ (s.n = 1 \/ Told)
  BY DEF WillFill, Busy
<1>2. Told => Told'
  BY DEF Told, Onwards
<1>3. T \in Ties /\ x \in s.left /\ Held(r) = s.left /\ \A y, z \in s.left : y.tie = z.tie => y = z
  BY BusyState
<1>4. /\ Busy(resolver'[r]) /\ Held(r)' = s.left /\ resolver'[r].left = s.left
      /\ resolver'[r].fresh = s.fresh /\ resolver'[r].n = s.n /\ resolver'[r].changed = changed
  BY DEF Busy, Held
<1>5. First(resolver'[r].left) = x
  BY <1>4
<1>6. ASSUME NEW t \in Ties, NEW side \in Sides, Vacant(t, side)', Spent(r, t, side)'
      PROVE  s.n = 1 /\ (s.changed \/ \E y \in s.left : Owed(y))
  <2>1. CASE ~Told
    BY <1>1, <1>3, <2>1, UntoldIsOwed
  <2>2. CASE Told
    <3>1. Vacant(t, side)
      BY <1>6, <2>2, NoNewVacancy
    <3>2. \A y \in s.left : y.tie = t => y = x /\ resolver'[r][side] = None
      <4> HIDE DEF x
      <4> QED
        BY <1>4, <1>5, <1>6 DEF Spent
    <3>3. Spent(r, t, side)
      <4>1. CASE t = T
        BY <1>3, <3>1, <3>2, <4>1
      <4>2. CASE t # T
        BY <1>3, <3>2, <4>2 DEF Spent
      <4> QED
        BY <4>1, <4>2
    <3> QED
      BY <1>3, <3>1, <3>3 DEF WillFill, Busy
  <2> QED
    BY <2>1, <2>2
<1>7. ASSUME NEW t \in Ties, NEW side \in Sides, Vacant(t, side)', Spent(r, t, side)'
      PROVE  resolver'[r].n = 1 /\ (resolver'[r].changed \/ \E y \in Held(r)' : Owed(y))
  BY <1>4, <1>6, <1>7
<1>8. resolver'[r].fresh /\ (resolver'[r].n = 1 \/ Told')
  BY <1>1, <1>2, <1>4
<1> QED
  BY <1>4, <1>7, <1>8 DEF WillFill, Owed

LEMMA PassStartFills ==
    ASSUME BracketTypes, Orderly, rewrites = 0, NEW r \in Actors, PassStart(r), WillFill(r)
    PROVE  Full' \/ WillFill(r)'
<1> DEFINE left == {x \in {Taken(t) : t \in Ties} : Awaits(x)}
           next == [pc |-> "tie", n |-> resolver[r].n + 1, changed |-> FALSE, fresh |-> TRUE, left |-> left]
<1>1. UNCHANGED <<matches, ties, rewrites>> /\ Proceed(r, next) /\ resolver[r].pc = "due"
  BY DEF PassStart
<1>2. \A t \in Ties, side \in Sides : Vacant(t, side)' <=> Vacant(t, side)
  BY <1>1, NothingNew
<1>3. \A t \in Ties : Settled(t)' <=> Settled(t)
  BY <1>1, NothingNew
<1>4. \A t \in Ties : Taken(t) \in left \/ Settled(t)
  BY PassedOverSettled
<1>5. \A t \in Ties, side \in Sides : Vacant(t, side) => Taken(t) \in left
  <2> SUFFICES ASSUME NEW t \in Ties, NEW side \in Sides, Vacant(t, side) PROVE Awaits(Taken(t))
    OBVIOUS
  <2>1. Taken(t).tie = t /\ Taken(t).row = ties[t]
    BY TakenIs
  <2>2. ties[t][side] = None /\ Seeded[t][side] = None
    BY DEF Vacant, Orderly, SeedsStay
  <2>3. Source[t][side] # None
    BY <2>2 DEF Vacant, Given, Feeder
  <2> QED
    BY <2>1, <2>2, <2>3 DEF Awaits, Sides
<1>6. \A t \in Ties : Taken(t).tie = t
  BY TakenIs
<1>7. resolver[r].n = 0 \/ Told
  BY <1>1 DEF WillFill, Busy
<1>8. next.left = left /\ next.n = resolver[r].n + 1 /\ next.fresh = TRUE /\ next.pc = "tie"
  OBVIOUS
<1>9. left # {} => resolver'[r] = next
  BY <1>1, <1>8 DEF Proceed, BracketTypes
<1> HIDE DEF left, next
<1>10. CASE left = {}
  <2>1. Told' /\ \A t \in Ties, side \in Sides : ~Vacant(t, side)'
    BY <1>2, <1>3, <1>4, <1>5, <1>10 DEF Told
  <2> QED
    BY <2>1 DEF Full
<1>11. CASE left # {}
  <2>1. /\ resolver'[r].pc = "tie" /\ Busy(resolver'[r]) /\ Held(r)' = left
        /\ resolver'[r].fresh = TRUE /\ resolver'[r].n = resolver[r].n + 1
    BY <1>8, <1>9, <1>11 DEF Busy, Held
  <2>2. resolver'[r].n = 1 \/ Told'
    BY <1>3, <1>7, <2>1 DEF Told
  <2>3. \A t \in Ties, side \in Sides : ~(Vacant(t, side)' /\ Spent(r, t, side)')
    BY <1>2, <1>5, <1>6, <2>1 DEF Spent
  <2> QED
    BY <2>1, <2>2, <2>3 DEF WillFill
<1> QED
  BY <1>10, <1>11

LEMMA ReadFeedersFills ==
    ASSUME BracketTypes, Orderly, rewrites = 0, MaxPasses > 1, NEW r \in Actors, ReadFeeders(r), WillFill(r)
    PROVE  Full' \/ WillFill(r)'
<1> DEFINE s == resolver[r]
           x == First(s.left)
           home == Participant(x, "home")
           away == Participant(x, "away")
<1> PICK T : T = x.tie
  OBVIOUS
<1>1. /\ s.pc = "tie" /\ Busy(s) /\ UNCHANGED <<matches, ties, rewrites>>
      /\ TieRead(r, s, x, home, away)
  BY DEF ReadFeeders, Busy
<1>2. T \in Ties /\ T = x.tie /\ ReadStands(x) /\ TieShape(x.row) /\ x \in Held(r)
  BY <1>1, AtHand
<1>3. Onwards
  BY RunsGoOn DEF ResolverStep
<1>4. s.fresh
  BY <1>1 DEF WillFill, Busy
<1>5. \A side \in Sides : Vacant(T, side) => x.row[side] = None /\ Participant(x, side) # None
  <2> SUFFICES ASSUME NEW side \in Sides, Vacant(T, side) PROVE x.row[side] = None /\ Participant(x, side) # None
    OBVIOUS
  <2>1. x.row[side] = None /\ Seeded[x.tie][side] = None
    BY <1>2 DEF Vacant, ReadStands
  <2> QED
    BY <2>1 DEF Vacant, Given, Participant
<1>6. CASE Wanted(x, home, away) = x.row /\ Slots(x, home, away) = {}
  <2>1. Moves(r, s.changed)
    BY <1>1, <1>6, AdvanceMoves DEF TieRead
  <2>2. x.row.home = home /\ x.row.away = away
    BY <1>2, <1>6, WantedIs
  <2>3. ~Owed(x)
    BY <1>6, <2>2 DEF Owed
  <2>4. \A side \in Sides : ~Vacant(T, side)
    BY <1>5, <2>2 DEF Sides
  <2>5. Settled(T)'
    <3>1. Settled(T)
      BY <1>1, <1>4, <1>6, ReadSettles
    <3> QED
      BY <1>2, <1>3, <3>1 DEF Onwards
  <2> QED
    BY <1>1, <1>3, <2>1, <2>3, <2>4, <2>5, MovesOn
<1>7. CASE ~(Wanted(x, home, away) = x.row /\ Slots(x, home, away) = {})
  <2> DEFINE pc == IF Wanted(x, home, away) # x.row THEN "write" ELSE "mirror"
  <2>1. resolver' = [resolver EXCEPT ![r] =
          [pc |-> pc, n |-> s.n, changed |-> s.changed, fresh |-> s.fresh, left |-> s.left,
           home |-> home, away |-> away]]
    BY <1>1, <1>7 DEF TieRead
  <2>2. pc \in {"write", "mirror"}
    OBVIOUS
  <2>3. \A side \in Sides : Vacant(T, side) => Participant(x, side) # None
    BY <1>5
  <2> HIDE DEF pc
  <2>4. resolver'[r] = [pc |-> pc, n |-> s.n, changed |-> s.changed, fresh |-> s.fresh, left |-> s.left,
                        home |-> home, away |-> away]
    <3> HIDE DEF home, away, s
    <3> QED
      BY <2>1 DEF BracketTypes
  <2>5. PICK p, h, w :
          /\ p \in {"write", "mirror"}
          /\ h = Participant(x, "home") /\ w = Participant(x, "away")
          /\ resolver'[r] = [pc |-> p, n |-> s.n, changed |-> s.changed, fresh |-> s.fresh, left |-> s.left,
                             home |-> h, away |-> w]
    BY <2>2, <2>4
  <2>6. \A side \in Sides : ~(Vacant(T, side) /\ resolver'[r][side] = None)
    BY <2>3, <2>5 DEF Sides
  <2> QED
    BY <1>1, <1>3, <2>5, <2>6, StaysOn
<1> QED
  BY <1>6, <1>7

LEMMA WriteTieFills ==
    ASSUME BracketTypes, Orderly, rewrites = 0, MaxPasses > 1, NEW r \in Actors, WriteTie(r), WillFill(r)
    PROVE  Full' \/ WillFill(r)'
<1> DEFINE s == resolver[r]
           x == First(s.left)
<1> PICK T : T = x.tie
  OBVIOUS
<1>1. s.pc = "write" /\ Busy(s)
  BY DEF WriteTie, Busy
<1>2. /\ T \in Ties /\ T = x.tie /\ x \in Held(r) /\ Held(r) = s.left
      /\ \A y, z \in s.left : y.tie = z.tie => y = z
  BY <1>1, AtHand, BusyState
<1>3. Onwards
  BY RunsGoOn DEF ResolverStep
<1>4. \A side \in Sides : s[side] = None => Spent(r, T, side)
  BY <1>1, <1>2 DEF Spent
<1>5. CASE Slots(x, s.home, s.away) = {}
  <2>1. Moves(r, TRUE)
    BY <1>5, AdvanceMoves DEF WriteTie
  <2>2. s.fresh => Settled(T)'
    BY <1>2, WriteSettles
  <2>3. \A side \in Sides : ties'[T][side] = None => Spent(r, T, side)
    BY <1>4, WriteSides
  <2> QED
    BY <1>1, <1>3, <2>1, <2>2, <2>3, MovesOn
<1>6. CASE Slots(x, s.home, s.away) # {}
  <2>1. resolver'[r] = [s EXCEPT !.pc = "mirror", !.changed = TRUE]
    BY <1>6 DEF WriteTie, BracketTypes
  <2>2. s = [pc |-> s.pc, n |-> s.n, changed |-> s.changed, fresh |-> s.fresh,
             left |-> s.left, home |-> s.home, away |-> s.away]
    <3>1. s # [pc |-> "tie", n |-> s.n, changed |-> s.changed, fresh |-> s.fresh, left |-> s.left]
      BY <1>1
    <3> QED
      BY <1>1, <3>1, BusyState
  <2>3. PICK yes : yes = TRUE
    OBVIOUS
  <2>4. resolver'[r] = [pc |-> "mirror", n |-> s.n, changed |-> yes, fresh |-> s.fresh,
                        left |-> s.left, home |-> s.home, away |-> s.away]
    BY <2>1, <2>2, <2>3, Mirroring
  <2>5. \A side \in Sides : resolver'[r][side] = s[side]
    BY <2>4 DEF Sides
  <2> QED
    BY <1>1, <1>3, <1>4, <2>3, <2>4, <2>5, StaysOn
<1> QED
  BY <1>5, <1>6

LEMMA MirrorFills ==
    ASSUME BracketTypes, Orderly, rewrites = 0, MaxPasses > 1, NEW r \in Actors, Mirror(r), WillFill(r)
    PROVE  Full' \/ WillFill(r)'
<1> DEFINE s == resolver[r]
           x == First(s.left)
<1> PICK T : T = x.tie
  OBVIOUS
<1>1. s.pc = "mirror" /\ Busy(s) /\ UNCHANGED ties
  BY DEF Mirror, Busy
<1>2. /\ T \in Ties /\ T = x.tie /\ x \in Held(r) /\ Held(r) = s.left
      /\ \A y, z \in s.left : y.tie = z.tie => y = z
  BY <1>1, AtHand, BusyState
<1>3. Onwards
  BY RunsGoOn DEF ResolverStep
<1>4. Moves(r, TRUE)
  BY AdvanceMoves DEF Mirror
<1>5. \A side \in Sides : ties'[T][side] = None => Spent(r, T, side)
  <2> SUFFICES ASSUME NEW side \in Sides, ties[T][side] = None PROVE Spent(r, T, side)
    BY <1>1
  <2>1. s[side] = None
    BY <1>1 DEF Orderly, PicksStand, Picked
  <2> QED
    BY <1>1, <1>2, <2>1 DEF Spent
<1>6. s.fresh => Settled(T)'
  <2> SUFFICES ASSUME s.fresh PROVE Settled(T)'
    OBVIOUS
  <2>1. Past(r, T)
    BY <1>1, <1>2 DEF Past
  <2>2. Settled(T)
    BY <1>1, <1>2, <2>1 DEF Orderly, AllSettled
  <2> QED
    BY <1>2, <1>3, <2>2 DEF Onwards
<1> QED
  BY <1>1, <1>3, <1>4, <1>5, <1>6, MovesOn

LEMMA ResolverFills ==
    ASSUME BracketTypes, Orderly, SlotsReach, MaxPasses > 1, NEW r \in Actors, ResolverStep(r)
    PROVE  SlotsReach'
<1> SUFFICES ASSUME rewrites' = 0 PROVE Full' \/ \E a \in Actors : WillFill(a)'
  BY DEF SlotsReach
<1>1. rewrites = 0
  BY DEF ResolverStep, PassStart, ReadFeeders, WriteTie, Mirror
<1>2. Onwards
  BY <1>1, RunsGoOn
<1>3. Runs(r)
  BY PassStartIs, ReadFeedersIs, WriteTieIs, MirrorIs, DropsRuns DEF ResolverStep
<1>4. CASE Full
  BY <1>1, <1>2, <1>4, FullKeeps
<1>5. CASE \E a \in Actors \ {r} : WillFill(a)
  BY <1>1, <1>2, <1>3, <1>5, OthersFill
<1>6. CASE WillFill(r)
  BY <1>1, <1>6, PassStartFills, ReadFeedersFills, WriteTieFills, MirrorFills DEF ResolverStep
<1>7. resolver[r] # Idle
  <2>1. resolver[r].pc # "idle"
    BY PassStartIs, ReadFeedersIs, WriteTieIs, MirrorIs DEF ResolverStep
  <2> QED
    BY <2>1 DEF Idle
<1> QED
  BY <1>1, <1>4, <1>5, <1>6, <1>7 DEF SlotsReach

-----------------------------------------------------------------------------
(* At rest the bracket is complete. *)

ReachInv ==
    /\ overtaken => rewrites > 0
    /\ ~overtaken => LegsReach
    /\ SlotsReach

\* Every group has matches: one that has none is over before any result is written, and
\* no resolveSeason follows that.
PlayedGroups == \A g \in Groups : GroupMatches[g] # {}

LEMMA ReachInit ==
    ASSUME BracketInit, PlayedGroups
    PROVE  ReachInv
<1>1. \A m \in Matches : /\ matches[m].home = Fixture[m].home /\ matches[m].away = Fixture[m].away
                         /\ matches[m].result = None
  BY DEF BracketInit
<1>2. \A t \in Ties : /\ ties[t].home = Seeded[t].home /\ ties[t].away = Seeded[t].away
                      /\ ties[t].winner = None
  BY DEF BracketInit
<1>3. ~overtaken /\ rewrites = 0 /\ ~dirty
  BY DEF BracketInit
<1>4. LegsReach
  <2> SUFFICES ASSUME NEW t \in Ties, NEW k \in DOMAIN Legs[t], NEW side \in Sides, Lacks(t, k, side) PROVE FALSE
    BY DEF LegsReach
  <2>1. Legs[t][k] \in Matches
    BY LegsAreMatches
  <2>2. Fixture[Legs[t][k]] = IF k = 2 THEN [home |-> Seeded[t].away, away |-> Seeded[t].home]
                              ELSE Seeded[t]
    BY BracketAssumption DEF BracketAssumption
  <2> QED
    BY <1>1, <1>2, <2>1, <2>2 DEF Lacks, Across, Sides
<1>5. Told
  BY <1>3, BracketInitInv DEF BracketInv, Orderly, AllSettled, Told
<1>6. \A g \in Groups : ~GroupDone(g)
  <2> SUFFICES ASSUME NEW g \in Groups PROVE ~GroupDone(g)
    OBVIOUS
  <2>1. PICK m \in GroupMatches[g] : TRUE
    BY DEF PlayedGroups
  <2>2. m \in Matches
    BY BracketAssumption DEF BracketAssumption
  <2> QED
    BY <1>1, <2>2 DEF GroupDone
<1>7. ASSUME NEW s \in Slot \cup {None} PROVE Feeder(s) = None
  <2>1. CASE s = None
    BY <2>1 DEF Feeder
  <2>2. CASE s # None /\ s.type = "MATCH_WINNER"
    BY <1>2, <2>2 DEF Feeder, Slot
  <2>3. CASE s # None /\ s.type = "MATCH_LOSER"
    <3>1. Loser(s.tie) = None
      BY <1>2, <2>3 DEF Loser, Slot
    <3> QED
      BY <2>3, <3>1 DEF Feeder
  <2>4. CASE s # None /\ s.type = "GROUP_POSITION"
    <3>1. ~GroupDone(s.group)
      BY <1>6, <2>4 DEF Slot
    <3> QED
      BY <2>4, <3>1 DEF Feeder
  <2>5. CASE s # None /\ s.type = "BEST_RANKED"
    <3>1. s.winnerGroup \in Groups
      BY <2>5 DEF Slot
    <3>2. ~\A g \in Groups : GroupDone(g)
      BY <1>6, <3>1
    <3> QED
      BY <2>5, <3>2 DEF Feeder
  <2> QED
    BY <2>1, <2>2, <2>3, <2>4, <2>5 DEF Slot
<1>8. \A t \in Ties, side \in Sides : ~Vacant(t, side)
  <2> SUFFICES ASSUME NEW t \in Ties, NEW side \in Sides, Vacant(t, side) PROVE FALSE
    OBVIOUS
  <2>1. Seeded[t][side] = None
    BY <1>2 DEF Vacant, Sides
  <2>2. Source[t][side] \in Slot \cup {None}
    BY BracketAssumption DEF BracketAssumption, Sides
  <2> QED
    BY <1>7, <2>1, <2>2 DEF Vacant, Given
<1> QED
  BY <1>3, <1>4, <1>5, <1>8 DEF ReachInv, SlotsReach, Full

\* A result that is written is seen by the resolveSeason that follows.
LEMMA ResultReaches ==
    ASSUME BracketTypes, ReachInv, NEW m \in Matches,
           (\E a \in Actors : Finish(a, m)) \/ Correct(m) \/ RobotCorrects(m)
    PROVE  ReachInv'
<1> PICK a \in Actors, res \in ResultsOf[m], next \in {Idle, [pc |-> "due", n |-> 0]} :
      /\ matches[m].home # None /\ matches[m].away # None
      /\ resolver[a] = Idle /\ ResultWritten(a, m, res, next)
  BY ResultSteps
<1>1. /\ rewrites' = rewrites + (IF matches[m].result = None THEN 0 ELSE 1) /\ rewrites' \in Nat
      /\ dirty' /\ resolver'[a] = next
      /\ \A b \in Actors \ {a} : Busy(resolver'[b]) => ~resolver'[b].fresh
  BY ResultWrittenIs
<1>2. overtaken' => rewrites' > 0
  <2>1. overtaken' => overtaken \/ rewrites' > 0
    BY DEF ResultWritten
  <2> QED
    BY <1>1, <2>1 DEF BracketTypes, ReachInv
<1>3. LegsReach'
  <2>1. \A b \in Actors : ~(Busy(resolver'[b]) /\ resolver'[b].fresh)
    BY <1>1 DEF Busy, Idle
  <2> QED
    BY <1>1, <2>1 DEF LegsReach, Reached
<1>4. SlotsReach'
  <2> SUFFICES ASSUME rewrites' = 0 PROVE \E b \in Actors : WillFill(b)'
    BY DEF SlotsReach
  <2>1. matches[m].result = None
    BY <1>1 DEF BracketTypes
  <2>2. PICK b \in Actors : Finish(b, m)
    BY <2>1 DEF Correct, RobotCorrects
  <2>3. PICK out \in ResultsOf[m] : ResultWritten(b, m, out, [pc |-> "due", n |-> 0])
    BY <2>2 DEF Finish
  <2>4. resolver'[b] = [pc |-> "due", n |-> 0]
    BY <2>3 DEF ResultWritten
  <2>5. WillFill(b)'
    BY <2>4 DEF WillFill
  <2> QED
    BY <2>5
<1> QED
  BY <1>2, <1>3, <1>4 DEF ReachInv

LEMMA CrashReaches ==
    ASSUME BracketTypes, ReachInv, Crash
    PROVE  ReachInv'
<1>1. /\ UNCHANGED <<matches, ties, rewrites, overtaken>>
      /\ dirty' = (dirty \/ \E a \in Actors : resolver[a] # Idle)
      /\ \A a \in Actors : resolver'[a] = Idle /\ ~Busy(resolver'[a])
  BY DEF Crash, Busy, Idle
<1>2. ASSUME LegsReach PROVE LegsReach'
  <2> SUFFICES ASSUME NEW t \in Ties, NEW k \in DOMAIN Legs[t], NEW side \in Sides, Lacks(t, k, side)'
               PROVE  dirty'
    BY <1>1 DEF LegsReach, Reached
  <2>1. Reached(t, k, side)
    BY <1>1, <1>2 DEF LegsReach, Lacks
  <2>2. \A a \in Actors : Fills(a, t, k, side) => resolver[a] # Idle
    BY DEF Fills, Idle
  <2> QED
    BY <1>1, <2>1, <2>2 DEF Reached
<1>3. SlotsReach'
  <2> SUFFICES ASSUME rewrites = 0, ~dirty' PROVE Full'
    BY <1>1 DEF SlotsReach
  <2>1. ~dirty /\ \A a \in Actors : resolver[a] = Idle
    BY <1>1
  <2>2. \A a \in Actors : ~WillFill(a)
    BY <2>1 DEF WillFill, Busy, Idle
  <2>3. Full
    BY <2>1, <2>2 DEF ReachInv, SlotsReach
  <2> QED
    BY <1>1, <2>3, NothingNew
<1> QED
  BY <1>1, <1>2, <1>3 DEF ReachInv

LEMMA StutterReaches ==
    ASSUME ReachInv, UNCHANGED bracketVars
    PROVE  ReachInv'
<1>1. UNCHANGED <<matches, ties, resolver, dirty, rewrites, overtaken>>
  BY DEF bracketVars
<1>2. LegsReach => LegsReach'
  BY <1>1 DEF LegsReach, Lacks, Reached, Fills, Comes, Held, Misses
<1>3. Full => Full'
  BY <1>1, NothingNew
<1>4. \A a \in Actors : WillFill(a) => WillFill(a)'
  BY <1>1, NothingNew DEF WillFill, Spent, Held, Owed
<1> QED
  BY <1>1, <1>2, <1>3, <1>4 DEF ReachInv, SlotsReach

LEMMA ReachStep ==
    ASSUME BracketInv, ReachInv, MaxPasses > 1, [BracketNext]_bracketVars
    PROVE  ReachInv'
<1>1. BracketTypes
  BY DEF BracketInv
<1>2. CASE \E r \in Actors : ResolverStep(r)
  <2> PICK r \in Actors : ResolverStep(r)
    BY <1>2
  <2>1. overtaken' = overtaken /\ rewrites' = rewrites
    BY DEF ResolverStep, PassStart, ReadFeeders, WriteTie, Mirror
  <2>2. CASE ~overtaken
    <3>1. Orderly /\ LegsReach /\ SlotsReach
      BY <2>2 DEF BracketInv, ReachInv
    <3>2. LegsReach'
      BY <1>1, <3>1, PassStartReaches, ReadFeedersReaches, WriteTieReaches, MirrorReaches DEF ResolverStep
    <3>3. SlotsReach'
      BY <1>1, <3>1, ResolverFills
    <3> QED
      BY <2>1, <2>2, <3>2, <3>3 DEF ReachInv
  <2>3. CASE overtaken
    <3>1. rewrites # 0
      BY <2>3 DEF ReachInv
    <3> QED
      BY <2>1, <2>3, <3>1 DEF ReachInv, SlotsReach
  <2> QED
    BY <2>2, <2>3
<1>3. CASE \E m \in Matches : (\E a \in Actors : Finish(a, m)) \/ Correct(m) \/ RobotCorrects(m)
  BY <1>1, <1>3, ResultReaches
<1>4. CASE Crash
  BY <1>1, <1>4, CrashReaches
<1>5. CASE UNCHANGED bracketVars
  BY <1>5, StutterReaches
<1> QED
  BY <1>2, <1>3, <1>4, <1>5 DEF BracketNext

LEMMA ReachIsComplete ==
    ASSUME BracketInv, ReachInv
    PROVE  SlotsFollow
<1> SUFFICES ASSUME AtRest PROVE (rewrites = 0 => SlotsMatchFeeders) /\ (~overtaken => LegsMatchTie)
  BY DEF SlotsFollow
<1>1. ~dirty /\ \A a \in Actors : resolver[a] = Idle
  BY DEF AtRest
<1>2. ASSUME rewrites = 0 PROVE SlotsMatchFeeders
  <2>1. \A a \in Actors : ~WillFill(a)
    BY <1>1 DEF WillFill, Busy, Idle
  <2>2. Full
    BY <1>1, <1>2, <2>1 DEF ReachInv, SlotsReach
  <2>3. \A t \in Ties, side \in Sides : ties[t][side] # None => ties[t][side] = Given(t, side)
    BY <1>2 DEF ReachInv, BracketInv, Orderly, Steady
  <2>4. \A t \in Ties, side \in Sides : Seeded[t][side] = None => ties[t][side] = Feeder(Source[t][side])
    BY <2>2, <2>3 DEF Full, Vacant, Given
  <2> QED
    BY <2>4 DEF SlotsMatchFeeders, Sides
<1>3. ASSUME ~overtaken PROVE LegsMatchTie
  <2>1. ASSUME NEW t \in Ties, NEW k \in DOMAIN Legs[t], NEW side \in Sides
        PROVE  matches[Legs[t][k]][side] = ties[t][Across(k, side)]
    <3>1. ~Reached(t, k, side)
      BY <1>1 DEF Reached, Fills, Idle
    <3>2. ~Lacks(t, k, side)
      BY <1>3, <3>1 DEF ReachInv, LegsReach
    <3>3. Paired(k, side, matches[Legs[t][k]], ties[t])
      BY <1>3 DEF BracketInv, Orderly, LegsPaired
    <3>4. Mirrored(k, ties[t].home, ties[t].away)[side] = ties[t][Across(k, side)]
      BY AcrossIs
    <3> QED
      BY <3>2, <3>3, <3>4 DEF Lacks, Paired
  <2> QED
    BY <2>1 DEF LegsMatchTie, Across, Sides
<1> QED
  BY <1>2, <1>3

\* At rest the bracket is complete, for any ties, feeders, legs and results, however the
\* resolveSeason of the robot and of the admin overlap, process deaths included.  Two passes
\* are enough (maxPasses is 8), whatever the order of the ties: the outcomes that feed other
\* ties are written in the first one, as nothing that it fills has been played.
THEOREM SlotsAlwaysFollow ==
    ASSUME MaxPasses > 1, PlayedGroups
    PROVE  BracketSpec => []SlotsFollow
<1>1. BracketInit => ReachInv
  BY ReachInit
<1>2. BracketInv /\ ReachInv /\ [BracketNext]_bracketVars => ReachInv'
  BY ReachStep
<1>3. BracketInv /\ ReachInv => SlotsFollow
  BY ReachIsComplete
<1> QED
  BY <1>1, <1>2, <1>3, BracketInvariant, PTL DEF BracketSpec

-----------------------------------------------------------------------------
(* The projection of the pages.  It is built tie after tie, so it exists. *)

\* One more tie than in the earlier projection.
Extended(earlier, t) ==
    LET side(s) == IF ties[t][s] # None THEN ties[t][s] ELSE ProjectedSource(earlier, Source[t][s])
    IN [u \in DOMAIN earlier \cup {t} |->
          IF u = t THEN [home |-> side("home"), away |-> side("away"), winner |-> WinnerOrLeader(t)]
          ELSE earlier[u]]

Projects(f, n) == IF n = 0 THEN [t \in {} |-> None] ELSE Extended(f[n - 1], TieOrder[n])
Projections(f) == [n \in 0 .. Len(TieOrder) |-> Projects(f, n)]

LEMMA ProjectionIsChosen == Projection = CHOOSE f : f = Projections(f)
BY DEF Projection, Projections, Projects, Extended

LEMMA ProjectionsExist == \E f : f = Projections(f)
<1> DEFINE Upto(n) == \E f : /\ f = [i \in 0 .. Len(TieOrder) |-> f[i]]
                             /\ \A i \in 0 .. Len(TieOrder) : i <= n => f[i] = Projects(f, i)
           Not == {n \in Nat : ~Upto(n)}
<1>0. Len(TieOrder) \in Nat
  BY BracketAssumption DEF BracketAssumption
<1>1. Upto(0)
  <2> DEFINE f == [i \in 0 .. Len(TieOrder) |-> [t \in {} |-> None]]
  <2>1. f = [i \in 0 .. Len(TieOrder) |-> f[i]]
    OBVIOUS
  <2>2. ASSUME NEW i \in 0 .. Len(TieOrder), i <= 0 PROVE f[i] = Projects(f, i)
    <3>1. i = 0
      BY <1>0, <2>2
    <3> QED
      BY <3>1 DEF Projects
  <2> HIDE DEF f
  <2> QED
    BY <2>1, <2>2
<1>2. ASSUME NEW n \in Nat, Upto(n) PROVE Upto(n + 1)
  <2> PICK f : \A i \in 0 .. Len(TieOrder) : i <= n => f[i] = Projects(f, i)
    BY <1>2
  <2> DEFINE g == [i \in 0 .. Len(TieOrder) |-> Projects(f, i)]
  <2>1. g = [i \in 0 .. Len(TieOrder) |-> g[i]]
    OBVIOUS
  <2>2. ASSUME NEW i \in 0 .. Len(TieOrder), i <= n + 1 PROVE g[i] = Projects(g, i)
    <3>1. g[i] = Projects(f, i)
      OBVIOUS
    <3>2. CASE i = 0
      BY <3>1, <3>2 DEF Projects
    <3>3. CASE i # 0
      <4>1. i - 1 \in 0 .. Len(TieOrder) /\ i - 1 <= n
        BY <1>0, <2>2, <3>3
      <4>2. f[i - 1] = Projects(f, i - 1) /\ g[i - 1] = Projects(f, i - 1)
        BY <4>1
      <4> HIDE DEF g
      <4> QED
        BY <3>1, <3>3, <4>2 DEF Projects
    <3> QED
      BY <3>2, <3>3
  <2> HIDE DEF g
  <2> QED
    BY <2>1, <2>2
<1> HIDE DEF Upto
<1>3. Not = {}
  <2> SUFFICES ASSUME Not # {} PROVE FALSE
    OBVIOUS
  <2>1. PICK n \in Not : \A m \in Not : n <= m
    BY LeastNat
  <2>2. n # 0 /\ n \in Nat /\ ~Upto(n)
    BY <1>1, <2>1
  <2>3. n - 1 \in Nat /\ n - 1 \notin Not
    BY <2>1, <2>2
  <2>4. Upto(n - 1)
    BY <2>3
  <2>5. Upto((n - 1) + 1)
    BY <1>2, <2>3, <2>4
  <2> QED
    BY <2>2, <2>5
<1>4. PICK f : /\ f = [i \in 0 .. Len(TieOrder) |-> f[i]]
               /\ \A i \in 0 .. Len(TieOrder) : i <= Len(TieOrder) => f[i] = Projects(f, i)
  BY <1>0, <1>3 DEF Upto
<1>5. \A i \in 0 .. Len(TieOrder) : f[i] = Projects(f, i)
  BY <1>0, <1>4
<1> QED
  BY <1>4, <1>5, Zenon DEF Projections

LEMMA ProjectionIs ==
    \A n \in 0 .. Len(TieOrder) :
       Projection[n] = IF n = 0 THEN [t \in {} |-> None]
                       ELSE Extended(Projection[n - 1], TieOrder[n])
<1>1. Projection = Projections(Projection)
  BY ProjectionIsChosen, ProjectionsExist, Zenon
<1>2. \A n \in 0 .. Len(TieOrder) : Projections(Projection)[n] = Projects(Projection, n)
  BY DEF Projections
<1> QED
  BY <1>1, <1>2, Zenon DEF Projects

\* What is shown of the i-th tie when its turn comes; later ties leave it as it is.
Shown(i) ==
    LET t == TieOrder[i]
        side(s) == IF ties[t][s] # None THEN ties[t][s]
                   ELSE ProjectedSource(Projection[i - 1], Source[t][s])
    IN  [home |-> side("home"), away |-> side("away"), winner |-> WinnerOrLeader(t)]

LEMMA ShownStays ==
    ASSUME NEW n \in 0 .. Len(TieOrder), NEW i \in 1 .. n
    PROVE  TieOrder[i] \in DOMAIN Projection[n] /\ Projection[n][TieOrder[i]] = Shown(i)
<1> DEFINE Shows(m, j) == TieOrder[j] \in DOMAIN Projection[m] /\ Projection[m][TieOrder[j]] = Shown(j)
           Not == {m \in 0 .. Len(TieOrder) : \E j \in 1 .. m : ~Shows(m, j)}
<1>0. Len(TieOrder) \in Nat /\ DOMAIN TieOrder = 1 .. Len(TieOrder)
  BY BracketAssumption DEF BracketAssumption
<1>1. ASSUME NEW m \in 1 .. Len(TieOrder), m - 1 \notin Not, NEW j \in 1 .. m PROVE Shows(m, j)
  <2>1. m \in 0 .. Len(TieOrder) /\ m # 0 /\ m - 1 \in 0 .. Len(TieOrder)
    BY <1>0
  <2>2. Projection[m] = Extended(Projection[m - 1], TieOrder[m])
    BY <2>1, ProjectionIs
  <2>3. CASE j = m
    BY <2>2, <2>3 DEF Extended, Shown
  <2>4. CASE j # m
    <3>1. j \in 1 .. m - 1
      BY <1>0, <2>4
    <3>2. Shows(m - 1, j)
      BY <1>1, <2>1, <3>1
    <3>3. TieOrder[j] # TieOrder[m]
      BY <1>0, <2>4, BracketAssumption DEF BracketAssumption
    <3> QED
      BY <2>2, <3>2, <3>3 DEF Extended
  <2> QED
    BY <2>3, <2>4
<1> HIDE DEF Shows
<1>2. Not = {}
  <2> SUFFICES ASSUME Not # {} PROVE FALSE
    OBVIOUS
  <2>1. Not \subseteq Nat
    BY <1>0
  <2>2. PICK m \in Not : \A k \in Not : m <= k
    BY <2>1, LeastNat
  <2>3. PICK j \in 1 .. m : ~Shows(m, j)
    BY <2>2
  <2>4. m \in 1 .. Len(TieOrder) /\ m - 1 \notin Not
    BY <1>0, <2>2, <2>3
  <2> QED
    BY <1>1, <2>3, <2>4
<1>3. Shows(n, i)
  BY <1>2
<1> QED
  BY <1>3 DEF Shows

\* What a feeder gives is projected already, from the ties that come before.
LEMMA SourceMeetsFeeder ==
    ASSUME PlayedGroups, NEW i \in 1 .. Len(TieOrder), NEW s \in Slot, Feeder(s) # None,
           "tie" \in DOMAIN s => \E j \in 1 .. i - 1 : TieOrder[j] = s.tie
    PROVE  ProjectedSource(Projection[i - 1], s) = Feeder(s)
<1>0. Len(TieOrder) \in Nat
  BY BracketAssumption DEF BracketAssumption
<1>1. s # None
  BY DEF Feeder
<1>2. ASSUME NEW g \in Groups, GroupDone(g) PROVE HasData(g)
  <2>1. PICK m \in GroupMatches[g] : TRUE
    BY DEF PlayedGroups
  <2>2. matches[m].result # None
    BY <1>2 DEF GroupDone
  <2> QED
    BY <2>2 DEF HasData, Played
<1>3. CASE s.type = "GROUP_POSITION"
  <2>1. s.group \in Groups /\ GroupDone(s.group)
    BY <1>1, <1>3 DEF Slot, Feeder
  <2> QED
    BY <1>1, <1>2, <1>3, <2>1 DEF Feeder, ProjectedSource
<1>4. CASE s.type = "BEST_RANKED"
  <2>1. s.winnerGroup \in Groups /\ \A g \in Groups : GroupDone(g)
    BY <1>1, <1>4 DEF Slot, Feeder
  <2>2. \E g \in Groups : HasData(g)
    BY <1>2, <2>1
  <2> QED
    BY <1>1, <1>4, <2>1, <2>2 DEF Feeder, ProjectedSource
<1>5. ASSUME s.type \in {"MATCH_WINNER", "MATCH_LOSER"}
      PROVE  s.tie \in DOMAIN Projection[i - 1] /\ \E j \in 1 .. i - 1 :
               TieOrder[j] = s.tie /\ Projection[i - 1][s.tie] = Shown(j)
  <2>1. "tie" \in DOMAIN s
    BY <1>5 DEF Slot
  <2>2. PICK j \in 1 .. i - 1 : TieOrder[j] = s.tie
    BY <2>1
  <2>3. i - 1 \in 0 .. Len(TieOrder)
    BY <1>0
  <2> QED
    BY <2>2, <2>3, ShownStays
<1>6. CASE s.type = "MATCH_WINNER"
  <2>1. PICK j \in 1 .. i - 1 : TieOrder[j] = s.tie /\ Projection[i - 1][s.tie] = Shown(j)
    BY <1>5, <1>6
  <2>2. Feeder(s) = ties[s.tie].winner
    BY <1>1, <1>6 DEF Feeder
  <2>3. Shown(j).winner = ties[s.tie].winner
    BY <2>1, <2>2 DEF Shown, WinnerOrLeader
  <2> QED
    BY <1>1, <1>5, <1>6, <2>1, <2>2, <2>3 DEF ProjectedSource
<1>7. CASE s.type = "MATCH_LOSER"
  <2>1. PICK j \in 1 .. i - 1 : TieOrder[j] = s.tie /\ Projection[i - 1][s.tie] = Shown(j)
    BY <1>5, <1>7
  <2>2. Feeder(s) = Loser(s.tie)
    BY <1>1, <1>7 DEF Feeder
  <2>3. None \notin {ties[s.tie].winner, ties[s.tie].home, ties[s.tie].away}
    BY <2>2 DEF Loser
  <2>4. /\ Shown(j).home = ties[s.tie].home /\ Shown(j).away = ties[s.tie].away
        /\ Shown(j).winner = ties[s.tie].winner
    BY <2>1, <2>3 DEF Shown, WinnerOrLeader
  <2> QED
    BY <1>1, <1>5, <1>7, <2>1, <2>2, <2>3, <2>4 DEF ProjectedSource, Loser
<1> QED
  BY <1>3, <1>4, <1>6, <1>7 DEF Slot

LEMMA DrawIsMet ==
    ASSUME PlayedGroups
    PROVE  ProjectionMeetsDraw
<1> SUFFICES ASSUME NEW i \in DOMAIN TieOrder, NEW side \in Sides, NEW s,
                    s = Source[TieOrder[i]][side], ties[TieOrder[i]][side] = None,
                    s # None, Feeder(s) # None,
                    "tie" \in DOMAIN s => \E j \in 1 .. i - 1 : TieOrder[j] = s.tie
             PROVE  Projection[Len(TieOrder)][TieOrder[i]][side] = Feeder(s)
  BY DEF ProjectionMeetsDraw, Sides
<1>1. i \in 1 .. Len(TieOrder) /\ Len(TieOrder) \in 0 .. Len(TieOrder)
  BY BracketAssumption DEF BracketAssumption
<1>2. TieOrder[i] \in Ties
  BY DEF Ties
<1>3. s \in Slot
  BY <1>2, BracketAssumption DEF BracketAssumption, Sides
<1>4. ProjectedSource(Projection[i - 1], s) = Feeder(s)
  BY <1>1, <1>3, SourceMeetsFeeder
<1>5. Projection[Len(TieOrder)][TieOrder[i]] = Shown(i)
  BY <1>1, ShownStays
<1> QED
  BY <1>4, <1>5 DEF Shown, Sides

\* The pages' bracket never contradicts the draw, for any ties in any order, feeders,
\* legs and results: the pages read the database with code of their own and in one pass
\* (projectBracket), resolveSeason in several, and they agree in every state, the ones
\* between two of its writes included.
THEOREM ProjectionAlwaysMeetsDraw ==
    ASSUME PlayedGroups
    PROVE  BracketSpec => []ProjectionMeetsDraw
<1>1. ProjectionMeetsDraw
  BY DrawIsMet
<1> QED
  BY <1>1, PTL

=============================================================================
