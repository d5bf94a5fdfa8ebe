---------------------------- MODULE MatchProofs -----------------------------
(***************************************************************************)
(* A match and its bets: the types, what a pass of the robot may do to the *)
(* row whoever else writes it, what holds while the robot is its only      *)
(* writer, and, since a match with bets is a match, the fairness of the    *)
(* bets.                                                                   *)
(***************************************************************************)
EXTENDS Predictions, TLAPS
-----------------------------------------------------------------------------
(* The operators of the merge. *)

LEMMA ReportedType ==
    ASSUME NEW sb \in Scoreboards, NEW live \in Summaries, NEW s \in Sides,
           sb \cup live # {}
    PROVE  Reported(sb, live, s) \in Goals \cup {None}
<1> DEFINE answer == IF live # {} THEN live ELSE sb
           e == CHOOSE x \in answer : TRUE
<1>1. answer # {} /\ answer \subseteq FeedEvent
  BY DEF Scoreboards, Summaries, Answers
<1>2. e \in FeedEvent
  BY <1>1
<1>3. e.goals \in [Sides -> Goals \cup {None}]
  BY <1>2 DEF FeedEvent
<1> QED
  BY <1>3 DEF Reported

LEMMA AppliedIsKnown ==
    ASSUME NEW drops, NEW reported \in Goals \cup {None}, NEW cur, NEW isFinal,
           NEW t, Applies(drops, reported, cur, isFinal, t)
    PROVE  reported \in Goals
BY DEF Applies

LEMMA PendingAfterType ==
    ASSUME NEW drops \in SUBSET PendingDrop, NEW reported \in Goals \cup {None},
           NEW cur, NEW isFinal, NEW t \in Nat
    PROVE  PendingAfter(drops, reported, cur, isFinal, t) \in SUBSET PendingDrop
<1>1. CASE reported = None
  BY <1>1 DEF PendingAfter
<1>2. CASE reported \in Goals
  <2>1. [value |-> reported, since |-> t] \in PendingDrop
    BY <1>2 DEF PendingDrop
  <2> QED
    BY <2>1 DEF PendingAfter
<1> QED
  BY <1>1, <1>2

LEMMA MostAdvancedType ==
    ASSUME NEW states
    PROVE  MostAdvanced(states) \in Ranked \cap MatchStatus
BY DEF MostAdvanced, Ranked, Rank, MatchStatus

\* The three ranks, as numbers.
LEMMA Ranks ==
    /\ Ranked = {"SCHEDULED", "LIVE", "FINISHED"}
    /\ Ranked \subseteq MatchStatus
    /\ Rank["SCHEDULED"] = 0 /\ Rank["LIVE"] = 1 /\ Rank["FINISHED"] = 2
    /\ \A s \in Ranked : Rank[s] \in 0..2
BY DEF Ranked, Rank, MatchStatus

LEMMA ReadingRobot ==
    ASSUME robot \in RobotState, robot.pc = "read"
    PROVE  robot.sb \in Scoreboards /\ robot.snap \in Row
BY DEF RobotState

LEMMA FetchedRobot ==
    ASSUME robot \in RobotState, robot.pc = "fetched"
    PROVE  robot.sb \in Scoreboards
BY DEF RobotState

LEMMA TimeIsNat == Time \subseteq Nat
BY MatchControlAssumption DEF Time

-----------------------------------------------------------------------------
(* One pass of the merge, whoever else writes the row meanwhile. *)

\* What the merge leaves alone, what it writes keeps its type, the status it
\* writes outranks the one it read, and it writes nothing on a match it read as
\* the admin's.
LEMMA MergeShape ==
    ASSUME MatchTypeOK, RobotMerge
    PROVE  /\ row' \in Row
           /\ pending' \in [Sides -> SUBSET PendingDrop]
           /\ observed' \in [Sides -> [value : Goals \cup {None}, since : Time]]
           /\ overruled' \in 0..2
           /\ robot' \in {Idle, [pc |-> "resolve"]}
           /\ <<row.kickoff, row.open, row.auto, row.teams>>
                = <<row'.kickoff, row'.open, row'.auto, row'.teams>>
           /\ \/ row'.status = row.status
              \/ /\ row'.status \in Ranked
                 /\ robot.snap.status \in Ranked
                 /\ Rank[row'.status] > Rank[robot.snap.status]
           /\ ~robot.snap.auto => row' = row
<1> DEFINE sb == robot.sb
           snap == robot.snap
           Step(live, saved) ==
             LET states == FeedStates(sb, live)
                 goals == [s \in Sides |-> Reported(sb, live, s)]
                 pens == NewPens(snap, sb)
             IN  /\ row' = IF saved THEN Merged(snap, states, goals, pens) ELSE row
                 /\ pending' = IF ~Merges(snap, states) THEN pending
                      ELSE [s \in Sides |-> PendingAfter(pending[s], goals[s],
                              snap.score[s], "post" \in states, now)]
                 /\ observed' = IF ~Merges(snap, states) THEN observed
                      ELSE [s \in Sides |->
                             IF goals[s] = observed[s].value THEN observed[s]
                             ELSE [value |-> goals[s], since |-> now]]
<1>1. /\ sb \in Scoreboards
      /\ snap \in Row
      /\ row \in Row
      /\ now \in Time /\ now \in Nat
      /\ pending \in [Sides -> SUBSET PendingDrop]
      /\ observed \in [Sides -> [value : Goals \cup {None}, since : Time]]
      /\ overruled \in 0..2
  BY ReadingRobot, TimeIsNat DEF MatchTypeOK, RobotMerge
<1>2. PICK live \in Summaries, saved \in BOOLEAN : Step(live, saved)
  BY DEF RobotMerge
<1> DEFINE states == FeedStates(sb, live)
           goals == [s \in Sides |-> Reported(sb, live, s)]
           pens == NewPens(snap, sb)
           applied == GoalsApplied(snap, states, goals)
           score == [s \in Sides |-> IF s \in applied THEN goals[s]
                                     ELSE row.score[s]]
<1>3. Merges(snap, states) => \A s \in Sides : goals[s] \in Goals \cup {None}
  <2>1. Merges(snap, states) => sb \cup live # {}
    BY DEF Merges, FeedStates
  <2> QED
    BY <1>1, <2>1, ReportedType
<1>4. row.score \in [Sides -> Goals] /\ score \in [Sides -> Goals]
  <2>1. row.score \in [Sides -> Goals]
    BY <1>1 DEF Row
  <2>2. \A s \in applied : goals[s] \in Goals
    <3> SUFFICES ASSUME NEW s \in applied PROVE goals[s] \in Goals
      OBVIOUS
    <3>1. /\ s \in Sides /\ Merges(snap, states)
          /\ Applies(pending[s], goals[s], snap.score[s], "post" \in states, now)
      BY DEF GoalsApplied
    <3> HIDE DEF goals
    <3> QED
      BY <3>1, <1>3, AppliedIsKnown
  <2> HIDE DEF goals, applied
  <2> QED
    BY <2>1, <2>2
<1>5. pens # {} => (CHOOSE n \in pens : TRUE) \in 0..MaxPens
  <2>1. sb \subseteq FeedEvent
    BY <1>1 DEF Scoreboards, Answers
  <2>2. pens \subseteq 0..MaxPens
    BY <2>1 DEF FeedEvent, NewPens
  <2> QED
    BY <2>2
<1>6. MostAdvanced(states) \in Ranked \cap MatchStatus
  BY MostAdvancedType
<1>7. Merged(snap, states, goals, pens) =
        [row EXCEPT
           !.status = IF StatusRaised(snap, states) THEN MostAdvanced(states) ELSE @,
           !.finishedAt = IF StatusRaised(snap, states) /\ "post" \in states
                          THEN now ELSE @,
           !.score = score,
           !.pens = IF pens # {} THEN CHOOSE n \in pens : TRUE ELSE @]
  BY DEF Merged
<1>8. row' = Merged(snap, states, goals, pens) \/ row' = row
  BY <1>2
<1> HIDE DEF score, pens, states, goals, applied
<1>9. Merged(snap, states, goals, pens) \in Row
  BY <1>1, <1>4, <1>5, <1>6, <1>7 DEF Row
<1>10. row' \in Row
  BY <1>1, <1>8, <1>9
<1>11. pending' \in [Sides -> SUBSET PendingDrop]
  <2>1. CASE ~Merges(snap, states)
    BY <1>1, <1>2, <2>1 DEF states
  <2>2. CASE Merges(snap, states)
    <3>1. pending' = [s \in Sides |-> PendingAfter(pending[s], goals[s],
                              snap.score[s], "post" \in states, now)]
      BY <1>2, <2>2 DEF states, goals
    <3>2. \A s \in Sides : PendingAfter(pending[s], goals[s], snap.score[s],
                             "post" \in states, now) \in SUBSET PendingDrop
      BY <1>1, <1>3, <2>2, PendingAfterType
    <3> QED
      BY <3>1, <3>2
  <2> QED
    BY <2>1, <2>2
<1>12. observed' \in [Sides -> [value : Goals \cup {None}, since : Time]]
  <2>1. CASE ~Merges(snap, states)
    BY <1>1, <1>2, <2>1 DEF states
  <2>2. CASE Merges(snap, states)
    <3>1. observed' = [s \in Sides |->
                             IF goals[s] = observed[s].value THEN observed[s]
                             ELSE [value |-> goals[s], since |-> now]]
      BY <1>2, <2>2 DEF states, goals
    <3> QED
      BY <3>1, <1>1, <1>3, <2>2
  <2> QED
    BY <2>1, <2>2
<1>13. overruled' \in 0..2 /\ robot' \in {Idle, [pc |-> "resolve"]}
  BY <1>1 DEF RobotMerge
<1>14. <<row.kickoff, row.open, row.auto, row.teams>>
         = <<row'.kickoff, row'.open, row'.auto, row'.teams>>
  BY <1>1, <1>7, <1>8 DEF Row
<1>15. \/ row'.status = row.status
       \/ /\ row'.status \in Ranked
          /\ snap.status \in Ranked
          /\ Rank[row'.status] > Rank[snap.status]
  <2>1. \/ row'.status = row.status
        \/ StatusRaised(snap, states) /\ row'.status = MostAdvanced(states)
    BY <1>1, <1>7, <1>8 DEF Row
  <2> QED
    BY <2>1, <1>6 DEF StatusRaised, Raises
<1>16. ASSUME ~snap.auto PROVE row' = row
  <2>1. ~Merges(snap, states) /\ ~StatusRaised(snap, states) /\ pens = {}
    BY <1>16 DEF Merges, StatusRaised, pens, NewPens
  <2>2. score = row.score
    BY <2>1, <1>4 DEF score, applied, GoalsApplied
  <2>3. Merged(snap, states, goals, pens) =
          [row EXCEPT !.status = row.status, !.finishedAt = row.finishedAt,
                      !.score = row.score, !.pens = row.pens]
    BY <1>7, <2>1, <2>2
  <2>4. Merged(snap, states, goals, pens) = row
    BY <1>1, <2>3 DEF Row
  <2> QED
    BY <1>8, <2>4
<1> QED
  BY <1>10, <1>11, <1>12, <1>13, <1>14, <1>15, <1>16

-----------------------------------------------------------------------------
(* Types. *)

LEMMA InitTyped == MatchInit => MatchTypeOK
<1> SUFFICES ASSUME MatchInit PROVE MatchTypeOK
  OBVIOUS
<1>1. now \in Time
  BY MatchControlAssumption DEF MatchInit, Time
<1>2. row \in Row
  <2>1. 0 \in Goals
    BY LiveScoreAssumption DEF Goals
  <2>2. InitStatuses \subseteq MatchStatus
    BY MatchControlAssumption DEF MatchStatus
  <2>3. [s \in Sides |-> 0] \in [Sides -> Goals]
    BY <2>1
  <2> QED
    BY <2>2, <2>3 DEF MatchInit, Row
<1>3. robot \in RobotState /\ refresh \in [pc : {"idle"}]
  BY DEF MatchInit, Idle, RobotState
<1>4. /\ pending \in [Sides -> SUBSET PendingDrop]
      /\ observed \in [Sides -> [value : Goals \cup {None}, since : Time]]
  <2>1. [value |-> None, since |-> 0] \in [value : Goals \cup {None}, since : Time]
    BY <1>1 DEF MatchInit
  <2>2. {} \in SUBSET PendingDrop
    OBVIOUS
  <2> QED
    BY <2>1, <2>2, Zenon DEF MatchInit
<1>5. everRevealed \in BOOLEAN
  BY DEF MatchInit, Revealed, PoolReveals, RankingReveals
<1>6. adminResolve \in BOOLEAN /\ lost \in BOOLEAN
  BY Zenon DEF MatchInit
<1>7. /\ resolved \in {None} \cup [score : [Sides -> Goals],
                                   pens : (0..MaxPens) \cup {None}]
      /\ overruled \in 0..2
  BY DEF MatchInit
<1> QED
  BY <1>1, <1>2, <1>3, <1>4, <1>5, <1>6, <1>7 DEF MatchTypeOK

LEMMA ResolveTyped ==
    ASSUME MatchTypeOK, Resolve
    PROVE  resolved' \in {None} \cup [score : [Sides -> Goals],
                                      pens : (0..MaxPens) \cup {None}]
BY DEF MatchTypeOK, Resolve, Result, Row

LEMMA StepTyped == MatchTypeOK /\ [MatchNext]_matchVars => MatchTypeOK'
<1> SUFFICES ASSUME MatchTypeOK, [MatchNext]_matchVars PROVE MatchTypeOK'
  OBVIOUS
<1> DEFINE ResolvedTyped(r) ==
             r \in {None} \cup [score : [Sides -> Goals],
                                pens : (0..MaxPens) \cup {None}]
           RefreshTyped(r) ==
             r \in [pc : {"idle"}] \cup
                   [pc : {"read"}, status : MatchStatus, kickoff : Kickoffs]
<1> USE DEF MatchTypeOK
<1>1. Idle \in RobotState /\ [pc |-> "resolve"] \in RobotState
  BY DEF Idle, RobotState
<1>2. RefreshTyped(Idle)
  BY DEF Idle
<1>3. CASE UNCHANGED matchVars
  BY <1>3 DEF matchVars
<1>4. CASE MatchNext
  <2>1. everRevealed' \in BOOLEAN /\ MatchAction
    BY <1>4 DEF MatchNext, Observed, Revealed, PoolReveals, RankingReveals
  <2>2. CASE RobotTick
    <3>1. robot' \in RobotState
      BY <2>2 DEF RobotTick, RobotState
    <3> QED
      BY <2>1, <2>2, <3>1 DEF RobotTick
  <2>3. CASE RobotRead
    <3>1. robot.sb \in Scoreboards
      BY <2>3, FetchedRobot DEF RobotRead
    <3>2. robot' \in RobotState
      BY <1>1, <2>3, <3>1 DEF RobotRead, RobotState
    <3> QED
      BY <2>1, <2>3, <3>2 DEF RobotRead
  <2>4. CASE RobotMerge
    <3>1. robot' \in RobotState
      BY <1>1, <2>4, MergeShape
    <3> QED
      BY <2>1, <2>4, <3>1, MergeShape DEF RobotMerge
  <2>5. CASE RobotResolve
    BY <1>1, <2>1, <2>5, ResolveTyped DEF RobotResolve
  <2>6. CASE RobotAborts
    BY <1>1, <2>1, <2>6 DEF RobotAborts
  <2>7. CASE AdminUpdate
    <3>1. EditedRows \subseteq Row
      BY <2>7 DEF EditedRows, Edited, Row
    <3>2. PICK edited \in EditedRows, scored \in BOOLEAN :
            row' = edited
      BY <2>7 DEF AdminUpdate
    <3>3. row' \in Row
      BY <3>1, <3>2
    <3>4. adminResolve' \in BOOLEAN
      BY <2>7 DEF AdminUpdate
    <3>5. overruled' \in 0..2
      BY <2>7 DEF AdminUpdate
    <3> QED
      BY <2>1, <2>7, <3>3, <3>4, <3>5 DEF AdminUpdate
  <2>8. CASE AdminResolve
    BY <2>1, <2>8, ResolveTyped DEF AdminResolve
  <2>9. CASE RefreshRead
    <3>1. RefreshTyped(refresh')
      BY <2>9 DEF RefreshRead, Row
    <3> QED
      BY <2>1, <2>9, <3>1 DEF RefreshRead
  <2>10. CASE RefreshWrite
    <3>1. PICK date \in Kickoffs \cup {None} :
            \/ row' = row
            \/ row' = [row EXCEPT !.status = "POSTPONED"]
            \/ date # None
               /\ row' = [row EXCEPT !.status = "SCHEDULED", !.kickoff = date]
      BY <2>10 DEF RefreshWrite
    <3>2. row' \in Row
      BY <3>1 DEF Row, MatchStatus
    <3> QED
      BY <1>2, <2>1, <2>10, <3>2 DEF RefreshWrite
  <2>11. CASE Tick
    <3>1. now' \in Time
      BY <2>11, MatchControlAssumption DEF Tick, Time
    <3> QED
      BY <2>1, <2>11, <3>1 DEF Tick
  <2>12. CASE Restart
    <3>1. pending' \in [Sides -> SUBSET PendingDrop]
      BY <2>12 DEF Restart
    <3> QED
      BY <1>1, <1>2, <2>1, <2>12, <3>1 DEF Restart
  <2> QED
    BY <2>1, <2>2, <2>3, <2>4, <2>5, <2>6, <2>7, <2>8, <2>9, <2>10, <2>11, <2>12
       DEF MatchAction
<1> QED
  BY <1>3, <1>4

\* Every variable keeps its type, whoever takes part: no interleaving of the
\* robot, the admin and the refresh writes a value the columns cannot hold, a
\* missing answer of a feed included.
THEOREM Typed == MatchSpec => []MatchTypeOK
<1>1. MatchInit => MatchTypeOK
  BY InitTyped
<1>2. MatchTypeOK /\ [MatchNext]_matchVars => MatchTypeOK'
  BY StepTyped
<1> QED
  BY <1>1, <1>2, PTL DEF MatchSpec

-----------------------------------------------------------------------------
(* The takeover, whoever takes part. *)

\* A pass that has written over an admin's match is over, and every later pass
\* reads that the match is the admin's.
OverruledOnce ==
    /\ overruled \in {0, 1}
    /\ overruled = 1 => /\ ~row.auto
                        /\ robot.pc = "read" => ~robot.snap.auto

LEMMA OverruledOnceStep ==
    ASSUME MatchTypeOK, OverruledOnce, [MatchNext]_matchVars
    PROVE  OverruledOnce'
<1> USE DEF OverruledOnce
<1>1. CASE UNCHANGED matchVars
  BY <1>1 DEF matchVars
<1>2. CASE RobotTick
  BY <1>2 DEF RobotTick
<1>3. CASE RobotRead
  BY <1>3 DEF RobotRead, Idle
<1>4. CASE RobotMerge
  <2>1. /\ robot'.pc # "read"
        /\ row'.auto = row.auto
        /\ ~robot.snap.auto => row' = row
    BY <1>4, MergeShape DEF Idle
  <2>2. robot.pc = "read" /\ overruled' = IF ~row.auto /\ row' # row /\ overruled < 2
                                          THEN overruled + 1 ELSE overruled
    BY <1>4 DEF RobotMerge
  <2>3. CASE overruled = 1
    BY <2>1, <2>2, <2>3
  <2>4. CASE overruled = 0
    BY <2>1, <2>2, <2>4
  <2> QED
    BY <2>3, <2>4
<1>5. CASE RobotResolve
  BY <1>5 DEF RobotResolve, Idle
<1>6. CASE RobotAborts
  BY <1>6 DEF RobotAborts, Idle
<1>7. CASE AdminUpdate
  <2>1. PICK edited \in EditedRows :
          /\ row' = edited
          /\ overruled' = IF edited.auto # row.auto THEN 0 ELSE overruled
    BY <1>7 DEF AdminUpdate
  <2>2. robot' = robot
    BY <1>7 DEF AdminUpdate
  <2> QED
    BY <2>1, <2>2
<1>8. CASE AdminResolve \/ RefreshRead \/ Tick
  BY <1>8 DEF AdminResolve, RefreshRead, Tick
<1>9. CASE RefreshWrite
  <2>1. row'.auto = row.auto
    BY <1>9 DEF RefreshWrite, MatchTypeOK, Row
  <2> QED
    BY <1>9, <2>1 DEF RefreshWrite
<1>10. CASE Restart
  BY <1>10 DEF Restart, Idle
<1> QED
  BY <1>1, <1>2, <1>3, <1>4, <1>5, <1>6, <1>7, <1>8, <1>9, <1>10
     DEF MatchNext, Observed, MatchAction

\* Whatever the admin edits and however the clock, the refresh, failures and
\* restarts interleave, the robot overrules a takeover with one write at most.
THEOREM OverruledOnceHolds == MatchSpec => []OverruledAtMostOnce
<1>1. MatchInit => OverruledOnce
  BY DEF MatchInit, OverruledOnce
<1>2. MatchTypeOK /\ OverruledOnce /\ [MatchNext]_matchVars => OverruledOnce'
  BY OverruledOnceStep
<1>3. OverruledOnce => OverruledAtMostOnce
  BY DEF OverruledOnce, OverruledAtMostOnce
<1> QED
  BY <1>1, <1>2, <1>3, Typed, PTL DEF MatchSpec

-----------------------------------------------------------------------------
(* The status, when no admin edits the match. *)

\* While a pass holds the row it read, the status that stands never outranks
\* the status it read: only the refresh writes in between, and it goes back.
NeverAhead ==
    robot.pc = "read" /\ row.status \in Ranked /\ robot.snap.status \in Ranked
      => Rank[row.status] <= Rank[robot.snap.status]

LEMMA NeverAheadStep ==
    ASSUME "admin" \notin Actors, MatchTypeOK, NeverAhead, [MatchNext]_matchVars
    PROVE  NeverAhead'
<1> USE DEF NeverAhead
<1>1. CASE UNCHANGED matchVars
  BY <1>1 DEF matchVars
<1>2. CASE RobotTick
  BY <1>2 DEF RobotTick
<1>3. CASE RobotRead
  BY <1>3, Ranks DEF RobotRead, Idle
<1>4. CASE RobotMerge
  BY <1>4, MergeShape DEF Idle
<1>5. CASE RobotResolve \/ RobotAborts \/ Restart
  BY <1>5 DEF RobotResolve, RobotAborts, Restart, Idle
<1>6. CASE AdminUpdate
  BY <1>6 DEF AdminUpdate
<1>7. CASE AdminResolve \/ RefreshRead \/ Tick
  BY <1>7 DEF AdminResolve, RefreshRead, Tick
<1>8. CASE RefreshWrite
  <2>1. row'.status \in {row.status, "POSTPONED", "SCHEDULED"}
    BY <1>8 DEF RefreshWrite, MatchTypeOK, Row
  <2>2. robot' = robot
    BY <1>8 DEF RefreshWrite
  <2> QED
    BY <2>1, <2>2, Ranks
<1> QED
  BY <1>1, <1>2, <1>3, <1>4, <1>5, <1>6, <1>7, <1>8
     DEF MatchNext, Observed, MatchAction

LEMMA OneWayStep ==
    ASSUME "admin" \notin Actors, MatchTypeOK, NeverAhead, [MatchNext]_matchVars,
           robot.pc = "read", robot'.pc # "read", row.status \in Ranked
    PROVE  row'.status \in Ranked /\ Rank[row'.status] >= Rank[row.status]
<1>1. CASE RobotMerge
  <2>1. CASE row'.status = row.status
    BY <2>1, Ranks
  <2>2. CASE row'.status # row.status
    BY <1>1, <2>2, MergeShape, Ranks DEF NeverAhead
  <2> QED
    BY <2>1, <2>2
<1>2. CASE RobotAborts \/ Restart
  BY <1>2, Ranks DEF RobotAborts, Restart
<1> QED
  BY <1>1, <1>2 DEF MatchNext, Observed, MatchAction, matchVars, RobotTick,
     RobotRead, RobotResolve, AdminUpdate, AdminResolve, RefreshRead,
     RefreshWrite, Tick

\* As long as no admin edits the match, no write of the robot takes its status
\* back, however far the feeds lag and whatever the refresh writes meanwhile.
THEOREM OneWayHolds ==
    ASSUME "admin" \notin Actors
    PROVE  MatchSpec => RobotOneWay
<1>1. MatchInit => NeverAhead
  BY DEF MatchInit, NeverAhead, Idle
<1>2. MatchTypeOK /\ NeverAhead /\ [MatchNext]_matchVars => NeverAhead'
  BY NeverAheadStep
<1>3. MatchTypeOK /\ NeverAhead /\ [MatchNext]_matchVars
        => [robot.pc = "read" /\ robot'.pc # "read" /\ row.status \in Ranked
              => row'.status \in Ranked /\ Rank[row'.status] >= Rank[row.status]]_matchVars
  BY OneWayStep
<1> QED
  BY <1>1, <1>2, <1>3, Typed, PTL DEF MatchSpec, RobotOneWay

-----------------------------------------------------------------------------
(* A match that only the robot writes, seeded with a date. *)

RobotAlone == Actors \subseteq {"robot", "faults"} /\ InitStatuses \subseteq {"SCHEDULED"}

\* The pass holds the row that stands; the status is one of the three of the
\* order; what was shown is still shown; a pending drop is the value seen last,
\* and was seen since before it was noted.
SnapIsRow ==
    /\ row.status \in Ranked
    /\ robot.pc = "read" => robot.snap = row
StillRevealed == everRevealed => Revealed(row, now)
Remembers ==
    \A s \in Sides :
        /\ observed[s].since <= now
        /\ \A d \in pending[s] :
              d.value = observed[s].value /\ observed[s].since <= d.since
RobotOwnsRow == SnapIsRow /\ StillRevealed /\ Remembers

LEMMA RevealedPersists ==
    ASSUME NEW r \in Row, NEW q \in Row, NEW t \in Nat, NEW u \in Nat,
           r.status \in Ranked, q.status \in Ranked,
           Rank[r.status] <= Rank[q.status], r.kickoff = q.kickoff, t <= u,
           Revealed(r, t)
    PROVE  Revealed(q, u)
<1>1. r.kickoff \in Nat
  BY MatchControlAssumption DEF Row
<1> QED
  BY <1>1, Ranks DEF Revealed, PoolReveals, RankingReveals

LEMMA RobotOwnsRowInit ==
    ASSUME RobotAlone, MatchInit
    PROVE  RobotOwnsRow
<1>1. SnapIsRow
  BY Ranks DEF SnapIsRow, RobotAlone, MatchInit, Idle
<1>2. StillRevealed
  BY Zenon DEF StillRevealed, MatchInit
<1>3. Remembers
  BY DEF Remembers, MatchInit
<1> QED
  BY <1>1, <1>2, <1>3 DEF RobotOwnsRow

\* The reconciler's memory after a merge, against what it has seen.
LEMMA MergeRemembers ==
    ASSUME MatchTypeOK, Remembers, RobotMerge
    PROVE  Remembers'
<1>1. PICK live \in Summaries :
        LET states == FeedStates(robot.sb, live)
            goals == [s \in Sides |-> Reported(robot.sb, live, s)]
        IN  /\ pending' = IF ~Merges(robot.snap, states) THEN pending
                 ELSE [s \in Sides |-> PendingAfter(pending[s], goals[s],
                         robot.snap.score[s], "post" \in states, now)]
            /\ observed' = IF ~Merges(robot.snap, states) THEN observed
                 ELSE [s \in Sides |->
                        IF goals[s] = observed[s].value THEN observed[s]
                        ELSE [value |-> goals[s], since |-> now]]
  BY DEF RobotMerge
<1> DEFINE states == FeedStates(robot.sb, live)
           goals == [s \in Sides |-> Reported(robot.sb, live, s)]
<1>2. CASE ~Merges(robot.snap, states)
  BY <1>1, <1>2 DEF Remembers, RobotMerge
<1>3. CASE Merges(robot.snap, states)
  <2> SUFFICES ASSUME NEW s \in Sides
               PROVE  /\ observed'[s].since <= now
                      /\ \A d \in pending'[s] :
                            d.value = observed'[s].value /\ observed'[s].since <= d.since
    BY DEF Remembers, RobotMerge
  <2>1. /\ pending'[s] = PendingAfter(pending[s], goals[s], robot.snap.score[s],
                                      "post" \in states, now)
        /\ observed'[s] = IF goals[s] = observed[s].value THEN observed[s]
                          ELSE [value |-> goals[s], since |-> now]
    BY <1>1, <1>3
  <2>2. \A d \in pending'[s] :
          /\ d \in pending[s] \cup {[value |-> goals[s], since |-> now]}
          /\ d.value = goals[s]
    <3> HIDE DEF goals, states
    <3>1. \A e \in pending[s] : e \in PendingDrop
      BY DEF MatchTypeOK
    <3>2. CASE \E e \in pending[s] : e.value = goals[s]
      <4>1. \A e \in pending[s] : e.value = observed[s].value
        BY DEF Remembers
      <4> QED
        BY <2>1, <3>2, <4>1 DEF PendingAfter
    <3>3. CASE ~\E e \in pending[s] : e.value = goals[s]
      BY <2>1, <3>3 DEF PendingAfter
    <3> QED
      BY <3>2, <3>3
  <2>3. now \in Nat /\ observed[s].since \in Nat /\ observed[s].since <= now
    BY TimeIsNat DEF MatchTypeOK, Remembers
  <2> QED
    BY <2>1, <2>2, <2>3 DEF Remembers
<1> QED
  BY <1>2, <1>3

\* While the robot alone writes the row, the refresh never has a row to write.
NoRefresh == refresh.pc = "idle"

LEMMA NoRefreshStep ==
    ASSUME RobotAlone, NoRefresh, [MatchNext]_matchVars
    PROVE  NoRefresh'
<1>1. Idle.pc = "idle"
  BY DEF Idle
<1>2. refresh' \in {refresh, Idle}
  <2>1. CASE UNCHANGED matchVars
    BY <2>1 DEF matchVars
  <2>2. CASE RobotMerge \/ RobotTick \/ RobotRead \/ RobotResolve \/ RobotAborts
    BY <2>2 DEF RobotTick, RobotRead, RobotMerge, RobotResolve, RobotAborts
  <2>3. CASE AdminUpdate \/ AdminResolve \/ RefreshWrite \/ Tick \/ Restart
    BY <2>3 DEF AdminUpdate, AdminResolve, RefreshWrite, Tick, Restart
  <2>4. CASE RefreshRead
    BY <2>4 DEF RefreshRead, RobotAlone
  <2> QED
    BY <2>1, <2>2, <2>3, <2>4 DEF MatchNext, Observed, MatchAction
<1> QED
  BY <1>1, <1>2 DEF NoRefresh

LEMMA SnapIsRowStep ==
    ASSUME RobotAlone, NoRefresh, MatchTypeOK, SnapIsRow, MatchAction
    PROVE  SnapIsRow'
<1> USE DEF SnapIsRow
<1>1. CASE RobotTick \/ RobotRead
  BY <1>1 DEF RobotTick, RobotRead, Idle
<1>2. CASE RobotMerge
  BY <1>2, MergeShape DEF Idle
<1>3. CASE RobotResolve \/ RobotAborts \/ Restart
  BY <1>3 DEF RobotResolve, RobotAborts, Restart, Idle
<1>4. CASE AdminResolve \/ Tick
  BY <1>4 DEF AdminResolve, Tick
<1> QED
  BY <1>1, <1>2, <1>3, <1>4
     DEF MatchAction, RobotAlone, NoRefresh, AdminUpdate, RefreshRead, RefreshWrite

LEMMA RevealedStep ==
    ASSUME RobotAlone, NoRefresh, MatchTypeOK, SnapIsRow, MatchAction,
           Revealed(row, now)
    PROVE  Revealed(row', now')
<1>1. now \in Nat /\ row \in Row
  BY TimeIsNat DEF MatchTypeOK
<1>2. CASE RobotMerge
  <2>1. now' = now /\ row' \in Row /\ row'.kickoff = row.kickoff
    BY <1>2, MergeShape DEF RobotMerge
  <2>2. \/ row'.status = row.status
        \/ /\ row'.status \in Ranked
           /\ Rank[row'.status] > Rank[row.status]
    BY <1>2, MergeShape DEF RobotMerge, SnapIsRow
  <2>3. row'.status \in Ranked /\ Rank[row.status] <= Rank[row'.status]
    BY <2>2, Ranks DEF SnapIsRow
  <2> QED
    BY <1>1, <2>1, <2>3, RevealedPersists DEF SnapIsRow
<1>3. CASE Tick
  <2>1. now' = now + 1 /\ row' = row
    BY <1>3 DEF Tick
  <2>2. Rank[row.status] <= Rank[row.status]
    BY Ranks DEF SnapIsRow
  <2> QED
    BY <1>1, <2>1, <2>2, RevealedPersists DEF SnapIsRow
<1>4. CASE row' = row /\ now' = now
  BY <1>4
<1> QED
  BY <1>2, <1>3, <1>4 DEF MatchAction, RobotAlone, NoRefresh, RobotTick,
     RobotRead, RobotResolve, RobotAborts, AdminUpdate, AdminResolve,
     RefreshRead, RefreshWrite, Restart

LEMMA RemembersStep ==
    ASSUME RobotAlone, MatchTypeOK, Remembers, MatchAction
    PROVE  Remembers'
<1>1. CASE RobotMerge
  BY <1>1, MergeRemembers
<1>2. CASE Tick
  <2>1. now' = now + 1 /\ pending' = pending /\ observed' = observed
    BY <1>2 DEF Tick
  <2>2. now \in Nat /\ \A s \in Sides : observed[s].since \in Nat
    BY TimeIsNat DEF MatchTypeOK
  <2>3. \A s \in Sides : observed[s].since <= now + 1
    BY <2>2 DEF Remembers
  <2> QED
    BY <2>1, <2>3 DEF Remembers
<1>3. CASE Restart
  <2>1. pending' = [s \in Sides |-> {}] /\ now' = now /\ observed' = observed
    BY <1>3 DEF Restart
  <2> QED
    BY <2>1 DEF Remembers
<1>4. CASE UNCHANGED <<now, pending, observed>>
  BY <1>4 DEF Remembers
<1> QED
  BY <1>1, <1>2, <1>3, <1>4 DEF MatchAction, RobotTick, RobotRead, RobotResolve,
     RobotAborts, AdminUpdate, AdminResolve, RefreshRead, RefreshWrite

LEMMA RobotOwnsRowStep ==
    ASSUME RobotAlone, MatchTypeOK, NoRefresh, RobotOwnsRow, [MatchNext]_matchVars
    PROVE  RobotOwnsRow'
<1>1. CASE UNCHANGED matchVars
  BY <1>1, Zenon DEF matchVars, RobotOwnsRow, SnapIsRow, StillRevealed, Remembers
<1>2. CASE MatchNext
  <2>1. MatchAction /\ (everRevealed' => everRevealed \/ Revealed(row', now'))
    BY <1>2, Zenon DEF MatchNext, Observed
  <2>2. StillRevealed'
    BY <2>1, RevealedStep DEF RobotOwnsRow, StillRevealed
  <2> QED
    BY <2>1, <2>2, SnapIsRowStep, RemembersStep DEF RobotOwnsRow
<1> QED
  BY <1>1, <1>2

LEMMA RobotOwnsRowHolds ==
    ASSUME RobotAlone
    PROVE  MatchSpec => [](RobotOwnsRow /\ NoRefresh)
<1>1. MatchInit => RobotOwnsRow /\ NoRefresh
  <2>1. MatchInit => NoRefresh
    BY DEF NoRefresh, MatchInit, Idle
  <2> QED
    BY <2>1, RobotOwnsRowInit
<1>2. MatchTypeOK /\ RobotOwnsRow /\ NoRefresh /\ [MatchNext]_matchVars
        => RobotOwnsRow' /\ NoRefresh'
  BY RobotOwnsRowStep, NoRefreshStep
<1> QED
  BY <1>1, <1>2, Typed, PTL DEF MatchSpec

\* The bets of a match that only the robot writes never open again once they
\* were shown: the window and the two views that show the bets agree in every
\* state that lagging feeds, failures, restarts and the clock lead to.
THEOREM RevealedStaysClosedHolds ==
    ASSUME RobotAlone
    PROVE  MatchSpec => []RevealedStaysClosed
<1>1. MatchTypeOK /\ RobotOwnsRow => RevealedStaysClosed
  <2> SUFFICES ASSUME MatchTypeOK, RobotOwnsRow, everRevealed
               PROVE  ~AcceptsPredictions(row, now)
    BY DEF RevealedStaysClosed
  <2>1. row.status \in Ranked /\ Revealed(row, now)
    BY DEF RobotOwnsRow, SnapIsRow, StillRevealed
  <2>2. row.kickoff \in Nat /\ now \in Nat
    BY TimeIsNat, MatchControlAssumption DEF MatchTypeOK, Row
  <2> QED
    BY <2>1, <2>2, Ranks DEF Revealed, PoolReveals, RankingReveals, AcceptsPredictions
<1> QED
  BY <1>1, Typed, RobotOwnsRowHolds, PTL

\* What a merge that lowers a side's goals has seen of that side.
LEMMA FallStep ==
    ASSUME RobotAlone, NoRefresh, MatchTypeOK, RobotOwnsRow, MatchAction,
           NEW s \in Sides, robot.pc = "read",
           row'.score[s] < row.score[s], row'.status # "FINISHED"
    PROVE  /\ observed'[s].value = row'.score[s]
           /\ now - observed'[s].since >= Confirm
<1>1. RobotMerge
  <2>1. row' # row
    <3>1. row.score[s] \in Int
      BY DEF MatchTypeOK, Row, Goals
    <3> QED
      BY <3>1
  <2> QED
    BY <2>1 DEF MatchAction, RobotAlone, NoRefresh, RobotTick, RobotRead,
       RobotResolve, RobotAborts, AdminUpdate, AdminResolve, RefreshRead,
       RefreshWrite, Tick, Restart
<1>2. robot.snap = row /\ row.status \in Ranked
  BY <1>1 DEF RobotOwnsRow, SnapIsRow, RobotMerge
<1>3. PICK live \in Summaries, saved \in BOOLEAN :
        LET states == FeedStates(robot.sb, live)
            goals == [t \in Sides |-> Reported(robot.sb, live, t)]
        IN  /\ row' = IF saved THEN Merged(robot.snap, states, goals,
                                           NewPens(robot.snap, robot.sb))
                      ELSE row
            /\ observed' = IF ~Merges(robot.snap, states) THEN observed
                 ELSE [t \in Sides |->
                        IF goals[t] = observed[t].value THEN observed[t]
                        ELSE [value |-> goals[t], since |-> now]]
  BY <1>1 DEF RobotMerge
<1> DEFINE states == FeedStates(robot.sb, live)
           goals == [t \in Sides |-> Reported(robot.sb, live, t)]
           pens == NewPens(robot.snap, robot.sb)
<1>4. row' = Merged(row, states, goals, pens)
  <2>1. row' # row
    <3>1. row.score[s] \in Int
      BY DEF MatchTypeOK, Row, Goals
    <3> QED
      BY <3>1
  <2> QED
    BY <1>2, <1>3, <2>1
<1>5. /\ row'.score[s] = IF s \in GoalsApplied(row, states, goals)
                         THEN goals[s] ELSE row.score[s]
      /\ row'.status = IF StatusRaised(row, states) THEN MostAdvanced(states)
                       ELSE row.status
  <2> HIDE DEF goals, states, pens
  <2> QED
    BY <1>4 DEF Merged, MatchTypeOK, Row
<1> HIDE DEF goals, states, pens
<1>6. row.score[s] \in Int /\ s \in GoalsApplied(row, states, goals)
  BY <1>5 DEF MatchTypeOK, Row, Goals
<1>7. /\ Merges(row, states) /\ row'.score[s] = goals[s]
      /\ Applies(pending[s], goals[s], row.score[s], "post" \in states, now)
  BY <1>5, <1>6 DEF GoalsApplied
<1>8. "post" \notin states
  <2> SUFFICES ASSUME "post" \in states PROVE FALSE
    OBVIOUS
  <2>1. MostAdvanced(states) = "FINISHED" /\ states # {} /\ row.auto
    BY <1>7 DEF MostAdvanced, Merges
  <2>2. CASE row.status = "FINISHED"
    BY <1>2, <1>5, <2>1, <2>2, Ranks DEF StatusRaised, Raises
  <2>3. CASE row.status # "FINISHED"
    BY <1>2, <1>5, <2>1, <2>3, Ranks DEF StatusRaised, Raises
  <2> QED
    BY <2>2, <2>3
<1>9. PICK d \in pending[s] : d.value = goals[s] /\ now - d.since >= Confirm
  <2>1. goals[s] \in Int /\ goals[s] < row.score[s]
    BY <1>1, <1>7, MergeShape DEF Row, Goals
  <2> QED
    BY <1>6, <1>7, <1>8, <2>1 DEF Applies
<1>10. d.value = observed[s].value /\ observed[s].since <= d.since
  BY DEF RobotOwnsRow, Remembers
<1>11. observed'[s] = observed[s]
  BY <1>2, <1>3, <1>7, <1>9, <1>10 DEF goals, states
<1>12. /\ now \in Nat /\ d.since \in Nat /\ observed[s].since \in Nat
       /\ Confirm \in Nat
  <2>1. pending[s] \in SUBSET PendingDrop /\ observed[s].since \in Nat /\ now \in Nat
    BY TimeIsNat DEF MatchTypeOK
  <2> QED
    BY <2>1, LiveScoreAssumption DEF PendingDrop
<1> QED
  BY <1>7, <1>9, <1>10, <1>11, <1>12

\* The reconciler on a match that only the robot writes: short of the final
\* whistle, a goal is taken away only when its absence is all the reconciler has
\* seen of the side for Confirm, through lagging feeds, failures and restarts.
THEOREM FallIsConfirmedHolds ==
    ASSUME RobotAlone
    PROVE  MatchSpec => FallIsConfirmed
<1>1. MatchTypeOK /\ RobotOwnsRow /\ NoRefresh /\ [MatchNext]_matchVars
        => [\A s \in Sides :
              robot.pc = "read" /\ row'.score[s] < row.score[s]
                /\ row'.status # "FINISHED"
              => /\ observed'[s].value = row'.score[s]
                 /\ now - observed'[s].since >= Confirm]_matchVars
  BY FallStep DEF MatchNext, Observed
<1> QED
  BY <1>1, Typed, RobotOwnsRowHolds, PTL DEF MatchSpec, FallIsConfirmed

-----------------------------------------------------------------------------
(* Predictions implements MatchControl, so what is proved of the row holds *)
(* with the bets around it.                                                *)

LEMMA StepIsMatchStep == [PredictionsNext]_vars => [MatchNext]_matchVars
BY DEF PredictionsNext, vars, MatchStep, BetChecked, AdminBetChecked, BetWritten,
   BetLost, OthersShown

\* Every behaviour of the bets and the match is a behaviour of the match alone:
\* betting never writes the row, and the row never waits for a bet.
THEOREM BetsImplementMatch == PredictionsSpec => MatchSpec
<1>1. PredictionsInit => MatchInit
  BY DEF PredictionsInit
<1> QED
  BY <1>1, StepIsMatchStep, PTL DEF PredictionsSpec, MatchSpec

\* Who was shown a bet was shown it by a view that then revealed the match.
PeekedWasRevealed == peeked # {} => everRevealed

\* The history of the views covers the present.
RevealedIsRecorded == Revealed(row, now) => everRevealed

BlindInv == PeekedWasRevealed /\ RevealedIsRecorded /\ NobodyBetsInformed

LEMMA BlindInit == PredictionsInit => BlindInv
<1> SUFFICES ASSUME PredictionsInit PROVE BlindInv
  OBVIOUS
<1>1. RevealedIsRecorded
  BY Zenon DEF RevealedIsRecorded, PredictionsInit, MatchInit
<1>2. PeekedWasRevealed /\ NobodyBetsInformed
  BY DEF PeekedWasRevealed, NobodyBetsInformed, PredictionsInit
<1> QED
  BY <1>1, <1>2 DEF BlindInv

LEMMA BlindStep ==
    ASSUME RevealedStaysClosed, BlindInv, [PredictionsNext]_vars
    PROVE  BlindInv'
<1> USE DEF BlindInv, PeekedWasRevealed, RevealedIsRecorded, NobodyBetsInformed
<1>1. CASE UNCHANGED matchVars
  <2>1. RevealedIsRecorded' /\ everRevealed' = everRevealed
    BY <1>1 DEF matchVars, Revealed, PoolReveals, RankingReveals
  <2>2. CASE UNCHANGED vars
    BY <2>1, <2>2 DEF vars, betVars
  <2>3. CASE MatchStep
    BY <2>1, <2>3 DEF MatchStep, betVars
  <2>4. ASSUME NEW u \in Users, BetChecked(u) PROVE BlindInv'
    <3>1. u \notin peeked
      BY <2>4 DEF BetChecked, RevealedStaysClosed
    <3> QED
      BY <2>1, <2>4, <3>1 DEF BetChecked
  <2>5. ASSUME NEW u \in Users, AdminBetChecked(u) PROVE BlindInv'
    BY <2>1, <2>5 DEF AdminBetChecked
  <2>6. ASSUME NEW u \in Users, OthersShown(u) PROVE BlindInv'
    BY <2>1, <2>6 DEF OthersShown
  <2>7. ASSUME NEW q \in requests, BetWritten(q) PROVE BlindInv'
    BY <2>1, <2>7 DEF BetWritten
  <2>8. ASSUME NEW q \in requests, BetLost(q) PROVE BlindInv'
    BY <2>1, <2>8 DEF BetLost
  <2> QED
    BY <2>2, <2>3, <2>4, <2>5, <2>6, <2>7, <2>8 DEF PredictionsNext
<1>2. CASE MatchStep
  <2>1. everRevealed' = (everRevealed \/ Revealed(row', now'))
    BY <1>2 DEF MatchStep, MatchNext, Observed
  <2> QED
    BY <1>2, <2>1, Zenon DEF MatchStep, betVars
<1>3. PredictionsNext /\ ~MatchStep => UNCHANGED matchVars
  BY DEF PredictionsNext, BetChecked, AdminBetChecked, BetWritten, BetLost,
     OthersShown
<1> QED
  BY <1>1, <1>2, <1>3 DEF vars

\* On a match that only the robot writes, nobody bets after having been shown
\* another member's bet: for any number of members, any schedule of the upserts
\* and the views, and any feeds, failures and restarts.
THEOREM BlindHolds ==
    ASSUME RobotAlone
    PROVE  PredictionsSpec => []NobodyBetsInformed
<1>1. PredictionsSpec => []RevealedStaysClosed
  BY BetsImplementMatch, RevealedStaysClosedHolds, PTL
<1>2. BlindInv => NobodyBetsInformed
  BY DEF BlindInv
<1> QED
  BY <1>1, <1>2, BlindInit, BlindStep, PTL DEF PredictionsSpec
=============================================================================
