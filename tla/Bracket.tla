------------------------------ MODULE Bracket ------------------------------
(***************************************************************************)
(* The knockout bracket of a season (SlotResolverService,                  *)
(* src/src/structure/slot-resolver.service.ts) and the two actors who      *)
(* change results and resolve it: the robot, one match after another, and   *)
(* an admin.  resolveSeason reads all ties and legs once per pass and       *)
(* writes them one by one, each against the snapshot; passes repeat until   *)
(* one of them changes nothing, MaxPasses at most.                          *)
(***************************************************************************)
EXTENDS Common, Standings

CONSTANTS
    Teams,
    Groups,      \* the groups of the one group stage
    TeamsOf,     \* the teams of each group
    GroupMatches,\* the matches of each group
    Preset,      \* the stage's tiebreakPreset
    ThirdPlace,  \* the place of a group that competes for the best thirds
    BestCount,   \* how many of them qualify
    Annex,       \* the group whose third faces a group's winner, for each set
                 \* of groups whose thirds qualify (WC2026_THIRDS_TABLE)
    TieOrder,    \* the ties in the order a pass takes them
    Source,      \* the feeders of each tie
    Seeded,      \* the teams a tie is created with
    Legs,        \* the matches of each tie, in order
    Fixture,     \* the teams a match is created with
    ResultsOf,   \* the results a match may end with
    MaxPasses,   \* maxPasses
    Actors,      \* which of "robot", "admin" take part
    MaxChanges   \* bound on the changes of a result already written

Ties == {TieOrder[i] : i \in DOMAIN TieOrder}
Matches == DOMAIN Fixture
Booking == [side : {"home", "away"}, player : {None} \cup STRING,
            cards : SUBSET {"yellow", "red"}]
Result == [home : Nat, away : Nat, pens : {None, "home", "away"}, bookings : Seq(Booking)]

Teamed == [home : Teams \cup {None}, away : Teams \cup {None}]
Slot == [type : {"MATCH_WINNER", "MATCH_LOSER"}, tie : Ties]
          \cup [type : {"GROUP_POSITION"}, group : Groups, position : Nat \ {0}]
          \cup [type : {"BEST_RANKED"}, winnerGroup : Groups]

\* The order is one of (stage, round, tie), and takes each tie once.  A match is the leg
\* of one tie at most: it has one tieId.  The seeds create a tie with the teams of its
\* first leg, and its legs with the tie's, swapped in the second.  A best third whose
\* feeder names no group it faces is a feeder None: neither ever gives a team.
ASSUME BracketAssumption ==
    /\ None \notin Teams
    /\ TieOrder \in Seq(Ties)
    /\ \A i, j \in DOMAIN TieOrder : TieOrder[i] = TieOrder[j] => i = j
    /\ Source \in [Ties -> [home : Slot \cup {None}, away : Slot \cup {None}]]
    /\ Seeded \in [Ties -> Teamed] /\ Fixture \in [Matches -> Teamed]
    /\ Legs \in [Ties -> Seq(Matches)]
    /\ \A t, u \in Ties : \A k \in DOMAIN Legs[t], l \in DOMAIN Legs[u] :
         Legs[t][k] = Legs[u][l] => t = u /\ k = l
    /\ \A t \in Ties : \A k \in DOMAIN Legs[t] :
         Fixture[Legs[t][k]] = IF k = 2 THEN [home |-> Seeded[t].away, away |-> Seeded[t].home]
                               ELSE Seeded[t]
    /\ \A g \in Groups : GroupMatches[g] \subseteq Matches
    /\ \A m \in Matches : ResultsOf[m] \subseteq Result /\ None \notin ResultsOf[m]
    /\ {ThirdPlace, BestCount, MaxPasses} \subseteq Nat \ {0}
    /\ MaxChanges \in Nat
    /\ Actors \subseteq {"robot", "admin"}

\* A match is its teams and its result, None while it is not FINISHED.
\* A tie is its columns, None while they are null.
VARIABLES
    matches,
    ties,
    resolver,   \* each actor: where its resolveSeason is and what it holds
    dirty,      \* history: a result changed, and no resolveSeason that saw it
                \* has ended
    rewrites,   \* history: how often a written result was changed
    overtaken   \* history: a result was written while a resolveSeason was under
                \* way, and it or an earlier one replaced another result

bracketVars == <<matches, ties, resolver, dirty, rewrites, overtaken>>

Idle == [pc |-> "idle"]

BracketInit ==
    /\ matches = [m \in Matches |-> [home |-> Fixture[m].home,
                                     away |-> Fixture[m].away, result |-> None]]
    /\ ties = [t \in Ties |-> [home |-> Seeded[t].home, away |-> Seeded[t].away,
                               aggHome |-> None, aggAway |-> None,
                               winner |-> None, resolution |-> None]]
    /\ resolver = [a \in Actors |-> Idle]
    /\ dirty = FALSE
    /\ rewrites = 0
    /\ overtaken = FALSE

-----------------------------------------------------------------------------
(* Faulty variants, for testing the properties. *)

\* the second leg is played at the first one's home
MirroredUnswapped(k, home, away) == [home |-> home, away |-> away]

\* a tie's loser is its home team unless that won
LoserWithoutWinner(t) == IF ties[t].winner = ties[t].home THEN ties[t].away
                         ELSE ties[t].home

\* a single pass
NeverAgain(s) == FALSE

-----------------------------------------------------------------------------
(* The outcome of a tie. *)

GoalsIn(leg, team, home) ==
    IF (leg.home = home) = (team = home) THEN leg.result.home ELSE leg.result.away

\* computeAggregate answers only when every leg is finished and attributed.
Decidable(home, away, legs) ==
    /\ home # None /\ away # None /\ legs # <<>>
    /\ \A k \in DOMAIN legs : /\ legs[k].result # None
                              /\ legs[k].home \in {home, away}

\* The columns it yields.  A level aggregate is decided by the shootout of the
\* last leg, if any.
Aggregate(home, away, legs) ==
    LET goals(team) == SumOf([k \in DOMAIN legs |-> GoalsIn(legs[k], team, home)])
        h == goals(home)
        a == goals(away)
        last == legs[Len(legs)]
        shootout == IF last.result.pens = None THEN None
                    ELSE IF (last.result.pens = "home") = (last.home = home)
                         THEN home ELSE away
    IN  [aggHome |-> h, aggAway |-> a,
         winner |-> IF h > a THEN home ELSE IF a > h THEN away ELSE shootout,
         resolution |-> IF h # a THEN "AGGREGATE"
                        ELSE IF shootout # None THEN "PENALTIES" ELSE None]

\* mirrorToMatches: the teams the k-th leg is to have; the second swaps them.
Mirrored(k, home, away) == IF k = 2 THEN [home |-> away, away |-> home]
                           ELSE [home |-> home, away |-> away]

-----------------------------------------------------------------------------
(* The feeders, read from the database as it stands. *)

\* The one element of a set of at most one.
Only(S) == IF S = {} THEN None ELSE CHOOSE x \in S : TRUE

GroupDone(g) == \A m \in GroupMatches[g] : matches[m].result # None

Played(g) ==
    {[id |-> m, home |-> matches[m].home, away |-> matches[m].away,
      homeScore |-> matches[m].result.home, awayScore |-> matches[m].result.away,
      homeFairPlay |-> Discipline(matches[m].result.bookings, "home"),
      awayFairPlay |-> Discipline(matches[m].result.bookings, "away")] :
       m \in {n \in GroupMatches[g] : matches[n].result # None}}

\* rows[n - 1]
AtPlace(g, n) ==
    LET table == Table(Preset, TeamsOf[g], Played(g))
    IN  Only({t \in TeamsOf[g] : table[t] = n})

\* bestThirdLetter: the thirds are ranked by points, difference, goals,
\* fair play and name; the groups of the best ones are the key of the table.
ThirdKey(played, t) == <<TablePoints(played, t), GoalDiff(played, t),
                            GoalsFor(played, t), FairPlay(played, t),
                            -NameRank[t]>>

Best(key) == {g \in DOMAIN key :
    Cardinality({f \in DOMAIN key : Greater(key[f], key[g])}) < BestCount}

Drawn(third, winnerGroup) ==
    LET rivals == {g \in Groups : third[g] # None}
    IN  IF Cardinality(rivals) < BestCount THEN None
        ELSE Annex[Best([g \in rivals |-> ThirdKey(Played(g), third[g])])][winnerGroup]

\* resolveBestThird
BestThird(third, winnerGroup) ==
    LET letter == Drawn(third, winnerGroup)
    IN  IF letter = None THEN None ELSE third[letter]

Loser(t) ==
    IF None \in {ties[t].winner, ties[t].home, ties[t].away} THEN None
    ELSE IF ties[t].winner = ties[t].home THEN ties[t].away ELSE ties[t].home

\* resolveFeeder
Feeder(s) ==
    IF s = None THEN None
    ELSE CASE s.type = "MATCH_WINNER" -> ties[s.tie].winner
           [] s.type = "MATCH_LOSER" -> Loser(s.tie)
           [] s.type = "GROUP_POSITION" ->
                IF GroupDone(s.group) THEN AtPlace(s.group, s.position) ELSE None
           [] s.type = "BEST_RANKED" ->
                IF \A g \in Groups : GroupDone(g)
                THEN BestThird([g \in Groups |-> AtPlace(g, ThirdPlace)], s.winnerGroup)
                ELSE None

-----------------------------------------------------------------------------
(* The bracket as the pages project it, from the tables as they stand. *)

\* provisionalLeader: who leads on the legs that have begun, level is nobody
Leader(t) ==
    LET home == ties[t].home
        legs == [k \in DOMAIN Legs[t] |-> matches[Legs[t][k]]]
        begun == {k \in DOMAIN legs : legs[k].result # None
                                        /\ legs[k].home \in {home, ties[t].away}}
        goals(team) == SumOf([k \in begun |-> GoalsIn(legs[k], team, home)])
    IN IF None \in {home, ties[t].away} THEN None
       ELSE IF goals(home) > goals(ties[t].away) THEN home
       ELSE IF goals(home) < goals(ties[t].away) THEN ties[t].away ELSE None

\* Faulty variant: the leader goes before the winner.
LeaderOrWinner(t) == IF Leader(t) # None THEN Leader(t) ELSE ties[t].winner

\* A tie's winner, or else whoever leads it.
WinnerOrLeader(t) == IF ties[t].winner # None THEN ties[t].winner ELSE Leader(t)

HasData(g) == Played(g) # {}

\* projectSource: earlier are the projections of the ties that come before
ProjectedSource(earlier, s) ==
    CASE s = None -> None
      [] s # None /\ s.type = "GROUP_POSITION" ->
           IF HasData(s.group) THEN AtPlace(s.group, s.position) ELSE None
      [] s # None /\ s.type = "BEST_RANKED" ->
           IF \E g \in Groups : HasData(g)
             THEN BestThird([g \in Groups |-> AtPlace(g, ThirdPlace)], s.winnerGroup)
             ELSE None
      [] s # None /\ s.type = "MATCH_WINNER" ->
           IF s.tie \in DOMAIN earlier THEN earlier[s.tie].winner ELSE None
      [] s # None /\ s.type = "MATCH_LOSER" ->
           LET p == IF s.tie \in DOMAIN earlier THEN earlier[s.tie]
                    ELSE [home |-> None, away |-> None, winner |-> None]
           IN IF None \in {p.home, p.away, p.winner} THEN None
              ELSE IF p.winner = p.home THEN p.away ELSE p.home

\* projectBracket, of the first n ties
Projection[n \in 0 .. Len(TieOrder)] ==
    IF n = 0 THEN [t \in {} |-> None]
    ELSE LET earlier == Projection[n - 1]
             t == TieOrder[n]
             side(s) == IF ties[t][s] # None THEN ties[t][s]
                        ELSE ProjectedSource(earlier, Source[t][s])
         IN [u \in DOMAIN earlier \cup {t} |->
               IF u = t THEN [home |-> side("home"), away |-> side("away"),
                              winner |-> WinnerOrLeader(t)]
               ELSE earlier[u]]

-----------------------------------------------------------------------------
(* resolveSeason. *)

\* What a pass holds of a tie: its columns and its legs when the pass began.
Taken(t) == [tie |-> t, row |-> ties[t],
             legs |-> [k \in DOMAIN Legs[t] |-> matches[Legs[t][k]]]]

\* Faulty variant: a tie that has a winner is not recomputed.
DecidedOnce(x, home, away) == [x.row EXCEPT !.home = home, !.away = away,
    !.winner = IF @ = None /\ Decidable(home, away, x.legs)
               THEN Aggregate(home, away, x.legs).winner ELSE @]

\* The columns a tie is to have, from what was read of it.
Wanted(x, home, away) ==
    LET agg == IF Decidable(home, away, x.legs)
               THEN Aggregate(home, away, x.legs) ELSE x.row
    IN  [x.row EXCEPT !.home = home, !.away = away, !.aggHome = agg.aggHome,
                      !.aggAway = agg.aggAway, !.winner = agg.winner,
                      !.resolution = agg.resolution]

\* The slots of the legs that were empty and the tie can fill: <<leg, side>>.
Slots(x, home, away) ==
    {f \in (DOMAIN x.legs) \X {"home", "away"} :
        x.legs[f[1]][f[2]] = None /\ Mirrored(f[1], home, away)[f[2]] # None}

\* Something of the tie is awaited: a feeder, or a write.  The others are passed
\* over in the step that reaches them.
Awaits(x) ==
    \/ \E side \in {"home", "away"} :
         x.row[side] = None /\ Source[x.tie][side] # None
    \/ Wanted(x, x.row.home, x.row.away) # x.row
    \/ Slots(x, x.row.home, x.row.away) # {}

\* the first of the ties left, in the order of the bracket
Place(t) == CHOOSE i \in DOMAIN TieOrder : TieOrder[i] = t
First(left) == CHOOSE x \in left : \A y \in left : Place(x.tie) <= Place(y.tie)

Again(s) == s.changed /\ s.n < MaxPasses

\* resolvePass goes on with the ties still left, or there is a further pass, or
\* resolveSeason ends.
Proceed(r, s) ==
    /\ resolver' = [resolver EXCEPT ![r] =
         IF s.left # {} THEN s
         ELSE IF Again(s) THEN [pc |-> "due", n |-> s.n] ELSE Idle]
    /\ dirty' = (dirty /\ ~(s.left = {} /\ ~Again(s) /\ s.fresh))

\* resolvePass: n numbers the passes, left are the ties still to be taken, fresh
\* (a history) says that no result has changed since they were read.
PassStart(r) ==
    /\ resolver[r].pc = "due"
    /\ Proceed(r, [pc |-> "tie", n |-> resolver[r].n + 1, changed |-> FALSE,
                   fresh |-> TRUE,
                   left |-> {x \in {Taken(t) : t \in Ties} : Awaits(x)}])
    /\ UNCHANGED <<matches, ties, rewrites, overtaken>>

\* On to the next tie.
Advance(r, s, changed) ==
    Proceed(r, [pc |-> "tie", n |-> s.n, changed |-> changed, fresh |-> s.fresh,
                left |-> s.left \ {First(s.left)}])

Participant(x, side) == IF x.row[side] # None THEN x.row[side]
                        ELSE Feeder(Source[x.tie][side])

\* What a pass does of a tie once it knows its participants.
TieRead(r, s, x, home, away) ==
    LET writes == Wanted(x, home, away) # x.row
    IN  IF ~writes /\ Slots(x, home, away) = {}
        THEN Advance(r, s, s.changed)
        ELSE /\ resolver' = [resolver EXCEPT ![r] =
                  [pc |-> IF writes THEN "write" ELSE "mirror", n |-> s.n,
                   changed |-> s.changed, fresh |-> s.fresh, left |-> s.left,
                   home |-> home, away |-> away]]
             /\ UNCHANGED dirty

\* The participants of the next tie: those it has, else what the feeders give.
ReadFeeders(r) ==
    LET x == First(resolver[r].left)
    IN  /\ resolver[r].pc = "tie"
        /\ TieRead(r, resolver[r], x, Participant(x, "home"), Participant(x, "away"))
        /\ UNCHANGED <<matches, ties, rewrites, overtaken>>

\* Only the columns that differ from what was read are written.
Patched(row, read, wanted) ==
    [c \in DOMAIN row |-> IF wanted[c] # read[c] THEN wanted[c] ELSE row[c]]

WriteTie(r) ==
    LET s == resolver[r]
        x == First(s.left)
        after == [s EXCEPT !.pc = "mirror", !.changed = TRUE]
    IN  /\ s.pc = "write"
        /\ ties' = [ties EXCEPT ![x.tie] =
                      Patched(@, x.row, Wanted(x, s.home, s.away))]
        /\ IF Slots(x, s.home, s.away) = {} THEN Advance(r, s, TRUE)
           ELSE resolver' = [resolver EXCEPT ![r] = after] /\ UNCHANGED dirty
        /\ UNCHANGED <<matches, rewrites, overtaken>>

\* mirrorToMatches, the two legs in one step.
Mirror(r) ==
    LET s == resolver[r]
        x == First(s.left)
        legs == Legs[x.tie]
        Team(m, side) ==
            LET fills == {f \in Slots(x, s.home, s.away) :
                            legs[f[1]] = m /\ f[2] = side}
            IN  IF fills = {} THEN matches[m][side]
                ELSE Mirrored((CHOOSE f \in fills : TRUE)[1], s.home, s.away)[side]
    IN  /\ s.pc = "mirror"
        /\ matches' = [m \in Matches |-> [matches[m] EXCEPT !.home = Team(m, "home"),
                                                             !.away = Team(m, "away")]]
        /\ Advance(r, s, TRUE)
        /\ UNCHANGED <<ties, rewrites, overtaken>>

ResolverStep(r) == PassStart(r) \/ ReadFeeders(r) \/ WriteTie(r) \/ Mirror(r)

-----------------------------------------------------------------------------
(* The results. *)

\* A match gets the result res; next is what its writer does afterwards.
ResultWritten(a, m, res, next) ==
    /\ rewrites' = rewrites + (IF matches[m].result = None THEN 0 ELSE 1)
    /\ overtaken' = \/ overtaken
                    \/ rewrites' > 0 /\ (\E b \in Actors : resolver[b] # Idle)
    /\ matches' = [matches EXCEPT ![m].result = res]
    /\ dirty' = TRUE
    /\ resolver' = [b \in Actors |->
         IF b = a THEN next
         ELSE IF "fresh" \in DOMAIN resolver[b]
              THEN [resolver[b] EXCEPT !.fresh = FALSE] ELSE resolver[b]]
    /\ UNCHANGED ties

\* The robot or the admin finishes a match whose teams are known, and resolves.
Finish(a, m) ==
    /\ resolver[a].pc = "idle"
    /\ None \notin {matches[m].home, matches[m].away}
    /\ matches[m].result = None
    /\ \E res \in ResultsOf[m] :
         ResultWritten(a, m, res, [pc |-> "due", n |-> 0])

\* The admin changes the result of a finished match, and resolves.
Correct(m) ==
    /\ "admin" \in Actors
    /\ resolver["admin"].pc = "idle"
    /\ matches[m].result # None
    /\ rewrites < MaxChanges
    /\ \E res \in ResultsOf[m] \ {matches[m].result} :
         ResultWritten("admin", m, res, [pc |-> "due", n |-> 0])

\* The robot corrects a finished match.  It resolves when a shootout lands, and
\* after a corrected score it does not; it never takes a shootout back.
RobotCorrects(m) ==
    LET old == matches[m].result
    IN  /\ "robot" \in Actors
        /\ resolver["robot"].pc = "idle"
        /\ old # None
        /\ rewrites < MaxChanges
        /\ \E res \in ResultsOf[m] \ {old} :
             /\ res.pens = None => old.pens = None
             /\ ResultWritten("robot", m, res,
                              IF res.pens # old.pens THEN [pc |-> "due", n |-> 0]
                              ELSE Idle)

\* The process dies.
Crash ==
    /\ Faults
    /\ resolver' = [a \in Actors |-> Idle]
    /\ dirty' = (dirty \/ \E a \in Actors : resolver[a] # Idle)
    /\ UNCHANGED <<matches, ties, rewrites, overtaken>>

BracketNext ==
    \/ \E a \in Actors : ResolverStep(a)
    \/ \E a \in Actors, m \in Matches : Finish(a, m)
    \/ \E m \in Matches : Correct(m) \/ RobotCorrects(m)
    \/ Crash

BracketSpec == BracketInit /\ [][BracketNext]_bracketVars

-----------------------------------------------------------------------------
(* Properties. *)

\* Nobody is resolving, and a resolveSeason has seen every result.
AtRest == ~dirty /\ \A a \in Actors : resolver[a] = Idle

\* At rest, the outcome of every tie is that of its legs as they stand, however
\* the robot's and the admin's resolveSeason overlap and whatever was corrected,
\* unless two of them overlap after a result was changed: the one that holds what
\* it read before the change may then be the last one to write.
WinnersStand ==
    AtRest /\ ~overtaken => \A t \in Ties :
        LET legs == Taken(t).legs
            row == ties[t]
            Scored(team, k) == IF legs[k].home = team THEN legs[k].result.home
                               ELSE legs[k].result.away
            Total(team) == SumOf([k \in DOMAIN legs |-> Scored(team, k)])
            Shootout(team) == LET last == legs[Len(legs)]
                              IN  last.result.pens # None
                                  /\ last[last.result.pens] = team
        IN  Decidable(row.home, row.away, legs) =>
              /\ row.aggHome = Total(row.home)
              /\ row.aggAway = Total(row.away)
              /\ \A team, other \in {row.home, row.away} :
                   team # other =>
                     (row.winner = team <=>
                        \/ Total(team) > Total(other)
                        \/ Total(team) = Total(other) /\ Shootout(team))

SlotsMatchFeeders ==
    \A t \in Ties :
        /\ Seeded[t].home = None => ties[t].home = Feeder(Source[t].home)
        /\ Seeded[t].away = None => ties[t].away = Feeder(Source[t].away)

LegsMatchTie ==
    \A t \in Ties : \A k \in DOMAIN Legs[t] :
        LET leg == matches[Legs[t][k]]
        IN  IF k = 2 THEN leg.home = ties[t].away /\ leg.away = ties[t].home
            ELSE leg.home = ties[t].home /\ leg.away = ties[t].away

\* At rest the bracket is complete: as long as no result was changed a slot has the
\* team its feeder gives, and is empty only while it gives none; and the legs are
\* between the tie's teams, the second one at the other's home - two resolveSeason
\* that overlap agree on whom they mirror, unless a result was changed.
SlotsFollow ==
    AtRest => /\ rewrites = 0 => SlotsMatchFeeders
              /\ ~overtaken => LegsMatchTie

\* The pages' bracket never contradicts the draw: once a feeder gives a team - its
\* group is over, its tie decided - the projection shows that very team in the slot,
\* also before resolveSeason fills it and while it is under way.  (A tie that waits
\* for one ordered after it is projected empty.)
ProjectionMeetsDraw ==
    \A i \in DOMAIN TieOrder : \A side \in {"home", "away"} :
        LET t == TieOrder[i]
            s == Source[t][side]
            ordered == s # None /\ "tie" \in DOMAIN s => \E j \in 1 .. i - 1 : TieOrder[j] = s.tie
        IN (ties[t][side] = None /\ s # None /\ ordered /\ Feeder(s) # None) =>
              Projection[Len(TieOrder)][t][side] = Feeder(s)

=============================================================================
