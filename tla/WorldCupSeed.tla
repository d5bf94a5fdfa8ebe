---------------------------- MODULE WorldCupSeed ----------------------------
(***************************************************************************)
(* prisma/seed.ts, which writes the World Cup's match card, and            *)
(* prisma/seed-wc-structure.ts, which drops the season's stages and builds *)
(* them again from the matches: after every seed, or by itself.  A run     *)
(* writes row by row and a throw leaves a prefix of its writes, while the  *)
(* robot plays the matches, the season refresh moves them and the bracket  *)
(* is resolved.  Stadiums, hours and names are left out; the teams are in  *)
(* the catalogue.                                                          *)
(***************************************************************************)
EXTENDS Common, SequencesExt

CONSTANTS
    Card,       \* the match card by match number: [phase, group, home, away, day,
                \* homeFrom, awayFrom]; a knockout match has no group and no teams, and
                \* "from" is what its label says: [says |-> "place", group, position],
                \* [says |-> "third", groups], [says |-> "winner" or "loser", match]
    KoOrder,    \* KO_ORDER, the knockout phases in order
    TableOf,    \* the clubs of each group as the results will rank them
    MaxSeeds,   \* bound on the runs of the scripts
    MaxRefresh  \* bound on the moves of the season refresh

Numbers == DOMAIN Card
GroupNumbers == {n \in Numbers : Card[n].phase = "Fase de Grupos"}
KoNumbers == Numbers \ GroupNumbers
Letters == {Card[n].group : n \in GroupNumbers}
Sorted(S) == InOrder([n \in S |-> {m \in S : m < n}])

TeamsOf(letter) == ToSet(TableOf[letter])
AllTeams == UNION {TeamsOf(l) : l \in Letters}
OfCard(letter) == {n \in GroupNumbers : Card[n].group = letter}

\* What a label of the card says, and what a rebuild makes of it.
Labels ==
    [says : {"place"}, group : Letters, position : 1 .. 4]
    \cup [says : {"third"}, groups : (SUBSET Letters) \ {{}}]
    \cup [says : {"winner", "loser"}, match : KoNumbers]
Sources ==
    [type : {"place"}, group : Letters, position : 1 .. 4]
    \cup [type : {"third"}, groups : (SUBSET Letters) \ {{}}, faces : Letters \cup {None}]
    \cup [type : {"winner", "loser"}, tie : Nat]

\* A match row and a tie.  A round is known by its stage and its name.
WcRow == [home : AllTeams \cup {None}, away : AllTeams \cup {None}, day : Nat,
          won : {None, "home", "away"}, stage : {None, "groups", "knockout"},
          group : Letters \cup {None}, tie : Nat \cup {None},
          round : {None} \cup ({"groups"} \X (1 .. 3)) \cup ({"knockout"} \X ToSet(KoOrder))]
WcTie == [of : KoNumbers, home : AllTeams \cup {None}, away : AllTeams \cup {None},
          homeSource : Sources \cup {None}, awaySource : Sources \cup {None}]

FacesWinner(label, other) == label.says = "third" => other.says = "place" /\ other.position = 1

\* A group has four clubs and at most three matchdays of two; a best third faces the
\* winner of a group.
ASSUME WorldCupAssumption ==
    /\ Numbers \subseteq Nat /\ IsFiniteSet(Numbers) /\ KoOrder \in Seq(STRING)
    /\ \A n \in Numbers : Card[n].day \in Nat
    /\ \A n \in GroupNumbers : {Card[n].home, Card[n].away} \subseteq TeamsOf(Card[n].group)
    /\ \A l \in Letters : DOMAIN TableOf[l] = 1 .. 4 /\ Cardinality(OfCard(l)) \in {2, 4, 6}
    /\ \A n \in KoNumbers :
          /\ Card[n].phase \in ToSet(KoOrder)
          /\ Card[n].home = None /\ Card[n].away = None
          /\ {Card[n].homeFrom, Card[n].awayFrom} \subseteq Labels
          /\ FacesWinner(Card[n].homeFrom, Card[n].awayFrom)
          /\ FacesWinner(Card[n].awayFrom, Card[n].homeFrom)
    /\ None \notin Letters \cup AllTeams \cup {"home", "away"} /\ None \notin Nat /\ None # <<>>
    /\ None \notin Sources /\ None \notin WcRow
    /\ MaxSeeds \in Nat /\ MaxRefresh \in Nat

VARIABLES
    wcRows,    \* the match rows: None or [home, away, day, won, stage, group, round, tie]
    stages,    \* the season's stages
    groups,    \* the clubs of each group, by letter
    rounds,    \* the rounds, as <<stage, name>>
    wcTies,    \* the ties, by their order in the knockout stage
    seeding,   \* the run under way: the writes it has left, None without one
    seeds,     \* the runs started
    refreshes, \* the moves of the season refresh
    rebuilt    \* history: the last run completed

wcVars == <<wcRows, stages, groups, rounds, wcTies, seeding, seeds, refreshes, rebuilt>>
structureVars == <<stages, groups, rounds, wcTies>>

WorldCupInit ==
    /\ wcRows = [n \in Numbers |-> None]
    /\ stages = {} /\ groups = <<>> /\ rounds = {} /\ wcTies = <<>>
    /\ seeding = None /\ seeds = 0 /\ refreshes = 0 /\ rebuilt = FALSE

-----------------------------------------------------------------------------
(* Faulty variants, for testing the property. *)

\* a tie is found by its order instead of the number of its match
TieByOrder(read, n) == IF n \in 1 .. Cardinality(KoNumbers \cap read) THEN n ELSE None

-----------------------------------------------------------------------------
(* What a rebuild makes of the matches it read: a function of match number. *)

\* koMatches in the order of their numbers, one tie each
KoRead(rows) == Sorted({n \in KoNumbers : rows[n] # None})

\* tieByMatchNumber
TieOfNumber(read, n) ==
    IF n \in KoNumbers \cap read
      THEN Cardinality({k \in KoNumbers \cap read : k <= n}) ELSE None

LettersRead(rows) == {Card[n].group : n \in {k \in GroupNumbers : rows[k] # None}}

\* the matches of a group by kickoff; those of one day by number
OwnMatches(rows, letter) == {n \in OfCard(letter) : rows[n] # None}
AheadInGroup(rows, letter) ==
    [n \in OwnMatches(rows, letter) |->
       {m \in OwnMatches(rows, letter) :
          rows[m].day < rows[n].day \/ (rows[m].day = rows[n].day /\ m < n)}]
DateOrder(rows, letter) == InOrder(AheadInGroup(rows, letter))

\* parseFeeder: None for what the season does not have
Source(rows, from) ==
    LET read == {n \in Numbers : rows[n] # None}
        \* the letters with a group
        known == LettersRead(rows)
    IN CASE from.says \in {"winner", "loser"} ->
              IF TieOfNumber(read, from.match) # None
                THEN [type |-> from.says, tie |-> TieOfNumber(read, from.match)] ELSE None
         [] from.says = "place" ->
              IF from.group \in known
                THEN [type |-> "place", group |-> from.group, position |-> from.position]
                ELSE None
         [] from.says = "third" ->
              IF known # {} THEN [type |-> "third", groups |-> from.groups, faces |-> None]
                ELSE None

\* winnerLetterOf: a best third faces the winner of a group
Faces(source, other) ==
    IF source # None /\ source.type = "third"
         /\ other # None /\ other.type = "place" /\ other.position = 1
      THEN [source EXCEPT !.faces = other.group] ELSE source

\* the matchday of the i-th match of a group, null past the third
Matchday(i) == IF i <= 6 THEN <<"groups", (i - 1) \div 2 + 1>> ELSE None
MatchdayWrites(rows, letter) ==
    LET order == DateOrder(rows, letter)
    IN [i \in DOMAIN order |->
          [to |-> "matchday", at |-> order[i], group |-> letter, round |-> Matchday(i)]]

\* the members of a group, from its matches
TeamSet(rows, letter) ==
    (UNION {{rows[n].home, rows[n].away} : n \in OwnMatches(rows, letter)}) \ {None}
MemberWrites(rows, letter) ==
    LET teams == SetToSeq(TeamSet(rows, letter))
    IN [i \in DOMAIN teams |-> [to |-> "club", group |-> letter, club |-> teams[i]]]

GroupStageWrites(rows) ==
    LET letters == SetToSeq(LettersRead(rows))
    IN IF letters = <<>> THEN <<>>
         ELSE << [to |-> "stage", stage |-> "groups"] >>
              \o [i \in DOMAIN letters |-> [to |-> "group", group |-> letters[i]]]
              \o [d \in 1 .. 3 |-> [to |-> "round", round |-> <<"groups", d>>]]
              \o FlattenSeq([i \in DOMAIN letters |-> MatchdayWrites(rows, letters[i])])
              \o FlattenSeq([i \in DOMAIN letters |-> MemberWrites(rows, letters[i])])

\* the phases of the matches, in the order of KO_ORDER
PhasesRead(rows) ==
    {r \in DOMAIN KoOrder : \E n \in KoNumbers : rows[n] # None /\ Card[n].phase = KoOrder[r]}

\* the second pass over a knockout match: its sources, and its link
FeedersWrite(rows, n) ==
    LET home == Source(rows, Card[n].homeFrom)
        away == Source(rows, Card[n].awayFrom)
    IN [to |-> "feeders", at |-> n, homeSource |-> Faces(home, away),
        awaySource |-> Faces(away, home)]
SecondPass(rows, n) == << FeedersWrite(rows, n), [to |-> "leg", at |-> n] >>
TieCreated(rows, n) == [to |-> "tie", at |-> n, home |-> rows[n].home, away |-> rows[n].away]

KnockoutWrites(rows) ==
    LET ko == KoRead(rows)
        phases == Sorted(PhasesRead(rows))
    IN IF ko = <<>> THEN <<>>
         ELSE << [to |-> "stage", stage |-> "knockout"] >>
              \o [i \in DOMAIN phases |->
                    [to |-> "round", round |-> <<"knockout", KoOrder[phases[i]]>>]]
              \o [i \in DOMAIN ko |-> TieCreated(rows, ko[i])]
              \o FlattenSeq([i \in DOMAIN ko |-> SecondPass(rows, ko[i])])

-----------------------------------------------------------------------------
(* The scripts. *)

Rebuild == << [to |-> "drop"], [to |-> "read"] >>

\* The seed writes the card first; the rebuild also runs by itself.
SeedStarts ==
    /\ seeding = None /\ seeds < MaxSeeds /\ seeds' = seeds + 1
    /\ \/ seeding' = [i \in DOMAIN Sorted(Numbers) |->
                        [to |-> "upsert", at |-> Sorted(Numbers)[i]]] \o Rebuild
       \/ seeding' = Rebuild
    /\ rebuilt' = FALSE
    /\ UNCHANGED <<wcRows, structureVars, refreshes>>

\* the links go with the stages
Unlinked(r) == [r EXCEPT !.stage = None, !.group = None, !.round = None, !.tie = None]

\* The row of an upsert: teams and day as the card has them, the rest untouched.
NewRow == [home |-> None, away |-> None, day |-> 0, won |-> None, stage |-> None,
           group |-> None, round |-> None, tie |-> None]
CardRow(n) ==
    [(IF wcRows[n] = None THEN NewRow ELSE wcRows[n]) EXCEPT
        !.home = Card[n].home, !.away = Card[n].away, !.day = Card[n].day]

WritesRow(w) ==
    CASE w.to = "upsert" ->
           /\ wcRows' = [wcRows EXCEPT ![w.at] = CardRow(w.at)]
           /\ UNCHANGED structureVars
      \* the stages cascade to all that hangs from them; the matches are unlinked
      [] w.to = "drop" ->
           /\ stages' = {} /\ groups' = <<>> /\ rounds' = {} /\ wcTies' = <<>>
           /\ wcRows' = [n \in Numbers |->
                           IF wcRows[n] = None THEN None ELSE Unlinked(wcRows[n])]
      [] w.to = "read" -> UNCHANGED <<wcRows, structureVars>>
      [] w.to = "stage" ->
           /\ stages' = stages \cup {w.stage}
           /\ UNCHANGED <<wcRows, groups, rounds, wcTies>>
      [] w.to = "round" ->
           /\ rounds' = rounds \cup {w.round}
           /\ UNCHANGED <<wcRows, stages, groups, wcTies>>
      [] w.to = "group" ->
           /\ groups' = [l \in DOMAIN groups \cup {w.group} |->
                           IF l = w.group THEN {} ELSE groups[l]]
           /\ UNCHANGED <<wcRows, stages, rounds, wcTies>>
      [] w.to = "club" ->
           /\ groups' = [groups EXCEPT ![w.group] = @ \cup {w.club}]
           /\ UNCHANGED <<wcRows, stages, rounds, wcTies>>
      [] w.to = "matchday" ->
           /\ wcRows' = [wcRows EXCEPT ![w.at].stage = "groups", ![w.at].group = w.group,
                                       ![w.at].round = w.round]
           /\ UNCHANGED structureVars
      [] w.to = "tie" ->
           /\ wcTies' = Append(wcTies, [of |-> w.at, home |-> w.home, away |-> w.away,
                                        homeSource |-> None, awaySource |-> None])
           /\ UNCHANGED <<wcRows, stages, groups, rounds>>
      [] w.to = "feeders" ->
           /\ wcTies' = [t \in DOMAIN wcTies |->
                           IF wcTies[t].of = w.at
                             THEN [wcTies[t] EXCEPT !.homeSource = w.homeSource,
                                                    !.awaySource = w.awaySource]
                             ELSE wcTies[t]]
           /\ UNCHANGED <<wcRows, stages, groups, rounds>>
      [] w.to = "leg" ->
           /\ wcRows' = [wcRows EXCEPT ![w.at].stage = "knockout",
                           ![w.at].round = <<"knockout", Card[w.at].phase>>,
                           ![w.at].tie = CHOOSE t \in DOMAIN wcTies : wcTies[t].of = w.at]
           /\ UNCHANGED structureVars

SeedWrites ==
    /\ seeding # None /\ seeding # <<>>
    /\ WritesRow(Head(seeding))
    /\ seeding' = IF Head(seeding).to = "read"
                    THEN GroupStageWrites(wcRows) \o KnockoutWrites(wcRows) ELSE Tail(seeding)
    /\ UNCHANGED <<seeds, refreshes, rebuilt>>

SeedEnds ==
    /\ seeding = <<>>
    /\ seeding' = None /\ rebuilt' = TRUE
    /\ UNCHANGED <<wcRows, structureVars, seeds, refreshes>>

SeedThrows ==
    /\ Faults /\ seeding # None
    /\ seeding' = None
    /\ UNCHANGED <<wcRows, structureVars, seeds, refreshes, rebuilt>>

-----------------------------------------------------------------------------
(* The others. *)

\* The group stage is played out, or a knockout match ends, once its teams are known.
MatchPlays(n) ==
    /\ wcRows[n] # None /\ wcRows[n].won = None
    /\ wcRows[n].home # None /\ wcRows[n].away # None
    /\ IF n \in GroupNumbers
         THEN wcRows' = [k \in Numbers |-> IF k \in GroupNumbers /\ wcRows[k] # None
                                             THEN [wcRows[k] EXCEPT !.won = "home"] ELSE wcRows[k]]
         ELSE \E side \in {"home", "away"} : wcRows' = [wcRows EXCEPT ![n].won = side]
    /\ UNCHANGED <<structureVars, seeding, seeds, refreshes, rebuilt>>

\* The season refresh moves a match of a group that has not been played; nothing here
\* reads the day of a knockout match.
Moved(n) ==
    /\ n \in GroupNumbers
    /\ refreshes < MaxRefresh /\ refreshes' = refreshes + 1
    /\ wcRows[n] # None /\ wcRows[n].won = None
    /\ \E d \in {Card[k].day : k \in GroupNumbers} \ {wcRows[n].day} :
         wcRows' = [wcRows EXCEPT ![n].day = d]
    /\ UNCHANGED <<structureVars, seeding, seeds, rebuilt>>

\* The winner of a match that was played between two teams, and the other one.
WinnerOf(n) ==
    IF wcRows[n].won = None THEN None ELSE wcRows[n][wcRows[n].won]
LoserOf(n) ==
    IF WinnerOf(n) = None THEN None
      ELSE IF wcRows[n].won = "home" THEN wcRows[n].away ELSE wcRows[n].home

GroupPlayed(letter) ==
    \A n \in OfCard(letter) : wcRows[n] # None /\ wcRows[n].won # None

\* the single leg of a tie
LinkedTo(t) == {n \in KoNumbers : wcRows[n] # None /\ wcRows[n].tie = t}
OnlyLeg(t) == CHOOSE n \in LinkedTo(t) : TRUE

\* What a feeder resolves to; Bracket has the resolver in full.
Resolves(source) ==
    IF source = None \/ (source.type \in {"winner", "loser"} /\ LinkedTo(source.tie) = {})
      THEN None
      ELSE CASE source.type = "winner" -> WinnerOf(OnlyLeg(source.tie))
             [] source.type = "loser" -> LoserOf(OnlyLeg(source.tie))
             [] source.type = "place" ->
                  IF GroupPlayed(source.group) THEN TableOf[source.group][source.position] ELSE None
             [] source.type = "third" ->
                  IF source.faces # None /\ \A l \in Letters : GroupPlayed(l)
                    THEN TableOf[CHOOSE l \in source.groups : TRUE][3] ELSE None

\* The tie as the resolver leaves it, and what it copies onto a match linked to it.
TieResolved(t) ==
    LET tie == wcTies[t]
    IN [tie EXCEPT !.home = IF @ = None THEN Resolves(tie.homeSource) ELSE @,
                   !.away = IF @ = None THEN Resolves(tie.awaySource) ELSE @]
RowResolved(n, tie) ==
    [wcRows[n] EXCEPT !.home = IF tie.home = None THEN @ ELSE tie.home,
                      !.away = IF tie.away = None THEN @ ELSE tie.away]

TeamsResolved(t) ==
    /\ t \in DOMAIN wcTies
    /\ wcTies' = [wcTies EXCEPT ![t] = TieResolved(t)]
    /\ wcRows' = [n \in Numbers |->
                    IF n \in LinkedTo(t) THEN RowResolved(n, TieResolved(t)) ELSE wcRows[n]]
    /\ <<wcTies, wcRows>>' # <<wcTies, wcRows>>
    /\ UNCHANGED <<stages, groups, rounds, seeding, seeds, refreshes, rebuilt>>

WorldCupNext ==
    \/ SeedStarts \/ SeedWrites \/ SeedEnds \/ SeedThrows
    \/ \E n \in Numbers : MatchPlays(n) \/ Moved(n)
    \/ \E t \in 1 .. Cardinality(KoNumbers) : TeamsResolved(t)

WorldCupSpec == WorldCupInit /\ [][WorldCupNext]_wcVars

-----------------------------------------------------------------------------
(* Properties. *)

\* The resolver has nothing left to do.
AllResolved ==
    \A t \in DOMAIN wcTies :
       /\ TieResolved(t) = wcTies[t]
       /\ \A n \in LinkedTo(t) : RowResolved(n, wcTies[t]) = wcRows[n]

\* What a label of the card says once the results are in.
Says(from) ==
    CASE from.says = "winner" -> WinnerOf(from.match)
      [] from.says = "loser" -> LoserOf(from.match)
      [] from.says = "place" ->
           IF GroupPlayed(from.group) THEN TableOf[from.group][from.position] ELSE None
      [] from.says = "third" ->
           IF \A l \in Letters : GroupPlayed(l)
             THEN TableOf[CHOOSE l \in from.groups : TRUE][3] ELSE None

\* A run that completes mends whatever the runs before it left: every match is in
\* the structure, two of each group on a matchday, every group has the clubs of its
\* matches, and once the bracket is resolved again every knockout match shows the
\* teams its labels call for, although the seed has erased those already known.
RebuildRecovers ==
    (seeding = None /\ rebuilt /\ \A n \in Numbers : wcRows[n] # None) =>
       /\ \A n \in GroupNumbers :
            /\ wcRows[n].group = Card[n].group
            /\ Cardinality({k \in GroupNumbers : wcRows[k].group = wcRows[n].group
                                                   /\ wcRows[k].round = wcRows[n].round}) = 2
            /\ {wcRows[n].home, wcRows[n].away} \subseteq groups[wcRows[n].group]
       /\ \A l \in DOMAIN groups : groups[l] \subseteq TeamsOf(l)
       /\ \A n \in KoNumbers : LinkedTo(wcRows[n].tie) = {n}
       /\ AllResolved =>
            \A n \in KoNumbers :
               /\ Says(Card[n].homeFrom) \in {None, wcRows[n].home}
               /\ Says(Card[n].awayFrom) \in {None, wcRows[n].away}
=============================================================================
