---------------------------- MODULE SeasonFrame ----------------------------
(***************************************************************************)
(* What the scripts that load a season write before its matches: the       *)
(* season and its period, its stages, groups and rounds, and the clubs of  *)
(* each group (prisma/seed-libertadores.ts, seed-copa-sudamericana.ts,     *)
(* seed-copa-do-brasil.ts, seed-brasileirao.ts, seed-serie-b.ts).  A       *)
(* script is run again as its sources move and as it is itself rewritten;  *)
(* it finds each row or creates it, so a throw leaves a prefix.  Ties and  *)
(* matches are CupSeed's and LeagueSeed's; crests, zones, stadiums and a   *)
(* list without any match are left out.                                    *)
(***************************************************************************)
EXTENDS Common, SequencesExt

CONSTANTS
    Versions,    \* KNOCKOUT as successive versions of a script have it: sequences of
                 \* [name, legs, order]
    FrameGroups, \* the groups ESPN's standings may show: functions from letters to sets
                 \* of clubs
    FrameDays,   \* the days matches may be set for
    Newcomer,    \* a club seed-clubs has not loaded yet
    InEvents,    \* the clubs in the matches; the standings may show others
    LeagueRounds,\* the rounds of a league
    MaxShifts    \* bound on the changes of the sources

Clubs(table) == UNION {table[l] : l \in DOMAIN table}
AllClubs == UNION {Clubs(table) : table \in FrameGroups}

\* A round is found by its name.
ASSUME SeasonFrameAssumption ==
    /\ Versions \in Seq(Seq([name : STRING, legs : {1, 2}, order : Nat])) /\ Versions # <<>>
    /\ \A v \in DOMAIN Versions : \A r, s \in DOMAIN Versions[v] :
         (\/ Versions[v][r].name = Versions[v][s].name
          \/ Versions[v][r].order = Versions[v][s].order) => r = s
    /\ IsFiniteSet(AllClubs) /\ \A table \in FrameGroups : IsFiniteSet(DOMAIN table)
    /\ FrameDays \subseteq Nat /\ IsFiniteSet(FrameDays) /\ FrameDays # {}
    /\ InEvents \subseteq AllClubs /\ LeagueRounds \in Nat /\ MaxShifts \in Nat

VARIABLES
    edition,    \* which script
    version,    \* the version it is at
    source,     \* what its sources say: [groups, days, announced]; the period ge announces
                \* for the edition, the Série A's, need not be the one of its matches
    shifts,     \* how often they changed
    catalogue,  \* the clubs in the database
    references, \* those with ge's reference (the Série A's)
    season,     \* the row: None or [first, last], the days of its period
    stageRows, groupRows, roundRows,
                \* the stages; the clubs by group; [legs, order] by round
    framing,    \* the run under way: [source, version, clubs, fetched, left], None without
                \* one; fetched: nothing is left to be read of the sources
    framed,     \* history: the last run, if it completed
    shifted     \* history: the clubs ESPN has moved to another group

frameVars == <<edition, version, source, shifts, catalogue, references, season, stageRows,
               groupRows, roundRows, framing, framed, shifted>>
frameRows == <<season, stageRows, groupRows, roundRows, references>>

Cups == {"libertadores", "sudamericana", "copa_do_brasil"}
Tables == {"serie_a", "serie_b"}
Grouped == {"libertadores", "sudamericana"}
Periods == {p \in [first : FrameDays, last : FrameDays] : p.first <= p.last}

FrameInit ==
    /\ edition \in Cups \cup Tables
    /\ version = 1 /\ shifts = 0
    /\ source \in [groups : FrameGroups, days : (SUBSET FrameDays) \ {{}}, announced : Periods \cup {None}]
    /\ source.announced # None <=> edition = "serie_a"
    /\ catalogue \in {AllClubs, AllClubs \ {Newcomer}} /\ references = {}
    /\ season = None /\ stageRows = {} /\ groupRows = <<>> /\ roundRows = <<>>
    /\ framing = None /\ framed = None /\ shifted = {}

-----------------------------------------------------------------------------
(* Faulty variants, for testing the property. *)

\* a round that is there is left as it is
RoundFound(rounds, r) == [name \in DOMAIN rounds \cup {r.name} |->
    IF name \in DOMAIN rounds THEN rounds[name] ELSE [legs |-> r.legs, order |-> r.order]]

-----------------------------------------------------------------------------
(* What surrounds the scripts. *)

GroupOf(table, club) == {l \in DOMAIN table : club \in table[l]}

SourcesMove ==
    /\ shifts < MaxShifts /\ shifts' = shifts + 1
    /\ \/ \E table \in FrameGroups \ {source.groups} :
            /\ source' = [source EXCEPT !.groups = table]
            /\ shifted' = shifted \cup {c \in Clubs(source.groups) : GroupOf(source.groups, c) # GroupOf(table, c)}
       \/ \E days \in (SUBSET FrameDays) \ {{}, source.days} :
            source' = [source EXCEPT !.days = days] /\ UNCHANGED shifted
       \/ \E period \in Periods \ {source.announced} :
            edition = "serie_a" /\ source' = [source EXCEPT !.announced = period] /\ UNCHANGED shifted
    /\ UNCHANGED <<edition, version, catalogue, frameRows, framing, framed>>

ScriptIsRewritten ==
    /\ version < Len(Versions) /\ framing = None
    /\ version' = version + 1
    /\ UNCHANGED <<edition, source, shifts, catalogue, frameRows, framing, framed, shifted>>

NewcomerLoaded ==
    /\ catalogue # AllClubs
    /\ catalogue' = AllClubs
    /\ UNCHANGED <<edition, version, source, shifts, frameRows, framing, framed, shifted>>

-----------------------------------------------------------------------------
(* The writes of a run, by script.  "read" is what the run fetched first, and *)
(* "clubs" the clubs of the catalogue then.                                  *)

\* dayUtc: the days of the first and of the last match
Span(days) == [first |-> Min(days), last |-> Max(days)]

SeasonWrite(period) == [to |-> "season", period |-> period]
Each(S, Make(_)) == [i \in DOMAIN SetToSeq(S) |-> Make(SetToSeq(S)[i])]

\* groupTeam.upsert
ClubsOfGroup(letter, clubs) == Each(clubs, LAMBDA c : [to |-> "club", group |-> letter, club |-> c])

\* fetchGroups: ESPN's standings; a club it shows that the catalogue lacks is passed over
GroupWrites(table, clubs) ==
    FlattenSeq(Each(DOMAIN table, LAMBDA l :
      << [to |-> "group", group |-> l] >> \o ClubsOfGroup(l, table[l] \cap clubs)))

RoundWrites(rounds) ==
    << [to |-> "stage", stage |-> "knockout"] >>
      \o [i \in DOMAIN rounds |-> [to |-> "round", round |-> rounds[i]]]

\* Up to the standings, which are fetched once the season and the stage are written, ...
LibertadoresWrites(read) ==
    << SeasonWrite(Span(read.days)), [to |-> "stage", stage |-> "groups"], [to |-> "fetch"] >>

SudamericanaWrites(read) ==
    << SeasonWrite(Span(read.days)), [to |-> "stage", stage |-> "groups"], [to |-> "fetch"] >>

\* ... and from there on.
StandingsWrites(table, clubs, v) == GroupWrites(table, clubs) \o RoundWrites(Versions[v])

\* The clubs it lacks are created: CupSeed's.
CopaDoBrasilWrites(read, v) == << SeasonWrite(Span(read.days)) >> \o RoundWrites(Versions[v])

\* A league is one group, "table", of all its clubs.
TableWrites(clubs) ==
    << [to |-> "stage", stage |-> "table"], [to |-> "group", group |-> "table"] >>
      \o ClubsOfGroup("table", clubs)

NumberedRounds ==
    [n \in 1 .. LeagueRounds |-> [to |-> "round", round |-> [name |-> n, legs |-> 1, order |-> n]]]

\* The period is the one ge announces.  Its references are stored club by club; the run
\* throws after the last if it has met one that is missing.
SerieAWrites(read, clubs) ==
    << SeasonWrite(read.announced) >>
      \o Each(AllClubs \cap clubs, LAMBDA c : [to |-> "reference", club |-> c])
      \o IF AllClubs \subseteq clubs THEN TableWrites(AllClubs) \o NumberedRounds
           ELSE << [to |-> "throw"] >>

SerieBWrites(read, clubs) == << SeasonWrite(Span(read.days)) >> \o TableWrites(InEvents) \o NumberedRounds

FrameWrites(read, clubs, v) ==
    CASE edition = "libertadores" -> LibertadoresWrites(read)
      [] edition = "sudamericana" -> SudamericanaWrites(read)
      [] edition = "copa_do_brasil" -> CopaDoBrasilWrites(read, v)
      [] edition = "serie_a" -> SerieAWrites(read, clubs)
      [] edition = "serie_b" -> SerieBWrites(read, clubs)

-----------------------------------------------------------------------------
(* The runs. *)

\* Those that need every club throw before the first write.
FrameStarts ==
    /\ framing = None
    /\ edition \in Grouped \cup {"serie_b"} => InEvents \subseteq catalogue
    /\ framing' = [source |-> source, version |-> version, clubs |-> catalogue,
                   fetched |-> edition \notin Grouped,
                   left |-> FrameWrites(source, catalogue, version)]
    /\ framed' = None
    /\ UNCHANGED <<edition, version, source, shifts, catalogue, frameRows, shifted>>

\* A round is created, or brought to the legs and the order it has now.
RoundWritten(rounds, r) == [name \in DOMAIN rounds \cup {r.name} |->
    IF name = r.name THEN [legs |-> r.legs, order |-> r.order] ELSE rounds[name]]

\* A group is found or created, without clubs.
GroupWritten(rows, l) == [k \in DOMAIN rows \cup {l} |-> IF k \in DOMAIN rows THEN rows[k] ELSE {}]

\* ESPN's standings as they are now
StandingsFetched ==
    /\ framing # None /\ framing.left # <<>> /\ Head(framing.left).to = "fetch"
    /\ framing' = [framing EXCEPT !.source.groups = source.groups, !.fetched = TRUE,
                      !.left = StandingsWrites(source.groups, framing.clubs, framing.version)]
    /\ UNCHANGED <<edition, version, source, shifts, catalogue, frameRows, framed, shifted>>

FrameStep ==
    /\ framing # None /\ framing.left # <<>> /\ Head(framing.left).to \notin {"throw", "fetch"}
    /\ LET w == Head(framing.left) IN
         /\ season' = IF w.to = "season" THEN w.period ELSE season
         /\ stageRows' = IF w.to = "stage" THEN stageRows \cup {w.stage} ELSE stageRows
         /\ groupRows' = CASE w.to = "group" -> GroupWritten(groupRows, w.group)
                           [] w.to = "club" -> [groupRows EXCEPT ![w.group] = @ \cup {w.club}]
                           [] OTHER -> groupRows
         /\ roundRows' = IF w.to = "round" THEN RoundWritten(roundRows, w.round) ELSE roundRows
         /\ references' = IF w.to = "reference" THEN references \cup {w.club} ELSE references
    /\ framing' = [framing EXCEPT !.left = Tail(@)]
    /\ UNCHANGED <<edition, version, source, shifts, catalogue, framed, shifted>>

FrameEnds ==
    /\ framing # None /\ framing.left = <<>>
    /\ framing' = None /\ framed' = [framing EXCEPT !.left = <<>>]
    /\ UNCHANGED <<edition, version, source, shifts, catalogue, frameRows, shifted>>

FrameThrows ==
    /\ framing # None
    /\ Faults \/ (framing.left # <<>> /\ Head(framing.left).to = "throw")
    /\ framing' = None
    /\ UNCHANGED <<edition, version, source, shifts, catalogue, frameRows, framed, shifted>>

FrameNext ==
    \/ SourcesMove \/ ScriptIsRewritten \/ NewcomerLoaded
    \/ FrameStarts \/ StandingsFetched \/ FrameStep \/ FrameEnds \/ FrameThrows

FrameSpec == FrameInit /\ [][FrameNext]_frameVars

-----------------------------------------------------------------------------
(* Properties. *)

\* The rounds of the bracket in the order they are played, and so the weights of
\* their bets, and the clubs of each group are those of the last completed run, and
\* its season spans the matches - the Série A's the period ge announces - whatever was
\* left by the throws and by the versions before, save a club ESPN has moved, which
\* stays in its old group too.
FrameIsCurrent ==
    (framing = None /\ framed # None) =>
       /\ season = IF edition = "serie_a" THEN framed.source.announced ELSE Span(framed.source.days)
       /\ edition \in Cups =>
            \A r \in ToSet(Versions[framed.version]) :
               roundRows[r.name] = [legs |-> r.legs, order |-> r.order]
       /\ edition \in Grouped =>
            LET table == framed.source.groups IN
            \A l \in DOMAIN table :
               /\ table[l] \cap framed.clubs \subseteq groupRows[l]
               /\ groupRows[l] \ table[l] \subseteq shifted
       /\ edition \in Tables =>
            /\ groupRows["table"] = IF edition = "serie_a" THEN AllClubs ELSE InEvents
            /\ DOMAIN roundRows = 1 .. LeagueRounds
            /\ edition = "serie_a" => references = AllClubs
=============================================================================
