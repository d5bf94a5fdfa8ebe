----------------------------- MODULE SeedProofs -----------------------------
(***************************************************************************)
(* The scripts that load a season: the leagues', for any table and any     *)
(* changes of its sources; what all five write first, for any versions and *)
(* clubs; the cups', for any fixture, rounds and changes of ESPN's list;   *)
(* the World Cup's, for any card, and any cuts and edits between its runs. *)
(***************************************************************************)
EXTENDS LeagueSeed, CupSeed, SeasonFrame, WorldCupSeed, NumberProofs, FiniteSetTheorems,
        TLAPS

-----------------------------------------------------------------------------
(* The matches of a league.  The row a run writes is the one that shows the   *)
(* game it writes there: in the Série A by the place in the list, as long as  *)
(* ge keeps its order, in the Série B by the event.                           *)

LeagueTypes ==
    /\ division \in {"serie_a", "serie_b"} /\ reordered \in BOOLEAN
    /\ division = "serie_b" => reordered = FALSE
    /\ \E S : league \in Seq(S)
    /\ \A n \in DOMAIN league : \E g, r, s, e :
         league[n] = [game |-> g, round |-> r, status |-> s, event |-> e]
    /\ loader # None =>
         /\ loader.next \in Nat \ {0}
         /\ \E es, l, n, rs : loader = [entries |-> es, list |-> l, next |-> n, refs |-> rs]

\* The Série A's rows show the games of the list, in its order.
RowsAreListed ==
    division = "serie_a" =>
      /\ reordered = FALSE => \A n \in DOMAIN league : league[n].game = Entries[n].game
      /\ loader # None =>
           /\ reordered = FALSE => loader.entries = Entries
           /\ loader.next <= Len(league) + 1

\* The references a run holds are those of the rows, but for the links made since.
ReferencesAreHeld ==
    (division = "serie_a" /\ loader # None) => \A n \in DOMAIN league :
       n \in linkedNow \/ league[n].event = KeptReference(loader.refs, n, None)

\* The Série B's rows are linked to what they show.
EventsAreGames ==
    division = "serie_b" => \A n \in DOMAIN league : league[n].event = league[n].game

LeagueInv == LeagueTypes /\ RowsAreListed /\ ReferencesAreHeld /\ EventsAreGames

\* What a row gets, where it is and where it is new.
LEMMA RowIsPut ==
    ASSUME LeagueInv, NEW n, NEW row,
           IF n \in DOMAIN league THEN league' = [league EXCEPT ![n] = row]
             ELSE n = Len(league) + 1 /\ league' = Append(league, row)
    PROVE  /\ \E S : league' \in Seq(S)
           /\ Len(league) \in Nat /\ DOMAIN league = 1 .. Len(league)
           /\ Len(league') \in Nat /\ DOMAIN league' = 1 .. Len(league')
           /\ DOMAIN league' = DOMAIN league \cup {n} /\ Len(league') >= Len(league)
           /\ league'[n] = row
           /\ \A k \in DOMAIN league : k # n => league'[k] = league[k]
<1>1. PICK S : league \in Seq(S)
  BY DEF LeagueInv, LeagueTypes
<1>2. CASE n \in DOMAIN league
  <2>1. league \in Seq(S \cup {row}) /\ league' = [league EXCEPT ![n] = row]
    BY <1>1, <1>2
  <2>2. league' \in Seq(S \cup {row})
    BY <1>2, <2>1
  <2>3. Len(league) \in Nat /\ DOMAIN league = 1 .. Len(league)
    BY <1>1
  <2>4. DOMAIN league' = DOMAIN league /\ DOMAIN league' = 1 .. Len(league') /\ Len(league') \in Nat
    BY <2>1, <2>2
  <2>5. Len(league') = Len(league)
    <3>1. \A a, b \in Nat : 1 .. a = 1 .. b => a = b
      <4> TAKE a \in Nat, b \in Nat
      <4>1. (a \in 1 .. a \/ a = 0) /\ (b \in 1 .. b \/ b = 0)
        OBVIOUS
      <4>2. (a \in 1 .. b => a <= b) /\ (b \in 1 .. a => b <= a)
        OBVIOUS
      <4> QED
        BY <4>1, <4>2
    <3> QED
      BY <2>3, <2>4, <3>1
  <2>6. league'[n] = row /\ \A k \in DOMAIN league : k # n => league'[k] = league[k]
    BY <1>2, <2>1
  <2>7. DOMAIN league' = DOMAIN league \cup {n}
    BY <1>2, <2>4
  <2>8. \E T : league' \in Seq(T)
    BY <2>2
  <2>9. Len(league') >= Len(league)
    BY <2>3, <2>5
  <2> QED
    BY <2>3, <2>4, <2>6, <2>7, <2>8, <2>9
<1>3. CASE n \notin DOMAIN league
  <2>1. league \in Seq(S \cup {row}) /\ n = Len(league) + 1 /\ league' = Append(league, row)
    BY <1>1, <1>3
  <2>2. league' \in Seq(S \cup {row})
    BY <2>1
  <2> QED
    BY <1>1, <1>3, <2>1, <2>2
<1> QED
  BY <1>2, <1>3

LEMMA LoadsMatchKeeps ==
    ASSUME LeagueInv, LoadsMatch
    PROVE  /\ LeagueInv'
           /\ \A n \in DOMAIN league :
                /\ league'[n].game # league[n].game => reordered
                /\ (league'[n].event # league[n].event /\ league[n].event # None) => n \in linkedNow
<1> PICK entry, g, n, row :
      /\ entry = loader.entries[loader.next] /\ g = entry.game /\ n = RowFor(loader.next, g)
      /\ row = [game |-> g, round |-> entry.round, status |-> StatusFor(loader.list[g]),
                event |-> IF division = "serie_a" THEN KeptReference(loader.refs, n, g) ELSE g]
  OBVIOUS
<1>1. /\ loader # None /\ loader' = [loader EXCEPT !.next = @ + 1]
      /\ league' = IF n \in DOMAIN league THEN [league EXCEPT ![n] = row] ELSE Append(league, row)
      /\ UNCHANGED <<division, calendar, sheets, reordered, linkedNow>>
  BY DEF LoadsMatch
<1>2. /\ division \in {"serie_a", "serie_b"} /\ reordered \in BOOLEAN /\ loader.next \in Nat \ {0}
      /\ \E S : league \in Seq(S)
  BY <1>1 DEF LeagueInv, LeagueTypes
<1>3. n \in DOMAIN league \/ n = Len(league) + 1
  <2>1. Len(league) \in Nat /\ DOMAIN league = 1 .. Len(league)
    BY <1>2
  <2>2. CASE division = "serie_a"
    BY <1>1, <1>2, <2>1, <2>2 DEF RowFor, LeagueInv, RowsAreListed
  <2>3. CASE division = "serie_b"
    BY <2>3 DEF RowFor
  <2> QED
    BY <1>2, <2>2, <2>3
<1>4. /\ \E S : league' \in Seq(S)
      /\ Len(league) \in Nat /\ DOMAIN league = 1 .. Len(league)
      /\ Len(league') \in Nat /\ DOMAIN league' = 1 .. Len(league')
      /\ DOMAIN league' = DOMAIN league \cup {n} /\ Len(league') >= Len(league)
      /\ league'[n] = row
      /\ \A k \in DOMAIN league : k # n => league'[k] = league[k]
  <2>1. IF n \in DOMAIN league THEN league' = [league EXCEPT ![n] = row]
          ELSE n = Len(league) + 1 /\ league' = Append(league, row)
    BY <1>1, <1>3
  <2> QED
    BY <2>1, RowIsPut
<1>5. PICK es, l, nx, rs : loader = [entries |-> es, list |-> l, next |-> nx, refs |-> rs]
  BY <1>1 DEF LeagueInv, LeagueTypes
<1>6. /\ loader' = [entries |-> es, list |-> l, next |-> nx + 1, refs |-> rs]
      /\ loader'.entries = loader.entries /\ loader'.refs = loader.refs
      /\ loader'.next = loader.next + 1
  BY <1>1, <1>5
<1>7. row.game = g /\ (division = "serie_b" => row.event = g)
      /\ (division = "serie_a" => row.event = KeptReference(loader.refs, n, None))
  BY DEF KeptReference
<1>8. division = "serie_a" =>
        /\ n = loader.next
        /\ reordered = FALSE => g = Entries[n].game
  BY <1>1 DEF RowFor, LeagueInv, RowsAreListed
<1>9. Entries' = Entries
  BY <1>1 DEF Entries
<1>10. LeagueTypes'
  <2>1. \A k \in DOMAIN league' : \E g_, r, s, e :
          league'[k] = [game |-> g_, round |-> r, status |-> s, event |-> e]
    <3>1. \E g_, r, s, e : row = [game |-> g_, round |-> r, status |-> s, event |-> e]
      OBVIOUS
    <3>2. \A k \in DOMAIN league : \E g_, r, s, e :
            league[k] = [game |-> g_, round |-> r, status |-> s, event |-> e]
      BY DEF LeagueInv, LeagueTypes
    <3> SUFFICES ASSUME NEW k \in DOMAIN league'
                 PROVE  \E g_, r, s, e : league'[k] = [game |-> g_, round |-> r, status |-> s, event |-> e]
      OBVIOUS
    <3>3. CASE k = n
      <4>1. league'[k] = row
        BY <1>4, <3>3
      <4> QED
        BY <3>1, <4>1, Zenon
    <3>4. CASE k # n
      <4>1. k \in DOMAIN league /\ league'[k] = league[k]
        BY <1>4, <3>4
      <4> QED
        BY <3>2, <4>1
    <3> QED
      BY <3>3, <3>4
  <2>2. loader'.next \in Nat \ {0}
    BY <1>2, <1>6
  <2> QED
    BY <1>1, <1>4, <1>6, <2>1, <2>2 DEF LeagueInv, LeagueTypes
<1>11. RowsAreListed'
  <2> SUFFICES ASSUME division = "serie_a"
               PROVE  /\ reordered = FALSE => \A k \in DOMAIN league' : league'[k].game = Entries[k].game
                      /\ reordered = FALSE => loader'.entries = Entries
                      /\ loader'.next <= Len(league') + 1
    BY <1>1, <1>9 DEF RowsAreListed
  <2>1. loader.next <= Len(league) + 1 /\ (reordered = FALSE => loader.entries = Entries)
    BY <1>1 DEF LeagueInv, RowsAreListed
  <2>2. loader'.next <= Len(league') + 1
    <3>1. loader.next \in DOMAIN league' /\ DOMAIN league' = 1 .. Len(league')
      BY <1>4, <1>8
    <3> QED
      BY <1>2, <1>4, <1>6, <3>1
  <2>3. ASSUME reordered = FALSE, NEW k \in DOMAIN league'
        PROVE  league'[k].game = Entries[k].game
    <3>1. CASE k = n
      BY <1>4, <1>7, <1>8, <2>3, <3>1
    <3>2. CASE k # n
      <4>1. k \in DOMAIN league /\ league'[k] = league[k]
        BY <1>4, <2>3, <3>2
      <4>2. league[k].game = Entries[k].game
        BY <2>3, <4>1 DEF LeagueInv, RowsAreListed
      <4> QED
        BY <4>1, <4>2
    <3> QED
      BY <3>1, <3>2
  <2> QED
    BY <1>6, <2>1, <2>2, <2>3
<1>12. ReferencesAreHeld'
  <2>1. CASE division = "serie_a"
    <3>1. \A k \in DOMAIN league : k \in linkedNow \/ league[k].event = KeptReference(loader.refs, k, None)
      BY <1>1, <2>1 DEF LeagueInv, ReferencesAreHeld
    <3> QED
      BY <1>1, <1>4, <1>6, <1>7, <2>1, <3>1 DEF ReferencesAreHeld
  <2> QED
    BY <1>1, <2>1 DEF ReferencesAreHeld
<1>13. EventsAreGames'
  BY <1>1, <1>4, <1>7 DEF LeagueInv, EventsAreGames
<1>14. ASSUME NEW k \in DOMAIN league
       PROVE  /\ league'[k].game # league[k].game => reordered
              /\ (league'[k].event # league[k].event /\ league[k].event # None) => k \in linkedNow
  <2>1. CASE k # n
    BY <1>4, <1>14, <2>1
  <2>2. CASE k = n /\ division = "serie_a"
    BY <1>1, <1>2, <1>4, <1>7, <1>8, <1>14, <2>2 DEF LeagueInv, RowsAreListed, ReferencesAreHeld
  <2>3. CASE k = n /\ division = "serie_b"
    <3>1. n \in {m \in DOMAIN league : league[m].event = g}
      BY <1>4, <1>14, <2>3 DEF RowFor
    <3> QED
      BY <1>4, <1>7, <2>3, <3>1 DEF LeagueInv, EventsAreGames
  <2> QED
    BY <1>2, <2>1, <2>2, <2>3
<1> QED
  BY <1>10, <1>11, <1>12, <1>13, <1>14 DEF LeagueInv
LEMMA LeagueKept == LeagueInv /\ [LeagueNext]_leagueVars => LeagueInv'
<1> SUFFICES ASSUME LeagueInv, [LeagueNext]_leagueVars PROVE LeagueInv'
  OBVIOUS
<1>0. LeagueTypes /\ RowsAreListed /\ ReferencesAreHeld /\ EventsAreGames
  BY DEF LeagueInv
<1>1. CASE SourceMoves
  <2>1. UNCHANGED <<division, league, loader, linkedNow>>
    BY <1>1 DEF SourceMoves
  <2>2. \/ reordered' = reordered /\ sheets' = sheets
        \/ reordered' = TRUE /\ division = "serie_a"
    BY <1>1 DEF SourceMoves
  <2>3. (division = "serie_a" /\ sheets' = sheets) => Entries' = Entries
    BY <2>1 DEF Entries
  <2>4. LeagueTypes'
    <3>1. reordered' \in BOOLEAN /\ (division = "serie_b" => reordered' = FALSE)
      BY <1>0, <2>2 DEF LeagueTypes
    <3> QED
      BY <1>0, <2>1, <3>1 DEF LeagueTypes
  <2>5. RowsAreListed'
    <3>1. CASE division = "serie_a"
      <4>1. reordered' = FALSE => reordered = FALSE /\ Entries' = Entries
        BY <2>2, <2>3, <3>1
      <4> QED
        BY <1>0, <2>1, <4>1 DEF RowsAreListed
    <3> QED
      BY <2>1, <3>1 DEF RowsAreListed
  <2> QED
    BY <1>0, <2>1, <2>4, <2>5 DEF LeagueInv, ReferencesAreHeld, EventsAreGames
<1>2. ASSUME NEW n \in DOMAIN league, RobotLinks(n) PROVE LeagueInv'
  <2>1. /\ league[n].event = None /\ league' = [league EXCEPT ![n].event = league[n].game]
        /\ linkedNow' = IF loader # None THEN linkedNow \cup {n} ELSE linkedNow
        /\ UNCHANGED <<division, calendar, sheets, loader, reordered>>
    BY <1>2 DEF RobotLinks
  <2>2. PICK g, r, s, e : league[n] = [game |-> g, round |-> r, status |-> s, event |-> e]
    BY <1>0, <1>2 DEF LeagueTypes
  <2> PICK row : row = [game |-> g, round |-> r, status |-> s, event |-> g]
    OBVIOUS
  <2>3. league' = [league EXCEPT ![n] = row]
    <3>1. [league[n] EXCEPT !.event = league[n].game] = row
      BY <2>2
    <3>2. league' = [league EXCEPT ![n] = [league[n] EXCEPT !.event = league[n].game]]
      BY <1>2, <2>1
    <3> QED
      BY <3>1, <3>2
  <2>4. /\ \E S : league' \in Seq(S)
        /\ Len(league) \in Nat /\ DOMAIN league = 1 .. Len(league)
        /\ Len(league') \in Nat /\ DOMAIN league' = 1 .. Len(league')
        /\ DOMAIN league' = DOMAIN league \cup {n} /\ Len(league') >= Len(league)
        /\ league'[n] = row
        /\ \A k \in DOMAIN league : k # n => league'[k] = league[k]
    <3>1. IF n \in DOMAIN league THEN league' = [league EXCEPT ![n] = row]
            ELSE n = Len(league) + 1 /\ league' = Append(league, row)
      BY <1>2, <2>3
    <3> QED
      BY <3>1, RowIsPut
  <2>5. DOMAIN league' = DOMAIN league /\ Entries' = Entries
    BY <1>2, <2>1, <2>4 DEF Entries
  <2>6. row.game = league[n].game /\ row.event = row.game
    BY <2>2
  <2>7. LeagueTypes'
    <3>1. \A k \in DOMAIN league' : \E g_, r_, s_, e_ :
            league'[k] = [game |-> g_, round |-> r_, status |-> s_, event |-> e_]
      <4> SUFFICES ASSUME NEW k \in DOMAIN league'
                   PROVE  \E g_, r_, s_, e_ :
                            league'[k] = [game |-> g_, round |-> r_, status |-> s_, event |-> e_]
        OBVIOUS
      <4>1. CASE k = n
        <5>1. league'[k] = [game |-> g, round |-> r, status |-> s, event |-> g]
          BY <2>4, <4>1
        <5> QED
          BY <5>1, Zenon
      <4>2. CASE k # n
        <5>1. k \in DOMAIN league /\ league'[k] = league[k]
          BY <2>4, <2>5, <4>2
        <5> QED
          BY <1>0, <5>1 DEF LeagueTypes
      <4> QED
        BY <4>1, <4>2
    <3> QED
      BY <1>0, <2>1, <2>4, <3>1 DEF LeagueTypes
  <2>8. RowsAreListed'
    <3>1. \A k \in DOMAIN league : league'[k].game = league[k].game
      BY <2>4, <2>6
    <3>2. loader # None => loader.next \in Nat
      BY <1>0 DEF LeagueTypes
    <3> QED
      BY <1>0, <2>1, <2>4, <2>5, <3>1, <3>2 DEF RowsAreListed
  <2>9. ReferencesAreHeld'
    BY <1>0, <2>1, <2>4, <2>5 DEF ReferencesAreHeld
  <2>10. EventsAreGames'
    BY <1>0, <2>1, <2>4, <2>5, <2>6 DEF EventsAreGames
  <2> QED
    BY <2>7, <2>8, <2>9, <2>10 DEF LeagueInv
<1>3. CASE Loads
  <2>1. /\ loader' = [entries |-> Entries, list |-> calendar, next |-> 1,
                      refs |-> [n \in DOMAIN league |-> league[n].event]]
        /\ UNCHANGED <<division, calendar, sheets, league, reordered>>
    BY <1>3 DEF Loads
  <2>2. /\ loader'.entries = Entries /\ loader'.next = 1
        /\ loader'.refs = [n \in DOMAIN league |-> league[n].event]
    BY <2>1
  <2>3. Entries' = Entries
    BY <2>1 DEF Entries
  <2>4. LeagueTypes'
    <3>1. loader'.next \in Nat \ {0}
      BY <2>2
    <3>2. \E es, l, n, rs : loader' = [entries |-> es, list |-> l, next |-> n, refs |-> rs]
      BY <2>1, Zenon
    <3>3. /\ division' \in {"serie_a", "serie_b"} /\ reordered' \in BOOLEAN
          /\ division' = "serie_b" => reordered' = FALSE
          /\ \E S : league' \in Seq(S)
          /\ \A n \in DOMAIN league' : \E g, r, s, e :
               league'[n] = [game |-> g, round |-> r, status |-> s, event |-> e]
      BY <1>0, <2>1 DEF LeagueTypes
    <3> QED
      BY <3>1, <3>2, <3>3, Zenon DEF LeagueTypes
  <2>5. RowsAreListed'
    <3>1. Len(league) \in Nat
      BY <1>0 DEF LeagueTypes
    <3> QED
      BY <1>0, <2>1, <2>2, <2>3, <3>1 DEF RowsAreListed
  <2>6. ReferencesAreHeld'
    BY <2>1, <2>2 DEF ReferencesAreHeld, KeptReference
  <2> QED
    BY <1>0, <2>1, <2>4, <2>5, <2>6 DEF LeagueInv, EventsAreGames
<1>4. CASE LoadEnds \/ LoadThrows
  <2>1. loader' = None /\ UNCHANGED <<division, calendar, sheets, league, reordered>>
    BY <1>4 DEF LoadEnds, LoadThrows
  <2>2. Entries' = Entries
    BY <2>1 DEF Entries
  <2> QED
    BY <1>0, <2>1, <2>2 DEF LeagueInv, LeagueTypes, RowsAreListed, ReferencesAreHeld, EventsAreGames
<1>5. CASE UNCHANGED leagueVars
  <2>1. UNCHANGED <<division, calendar, sheets, league, loader, reordered, linkedNow>>
    BY <1>5 DEF leagueVars
  <2>2. Entries' = Entries
    BY <2>1 DEF Entries
  <2> QED
    BY <1>0, <2>1, <2>2 DEF LeagueInv, LeagueTypes, RowsAreListed, ReferencesAreHeld, EventsAreGames
<1> QED
  BY <1>1, <1>2, <1>3, <1>4, <1>5, LoadsMatchKeeps DEF LeagueNext

\* However the scripts are run, cut and run again while ge and ESPN change their
\* lists and the robot links the rows, a row keeps its game and its event - save
\* for the two exceptions the property names.
THEOREM RowsAlwaysKeepTheirGame == LeagueSpec => RowsKeepTheirGame
<1>1. LeagueInit => LeagueInv
  <2> SUFFICES ASSUME LeagueInit PROVE LeagueInv
    OBVIOUS
  <2>1. /\ division \in {"serie_a", "serie_b"} /\ reordered = FALSE
        /\ league = <<>> /\ loader = None
    BY Zenon DEF LeagueInit
  <2>2. league \in Seq({}) /\ DOMAIN league = {}
    BY <2>1
  <2> QED
    BY <2>1, <2>2 DEF LeagueInv, LeagueTypes, RowsAreListed, ReferencesAreHeld, EventsAreGames
<1>2. LeagueInv /\ [LeagueNext]_leagueVars => LeagueInv'
  BY LeagueKept
<1>3. LeagueInv /\ [LeagueNext]_leagueVars =>
        [\A n \in DOMAIN league :
           /\ league'[n].game # league[n].game => reordered
           /\ (league'[n].event # league[n].event /\ league[n].event # None) => n \in linkedNow]_leagueVars
  <2> SUFFICES ASSUME LeagueInv, LeagueNext, NEW n \in DOMAIN league
               PROVE  /\ league'[n].game # league[n].game => reordered
                      /\ (league'[n].event # league[n].event /\ league[n].event # None) => n \in linkedNow
    OBVIOUS
  <2>1. CASE LoadsMatch
    BY <2>1, LoadsMatchKeeps
  <2>2. ASSUME NEW k \in DOMAIN league, RobotLinks(k)
        PROVE  /\ league'[n].game = league[n].game
               /\ league'[n].event # league[n].event => league[n].event = None
    <3>1. \E g, r, s, e : league[n] = [game |-> g, round |-> r, status |-> s, event |-> e]
      BY DEF LeagueInv, LeagueTypes
    <3> QED
      BY <2>2, <3>1 DEF RobotLinks
  <2>3. CASE SourceMoves \/ Loads \/ LoadEnds \/ LoadThrows
    BY <2>3 DEF SourceMoves, Loads, LoadEnds, LoadThrows
  <2> QED
    BY <2>1, <2>2, <2>3 DEF LeagueNext
<1> QED
  BY <1>1, <1>2, <1>3, PTL DEF LeagueSpec, RowsKeepTheirGame

-----------------------------------------------------------------------------
(* The frame of a season: what a run is to write, as a set.                  *)

GroupWrite(l) == [to |-> "group", group |-> l]
ClubWrite(l, c) == [to |-> "club", group |-> l, club |-> c]
ReferenceWrite(c) == [to |-> "reference", club |-> c]
StageWrite(name) == [to |-> "stage", stage |-> name]
RoundWrite(r) == [to |-> "round", round |-> r]

\* The sequence holds these writes and no others.
Lists(s, W) == s \in Seq(W) /\ \A w \in W : \E i \in DOMAIN s : s[i] = w

\* A group is written before its clubs.
GroupsFirst(s) == \A i \in DOMAIN s : s[i].to = "club" =>
                     \E j \in DOMAIN s : j < i /\ s[j] = GroupWrite(s[i].group)

LEMMA ListsJoin ==
    ASSUME NEW S, NEW T, NEW s, NEW t, Lists(s, S), Lists(t, T)
    PROVE  Lists(s \o t, S \cup T)
<1>1. s \in Seq(S \cup T) /\ t \in Seq(S \cup T)
  BY DEF Lists
<1>2. s \o t \in Seq(S \cup T)
  BY <1>1
<1>3. ASSUME NEW w \in S PROVE \E i \in DOMAIN (s \o t) : (s \o t)[i] = w
  <2> PICK i \in DOMAIN s : s[i] = w
    BY DEF Lists
  <2>1. i \in DOMAIN (s \o t) /\ (s \o t)[i] = s[i]
    BY <1>1
  <2> QED
    BY <2>1
<1>4. ASSUME NEW w \in T PROVE \E i \in DOMAIN (s \o t) : (s \o t)[i] = w
  <2> PICK i \in DOMAIN t : t[i] = w
    BY DEF Lists
  <2>1. i + Len(s) \in DOMAIN (s \o t) /\ (s \o t)[i + Len(s)] = t[i]
    BY <1>1
  <2> QED
    BY <2>1
<1> QED
  BY <1>2, <1>3, <1>4 DEF Lists

LEMMA GroupsFirstJoin ==
    ASSUME NEW S, NEW s \in Seq(S), NEW t \in Seq(S), GroupsFirst(s), GroupsFirst(t)
    PROVE  GroupsFirst(s \o t)
<1> SUFFICES ASSUME NEW i \in DOMAIN (s \o t), (s \o t)[i].to = "club"
             PROVE  \E j \in DOMAIN (s \o t) : j < i /\ (s \o t)[j] = GroupWrite((s \o t)[i].group)
  BY DEF GroupsFirst
<1>1. CASE i \in DOMAIN s
  <2>1. (s \o t)[i] = s[i]
    BY <1>1
  <2> PICK j \in DOMAIN s : j < i /\ s[j] = GroupWrite(s[i].group)
    BY <1>1, <2>1 DEF GroupsFirst
  <2>2. j \in DOMAIN (s \o t) /\ (s \o t)[j] = s[j]
    OBVIOUS
  <2> QED
    BY <2>1, <2>2
<1>2. CASE i \notin DOMAIN s
  <2>1. i - Len(s) \in DOMAIN t /\ (s \o t)[i] = t[i - Len(s)]
    BY <1>2
  <2> PICK j \in DOMAIN t : j < i - Len(s) /\ t[j] = GroupWrite(t[i - Len(s)].group)
    BY <2>1 DEF GroupsFirst
  <2>2. j + Len(s) \in DOMAIN (s \o t) /\ (s \o t)[j + Len(s)] = t[j] /\ j + Len(s) < i
    BY <2>1
  <2> QED
    BY <2>1, <2>2
<1> QED
  BY <1>1, <1>2

\* A set is listed.
LEMMA SetIsListed ==
    ASSUME NEW S, IsFiniteSet(S)
    PROVE  Lists(SetToSeq(S), S)
<1> DEFINE n == Cardinality(S)
<1>1. n \in Nat
  BY FS_CardinalityType
<1>2. \E f \in [1 .. n -> S] : IsInjective(f)
  <2>1. ExistsBijection(1 .. n, S)
    BY FS_CardinalityType
  <2>2. PICK f : f \in Bijection(1 .. n, S)
    BY <2>1 DEF ExistsBijection
  <2> QED
    BY <2>2 DEF Bijection, Injection, IsInjective
<1>3. SetToSeq(S) \in [1 .. n -> S] /\ IsInjective(SetToSeq(S))
  BY <1>2 DEF SetToSeq
<1> DEFINE f == SetToSeq(S)
<1>4. f \in Seq(S)
  BY <1>1, <1>3
<1>5. \A w \in S : \E i \in DOMAIN f : f[i] = w
  <2>1. f \in Injection(1 .. n, S)
    BY <1>3 DEF Injection, IsInjective
  <2>2. IsFiniteSet(1 .. n) /\ Cardinality(1 .. n) = n
    BY <1>1, FS_Interval
  <2>3. f \in Surjection(1 .. n, S)
    BY <2>1, <2>2, FS_Injection
  <2> QED
    BY <2>3 DEF Surjection
<1> QED
  BY <1>4, <1>5 DEF Lists

LEMMA ClubsAreListed ==
    ASSUME NEW l, NEW squad, IsFiniteSet(squad)
    PROVE  Lists(ClubsOfGroup(l, squad), {ClubWrite(l, c) : c \in squad})
<1> DEFINE f == SetToSeq(squad)
<1>1. ClubsOfGroup(l, squad) = [i \in DOMAIN f |-> ClubWrite(l, f[i])]
  BY DEF ClubsOfGroup, Each, ClubWrite
<1>2. Lists(f, squad)
  BY SetIsListed
<1> HIDE DEF f
<1>3. [i \in DOMAIN f |-> ClubWrite(l, f[i])] \in Seq({ClubWrite(l, c) : c \in squad})
  BY <1>2 DEF Lists
<1> QED
  BY <1>1, <1>2, <1>3 DEF Lists

LEMMA ReferencesAreListed ==
    ASSUME NEW squad, IsFiniteSet(squad)
    PROVE  Lists(Each(squad, ReferenceWrite), {ReferenceWrite(c) : c \in squad})
<1> DEFINE f == SetToSeq(squad)
<1>1. Each(squad, ReferenceWrite) = [i \in DOMAIN f |-> ReferenceWrite(f[i])]
  BY DEF Each
<1>2. Lists(f, squad)
  BY SetIsListed
<1> HIDE DEF f
<1>3. [i \in DOMAIN f |-> ReferenceWrite(f[i])] \in Seq({ReferenceWrite(c) : c \in squad})
  BY <1>2 DEF Lists
<1> QED
  BY <1>1, <1>2, <1>3 DEF Lists

\* A group with its clubs.
GroupSet(l, squad) == {GroupWrite(l)} \cup {ClubWrite(l, c) : c \in squad}

LEMMA GroupIsListed ==
    ASSUME NEW l, NEW squad, IsFiniteSet(squad)
    PROVE  LET s == << GroupWrite(l) >> \o ClubsOfGroup(l, squad)
           IN  Lists(s, GroupSet(l, squad)) /\ GroupsFirst(s)
<1> DEFINE t == ClubsOfGroup(l, squad)
           s == << GroupWrite(l) >> \o t
<1>1. Lists(<< GroupWrite(l) >>, {GroupWrite(l)})
  BY DEF Lists
<1>2. Lists(t, {ClubWrite(l, c) : c \in squad})
  BY ClubsAreListed
<1> HIDE DEF t
<1>3. Lists(s, GroupSet(l, squad))
  BY <1>1, <1>2, ListsJoin DEF GroupSet
<1>4. GroupsFirst(s)
  <2>1. 1 \in DOMAIN s /\ s[1] = GroupWrite(l) /\ s \in Seq(GroupSet(l, squad))
    BY <1>2, <1>3 DEF Lists
  <2> HIDE DEF s
  <2>2. ASSUME NEW i \in DOMAIN s, s[i].to = "club" PROVE 1 < i /\ s[1] = GroupWrite(s[i].group)
    <3>1. i # 1
      BY <2>1, <2>2 DEF GroupWrite
    <3>2. s[i] \in GroupSet(l, squad) /\ s[i] # GroupWrite(l)
      BY <2>1, <2>2 DEF GroupWrite
    <3>3. s[i].group = l
      BY <3>2 DEF GroupSet, ClubWrite
    <3> QED
      BY <2>1, <3>1, <3>3
  <2> QED
    BY <2>1, <2>2 DEF GroupsFirst
<1> QED
  BY <1>3, <1>4 DEF t

\* The flattening of a sequence of sequences exists, as it is defined from the left.
Flattens(seqs, f) == [i \in 1 .. Len(seqs) |-> IF i = 1 THEN seqs[i] ELSE f[i - 1] \o seqs[i]]

LEMMA FlattenIsChosen ==
    ASSUME NEW seqs, Len(seqs) # 0
    PROVE  FlattenSeq(seqs) = (CHOOSE f : f = Flattens(seqs, f))[Len(seqs)]
BY DEF FlattenSeq, Flattens

LEMMA FlattenExists ==
    ASSUME NEW seqs, Len(seqs) \in Nat \ {0}
    PROVE  \E f : f = Flattens(seqs, f)
<1> DEFINE n == Len(seqs)
           Part(f, i) == IF i = 1 THEN seqs[i] ELSE f[i - 1] \o seqs[i]
           Upto(m) == \E f : /\ f = [i \in 1 .. n |-> f[i]]
                             /\ \A i \in 1 .. n : i <= m => f[i] = Part(f, i)
           Not == {m \in Nat : ~Upto(m)}
<1> HIDE DEF n
<1>0. n \in Nat /\ n = Len(seqs)
  BY DEF n
<1>1. Upto(0)
  <2> DEFINE f == [i \in 1 .. n |-> <<>>]
  <2>1. f = [i \in 1 .. n |-> f[i]]
    OBVIOUS
  <2>2. \A i \in 1 .. n : ~(i <= 0)
    BY <1>0
  <2> HIDE DEF f, Part
  <2> QED
    BY <2>1, <2>2
<1>2. ASSUME NEW m \in Nat, Upto(m) PROVE Upto(m + 1)
  <2> HIDE DEF Part
  <2> PICK f : \A i \in 1 .. n : i <= m => f[i] = Part(f, i)
    BY <1>2
  <2> DEFINE g == [i \in 1 .. n |-> Part(f, i)]
  <2>1. g = [i \in 1 .. n |-> g[i]]
    OBVIOUS
  <2>2. ASSUME NEW i \in 1 .. n, i <= m + 1 PROVE g[i] = Part(g, i)
    <3>1. g[i] = Part(f, i)
      OBVIOUS
    <3>2. CASE i = 1
      BY <3>1, <3>2 DEF Part
    <3>3. CASE i # 1
      <4>1. i - 1 \in 1 .. n /\ i - 1 <= m
        BY <1>0, <2>2, <3>3
      <4>2. f[i - 1] = Part(f, i - 1) /\ g[i - 1] = Part(f, i - 1)
        BY <4>1
      <4> HIDE DEF g
      <4> QED
        BY <3>1, <3>3, <4>2 DEF Part
    <3> QED
      BY <3>2, <3>3
  <2> HIDE DEF g
  <2> QED
    BY <2>1, <2>2
<1> HIDE DEF Upto
<1>3. Not = {}
  <2> SUFFICES ASSUME Not # {} PROVE FALSE
    OBVIOUS
  <2>1. PICK m \in Not : \A k \in Not : m <= k
    BY LeastNat
  <2>2. m # 0 /\ m \in Nat /\ ~Upto(m)
    BY <1>1, <2>1
  <2>3. m - 1 \in Nat /\ m - 1 \notin Not
    BY <2>1, <2>2
  <2>4. Upto(m - 1)
    BY <2>3
  <2>5. Upto((m - 1) + 1)
    BY <1>2, <2>3, <2>4
  <2> QED
    BY <2>2, <2>5
<1>4. PICK f : f = [i \in 1 .. n |-> f[i]] /\ \A i \in 1 .. n : i <= n => f[i] = Part(f, i)
  BY <1>0, <1>3 DEF Upto
<1>5. \A i \in 1 .. n : f[i] = Part(f, i)
  <2> HIDE DEF Part
  <2> QED
    BY <1>0, <1>4
<1>6. f = [i \in 1 .. n |-> Part(f, i)]
  <2> HIDE DEF Part
  <2> QED
    BY <1>4, <1>5, Zenon
<1> QED
  BY <1>0, <1>6 DEF Flattens

\* What its parts list, the flattening lists.
LEMMA FlatIsListed ==
    ASSUME NEW T, NEW seqs \in Seq(T), NEW W,
           \A i \in DOMAIN seqs : Lists(seqs[i], W[i]) /\ GroupsFirst(seqs[i])
    PROVE  /\ Lists(FlattenSeq(seqs), UNION {W[i] : i \in DOMAIN seqs})
           /\ GroupsFirst(FlattenSeq(seqs))
<1> DEFINE n == Len(seqs)
           f == CHOOSE h : h = Flattens(seqs, h)
           Upto(m) == UNION {W[i] : i \in 1 .. m}
           Good(m) == Lists(f[m], Upto(m)) /\ GroupsFirst(f[m])
           Not == {m \in 1 .. n : ~Good(m)}
<1>0. n \in Nat /\ DOMAIN seqs = 1 .. n
  OBVIOUS
<1>1. CASE n = 0
  <2>1. FlattenSeq(seqs) = seqs /\ DOMAIN seqs = {} /\ UNION {W[i] : i \in DOMAIN seqs} = {}
    BY <1>0, <1>1 DEF FlattenSeq
  <2>2. seqs = <<>>
    BY <1>1
  <2> QED
    BY <2>1, <2>2 DEF Lists, GroupsFirst
<1>2. CASE n # 0
  <2>1. f = Flattens(seqs, f)
    BY <1>0, <1>2, FlattenExists
  <2>2. FlattenSeq(seqs) = f[n]
    BY <1>2, FlattenIsChosen
  <2> HIDE DEF f
  <2>3. \A i \in 1 .. n : f[i] = IF i = 1 THEN seqs[i] ELSE f[i - 1] \o seqs[i]
    BY <2>1 DEF Flattens
  <2>4. \A i \in 1 .. n : Lists(seqs[i], W[i]) /\ GroupsFirst(seqs[i])
    BY <1>0
  <2> HIDE DEF n
  <2>5. Good(1)
    <3>1. 1 \in 1 .. n
      BY <1>0, <1>2
    <3>2. f[1] = seqs[1] /\ Upto(1) = W[1]
      BY <2>3, <3>1
    <3> QED
      BY <2>4, <3>1, <3>2
  <2>6. ASSUME NEW m \in 2 .. n, Good(m - 1) PROVE Good(m)
    <3>1. m \in 1 .. n /\ m - 1 \in 1 .. n /\ m # 1
      BY <1>0
    <3>2. f[m] = f[m - 1] \o seqs[m]
      BY <2>3, <3>1
    <3>3. Lists(f[m], Upto(m - 1) \cup W[m])
      <4> HIDE DEF Upto
      <4> QED
        BY <2>4, <2>6, <3>1, <3>2, ListsJoin
    <3>4. Upto(m) = Upto(m - 1) \cup W[m]
      <4>1. \A i : i \in 1 .. m <=> i \in 1 .. m - 1 \/ i = m
        BY <1>0, <3>1
      <4> QED
        BY <4>1
    <3>5. GroupsFirst(f[m])
      <4>1. f[m - 1] \in Seq(Upto(m - 1)) /\ seqs[m] \in Seq(W[m])
        BY <2>4, <2>6, <3>1 DEF Lists
      <4>2. f[m - 1] \in Seq(Upto(m - 1) \cup W[m]) /\ seqs[m] \in Seq(Upto(m - 1) \cup W[m])
        <5> HIDE DEF Upto
        <5> QED
          BY <4>1
      <4> HIDE DEF Upto
      <4> QED
        BY <2>4, <2>6, <3>1, <3>2, <4>2, GroupsFirstJoin
    <3> QED
      BY <3>3, <3>4, <3>5
  <2> HIDE DEF Good
  <2>7. Not = {}
    <3> SUFFICES ASSUME Not # {} PROVE FALSE
      OBVIOUS
    <3>1. Not \subseteq Nat
      BY <1>0
    <3>2. PICK m \in Not : \A k \in Not : m <= k
      BY <3>1, LeastNat
    <3>3. m \in 2 .. n /\ m - 1 \in 1 .. n /\ m - 1 \notin Not
      BY <1>0, <2>5, <3>2
    <3> QED
      BY <2>6, <3>2, <3>3
  <2>8. Good(n)
    BY <1>0, <1>2, <2>7
  <2> QED
    BY <1>0, <2>2, <2>8 DEF Good
<1> QED
  BY <1>1, <1>2

-----------------------------------------------------------------------------
(* What each script writes. *)

TableSet(table, squad) == UNION {GroupSet(l, table[l] \cap squad) : l \in DOMAIN table}
KnockoutSet(v) == {StageWrite("knockout")} \cup {RoundWrite(Versions[v][i]) : i \in DOMAIN Versions[v]}
Numbered(n) == [name |-> n, legs |-> 1, order |-> n]
LeagueSet(squad) == {StageWrite("table")} \cup GroupSet("table", squad)
                      \cup {RoundWrite(Numbered(n)) : n \in 1 .. LeagueRounds}
CupSet(read, squad, v) == {StageWrite("groups")} \cup TableSet(read.groups, squad) \cup KnockoutSet(v)
SerieASet(squad) == {ReferenceWrite(c) : c \in AllClubs \cap squad}
                      \cup IF AllClubs \subseteq squad THEN LeagueSet(AllClubs) ELSE {[to |-> "throw"]}

PeriodOf(read) == IF edition = "serie_a" THEN read.announced ELSE Span(read.days)

Wanted(read, squad, v) == {SeasonWrite(PeriodOf(read))} \cup
    CASE edition \in {"libertadores", "sudamericana"} -> CupSet(read, squad, v)
      [] edition = "copa_do_brasil" -> KnockoutSet(v)
      [] edition = "serie_a" -> SerieASet(squad)
      [] edition = "serie_b" -> LeagueSet(InEvents)

\* ... and before the standings are read.
Fetch == [to |-> "fetch"]
Opening(read) == {SeasonWrite(PeriodOf(read)), StageWrite("groups"), Fetch}

\* Listed, and a group before its clubs.
Orderly(s, W) == Lists(s, W) /\ GroupsFirst(s)

LEMMA OrderlyJoin ==
    ASSUME NEW S, NEW T, NEW s, NEW t, Orderly(s, S), Orderly(t, T)
    PROVE  Orderly(s \o t, S \cup T)
<1>1. Lists(s \o t, S \cup T)
  BY ListsJoin DEF Orderly
<1>2. s \in Seq(S \cup T) /\ t \in Seq(S \cup T)
  BY DEF Orderly, Lists
<1> QED
  BY <1>1, <1>2, GroupsFirstJoin DEF Orderly

LEMMA OrderlyOne ==
    ASSUME NEW w, w.to # "club"
    PROVE  Orderly(<< w >>, {w})
BY DEF Orderly, Lists, GroupsFirst

LEMMA OrderlyThree ==
    ASSUME NEW w, NEW x, NEW y, w.to # "club", x.to # "club", y.to # "club"
    PROVE  Orderly(<< w, x, y >>, {w, x, y})
BY DEF Orderly, Lists, GroupsFirst

LEMMA TableIsListed ==
    ASSUME NEW table \in FrameGroups, NEW squad
    PROVE  Orderly(GroupWrites(table, squad), TableSet(table, squad))
<1> DEFINE g == SetToSeq(DOMAIN table)
           Part(l) == << GroupWrite(l) >> \o ClubsOfGroup(l, table[l] \cap squad)
           seqs == [i \in DOMAIN g |-> Part(g[i])]
           W == [i \in DOMAIN g |-> GroupSet(g[i], table[g[i]] \cap squad)]
<1>1. GroupWrites(table, squad) = FlattenSeq(seqs)
  BY DEF GroupWrites, Each, GroupWrite
<1>2. Lists(g, DOMAIN table)
  BY SetIsListed, SeasonFrameAssumption DEF SeasonFrameAssumption
<1> HIDE DEF g
<1>3. \A i \in DOMAIN g : g[i] \in DOMAIN table
  BY <1>2 DEF Lists
<1>4. ASSUME NEW l \in DOMAIN table
      PROVE  Lists(Part(l), GroupSet(l, table[l] \cap squad)) /\ GroupsFirst(Part(l))
  <2>1. table[l] \cap squad \subseteq AllClubs
    BY DEF AllClubs, Clubs
  <2>2. IsFiniteSet(table[l] \cap squad)
    BY <2>1, FS_Subset, SeasonFrameAssumption DEF SeasonFrameAssumption
  <2> QED
    BY <2>2, GroupIsListed
<1> HIDE DEF Part
<1>5. seqs \in Seq({Part(l) : l \in DOMAIN table})
  BY <1>2, <1>3 DEF Lists
<1>6. \A i \in DOMAIN seqs : Lists(seqs[i], W[i]) /\ GroupsFirst(seqs[i])
  BY <1>3, <1>4
<1>7. UNION {W[i] : i \in DOMAIN seqs} = TableSet(table, squad)
  <2>1. \A l \in DOMAIN table : \E i \in DOMAIN g : g[i] = l
    BY <1>2 DEF Lists
  <2> QED
    BY <1>3, <2>1 DEF TableSet
<1> HIDE DEF seqs, W
<1>8. Lists(FlattenSeq(seqs), UNION {W[i] : i \in DOMAIN seqs}) /\ GroupsFirst(FlattenSeq(seqs))
  BY <1>5, <1>6, FlatIsListed
<1> QED
  BY <1>1, <1>7, <1>8 DEF Orderly

LEMMA RoundsAreListed ==
    ASSUME NEW v \in DOMAIN Versions
    PROVE  Orderly(RoundWrites(Versions[v]), KnockoutSet(v))
<1> DEFINE R == Versions[v]
           t == [i \in DOMAIN R |-> RoundWrite(R[i])]
           T == {RoundWrite(R[i]) : i \in DOMAIN R}
<1>1. DOMAIN R = 1 .. Len(R) /\ Len(R) \in Nat
  BY SeasonFrameAssumption DEF SeasonFrameAssumption
<1>2. t \in Seq(T) /\ \A w \in T : \E i \in DOMAIN t : t[i] = w
  BY <1>1
<1>3. Orderly(t, T)
  BY <1>2 DEF Orderly, Lists, GroupsFirst, RoundWrite
<1>4. Orderly(<< StageWrite("knockout") >>, {StageWrite("knockout")})
  BY OrderlyOne DEF StageWrite
<1>5. RoundWrites(R) = << StageWrite("knockout") >> \o t
  BY DEF RoundWrites, StageWrite, RoundWrite
<1> HIDE DEF t, T
<1>6. Orderly(<< StageWrite("knockout") >> \o t, {StageWrite("knockout")} \cup T)
  BY <1>3, <1>4, OrderlyJoin
<1> QED
  BY <1>5, <1>6 DEF KnockoutSet, T

LEMMA LeagueIsListed ==
    ASSUME NEW squad, squad \subseteq AllClubs
    PROVE  Orderly(TableWrites(squad) \o NumberedRounds, LeagueSet(squad))
<1> DEFINE rest == << GroupWrite("table") >> \o ClubsOfGroup("table", squad)
           T == {RoundWrite(Numbered(n)) : n \in 1 .. LeagueRounds}
<1>1. IsFiniteSet(squad)
  BY FS_Subset, SeasonFrameAssumption DEF SeasonFrameAssumption
<1>2. Orderly(rest, GroupSet("table", squad))
  BY <1>1, GroupIsListed DEF Orderly
<1>3. Orderly(<< StageWrite("table") >>, {StageWrite("table")})
  BY OrderlyOne DEF StageWrite
<1>4. TableWrites(squad) = << StageWrite("table") >> \o rest
  <2>1. Lists(ClubsOfGroup("table", squad), {ClubWrite("table", c) : c \in squad})
    BY <1>1, ClubsAreListed
  <2> DEFINE t == ClubsOfGroup("table", squad)
  <2> HIDE DEF t
  <2>2. << StageWrite("table"), GroupWrite("table") >> \o t
          = << StageWrite("table") >> \o (<< GroupWrite("table") >> \o t)
    BY <2>1 DEF Lists, t
  <2> QED
    BY <2>2 DEF TableWrites, StageWrite, GroupWrite, t
<1>5. Orderly(NumberedRounds, T)
  <2>1. LeagueRounds \in Nat
    BY SeasonFrameAssumption DEF SeasonFrameAssumption
  <2>2. NumberedRounds = [n \in 1 .. LeagueRounds |-> RoundWrite(Numbered(n))]
    BY DEF NumberedRounds, RoundWrite, Numbered
  <2>3. NumberedRounds \in Seq(T) /\ \A w \in T : \E i \in DOMAIN NumberedRounds : NumberedRounds[i] = w
    BY <2>1, <2>2
  <2> QED
    BY <2>2, <2>3 DEF Orderly, Lists, GroupsFirst, RoundWrite
<1> HIDE DEF rest, T
<1>6. Orderly(TableWrites(squad), {StageWrite("table")} \cup GroupSet("table", squad))
  BY <1>2, <1>3, <1>4, OrderlyJoin
<1>7. Orderly(TableWrites(squad) \o NumberedRounds,
              ({StageWrite("table")} \cup GroupSet("table", squad)) \cup T)
  BY <1>5, <1>6, OrderlyJoin
<1> QED
  BY <1>7 DEF LeagueSet, T

\* After the standings.
LEMMA StandingsAreListed ==
    ASSUME NEW table \in FrameGroups, NEW squad, NEW v \in DOMAIN Versions
    PROVE  Orderly(StandingsWrites(table, squad, v), TableSet(table, squad) \cup KnockoutSet(v))
BY TableIsListed, RoundsAreListed, OrderlyJoin DEF StandingsWrites

\* Every script lists what it is to write.
LEMMA WritesAreListed ==
    ASSUME NEW read, NEW squad, squad \subseteq AllClubs,
           NEW v \in DOMAIN Versions, edition \in Cups \cup Tables
    PROVE  Orderly(FrameWrites(read, squad, v),
                   IF edition \in Grouped THEN Opening(read) ELSE Wanted(read, squad, v))
<1> DEFINE S == << SeasonWrite(PeriodOf(read)) >>
           D == {SeasonWrite(PeriodOf(read))}
<1>1. Orderly(S, D)
  BY OrderlyOne DEF SeasonWrite
<1>2. CASE edition \in Grouped
  <2>1. FrameWrites(read, squad, v) = << SeasonWrite(PeriodOf(read)), StageWrite("groups"), Fetch >>
    BY <1>2 DEF FrameWrites, LibertadoresWrites, SudamericanaWrites, StageWrite, Fetch, Grouped, PeriodOf
  <2>2. SeasonWrite(PeriodOf(read)).to # "club" /\ StageWrite("groups").to # "club" /\ Fetch.to # "club"
    BY DEF SeasonWrite, StageWrite, Fetch
  <2>3. Orderly(<< SeasonWrite(PeriodOf(read)), StageWrite("groups"), Fetch >>, Opening(read))
    BY <2>2, OrderlyThree DEF Opening
  <2> QED
    BY <1>2, <2>1, <2>3
<1>3. CASE edition = "copa_do_brasil"
  <2>1. Orderly(S \o RoundWrites(Versions[v]), D \cup KnockoutSet(v))
    BY <1>1, RoundsAreListed, OrderlyJoin
  <2> QED
    BY <1>3, <2>1 DEF FrameWrites, CopaDoBrasilWrites, Wanted, PeriodOf, Grouped
<1>4. CASE edition = "serie_a"
  <2> DEFINE R == Each(AllClubs \cap squad, ReferenceWrite)
             TR == {ReferenceWrite(c) : c \in AllClubs \cap squad}
             Z == IF AllClubs \subseteq squad THEN TableWrites(AllClubs) \o NumberedRounds
                    ELSE << [to |-> "throw"] >>
             TZ == IF AllClubs \subseteq squad THEN LeagueSet(AllClubs) ELSE {[to |-> "throw"]}
  <2>1. Orderly(R, TR)
    <3>1. IsFiniteSet(AllClubs \cap squad)
      BY FS_Subset, SeasonFrameAssumption DEF SeasonFrameAssumption
    <3>2. Lists(R, TR)
      BY <3>1, ReferencesAreListed
    <3>3. \A w \in TR : w.to = "reference"
      BY DEF ReferenceWrite
    <3>4. \A i \in DOMAIN R : R[i] \in TR
      <4> HIDE DEF R, TR
      <4> QED
        BY <3>2 DEF Lists
    <3>5. GroupsFirst(R)
      BY <3>3, <3>4 DEF GroupsFirst
    <3> QED
      BY <3>2, <3>5 DEF Orderly
  <2>2. Orderly(Z, TZ)
    BY LeagueIsListed, OrderlyOne
  <2>3. FrameWrites(read, squad, v) = S \o R \o Z
    BY <1>4 DEF FrameWrites, SerieAWrites, Each, ReferenceWrite, PeriodOf
  <2>4. Wanted(read, squad, v) = (D \cup TR) \cup TZ
    BY <1>4 DEF Wanted, SerieASet
  <2> HIDE DEF S, D, R, TR, Z, TZ
  <2>5. Orderly(S \o R, D \cup TR)
    BY <1>1, <2>1, OrderlyJoin
  <2>6. Orderly((S \o R) \o Z, (D \cup TR) \cup TZ)
    BY <2>2, <2>5, OrderlyJoin
  <2> QED
    BY <1>4, <2>3, <2>4, <2>6 DEF Grouped
<1>5. CASE edition = "serie_b"
  <2> DEFINE L == TableWrites(InEvents) \o NumberedRounds
  <2>1. Orderly(L, LeagueSet(InEvents))
    BY LeagueIsListed, SeasonFrameAssumption DEF SeasonFrameAssumption
  <2>2. FrameWrites(read, squad, v) = S \o L
    BY <1>5 DEF FrameWrites, SerieBWrites, PeriodOf
  <2> HIDE DEF S, D, L
  <2>3. Orderly(S \o L, D \cup LeagueSet(InEvents))
    BY <1>1, <2>1, OrderlyJoin
  <2> QED
    BY <1>5, <2>2, <2>3 DEF Wanted, D, Grouped
<1> QED
  BY <1>2, <1>3, <1>4, <1>5 DEF Cups, Tables, Grouped

-----------------------------------------------------------------------------
(* The invariant of the frame. *)

AllOfTable == IF edition = "serie_a" THEN AllClubs ELSE InEvents

\* What was written is in the rows.
Stands(w) ==
    /\ w.to \notin {"throw", "fetch"}
    /\ w.to = "season" => season = w.period
    /\ w.to = "group" => w.group \in DOMAIN groupRows
    /\ w.to = "club" => w.group \in DOMAIN groupRows /\ w.club \in groupRows[w.group]
    /\ w.to = "round" => /\ w.round.name \in DOMAIN roundRows
                         /\ roundRows[w.round.name] = [legs |-> w.round.legs, order |-> w.round.order]
    /\ w.to = "reference" => w.club \in references

Goal(f) == IF f.fetched THEN Wanted(f.source, f.clubs, f.version) ELSE Opening(f.source)

FrameTypes ==
    LET sound(f) == /\ f = [source |-> f.source, version |-> f.version, clubs |-> f.clubs,
                            fetched |-> f.fetched, left |-> f.left]
                    /\ f.source = [groups |-> f.source.groups, days |-> f.source.days,
                                   announced |-> f.source.announced]
                    /\ f.source.groups \in FrameGroups /\ f.version \in DOMAIN Versions
                    /\ f.clubs \subseteq AllClubs
                    /\ f.fetched \in BOOLEAN /\ (~f.fetched => edition \in Grouped)
    IN  /\ edition \in Cups \cup Tables /\ version \in DOMAIN Versions
        /\ source = [groups |-> source.groups, days |-> source.days, announced |-> source.announced]
        /\ source.groups \in FrameGroups /\ catalogue \subseteq AllClubs
        /\ framing # None => sound(framing) /\ framing.left \in Seq(Goal(framing)) /\ framed = None
        /\ framed # None => sound(framed)

\* What a run is to write is written or left, a group before its clubs; the standings are
\* read after all that comes before them.
WorkStands ==
    framing # None =>
       /\ \A w \in Goal(framing) : Stands(w) \/ \E i \in DOMAIN framing.left : framing.left[i] = w
       /\ \A i \in DOMAIN framing.left : framing.left[i].to = "club" =>
            \/ framing.left[i].group \in DOMAIN groupRows
            \/ \E j \in DOMAIN framing.left : j < i /\ framing.left[j] = GroupWrite(framing.left[i].group)
       /\ ~framing.fetched => \A i \in DOMAIN framing.left : framing.left[i] = Fetch => i = Len(framing.left)

DoneStands == framed # None => framed.fetched /\ \A w \in Goal(framed) : Stands(w)

\* A club shown in a group is there, or was moved since.
Shows(table, l, c) == c \in shifted \/ (l \in DOMAIN table /\ c \in table[l])
Belongs(table) == \A l \in DOMAIN groupRows : \A c \in groupRows[l] : Shows(table, l, c)

ClubsBelong ==
    edition \in Grouped =>
       /\ Belongs(source.groups)
       /\ framing # None =>
            /\ Belongs(framing.source.groups)
            /\ \A l \in DOMAIN framing.source.groups : \A c \in framing.source.groups[l] :
                  Shows(source.groups, l, c)
       /\ framed # None => Belongs(framed.source.groups)

TablesBelong ==
    edition \in Tables =>
       /\ \A l \in DOMAIN groupRows : groupRows[l] \subseteq AllOfTable
       /\ DOMAIN roundRows \subseteq 1 .. LeagueRounds
       /\ references \subseteq AllClubs

FrameInv == FrameTypes /\ WorkStands /\ DoneStands /\ ClubsBelong /\ TablesBelong

LEMMA WantedIs ==
    ASSUME edition \in Cups \cup Tables, NEW read, NEW squad, NEW v, NEW w \in Wanted(read, squad, v)
    PROVE  /\ w.to \in {"season", "stage", "group", "club", "round", "reference", "throw"}
           /\ w.to = "season" => w.period = PeriodOf(read)
           /\ w.to = "round" => IF edition \in Cups THEN \E i \in DOMAIN Versions[v] : w.round = Versions[v][i]
                                ELSE \E n \in 1 .. LeagueRounds : w.round = Numbered(n)
           /\ w.to = "club" => IF edition \in Grouped
                               THEN w.group \in DOMAIN read.groups /\ w.club \in read.groups[w.group]
                               ELSE edition \in Tables /\ w.club \in AllOfTable
           /\ w.to = "reference" => w.club \in AllClubs
<1>1. CASE w = SeasonWrite(PeriodOf(read))
  BY <1>1 DEF SeasonWrite
<1>2. ASSUME NEW name, w = StageWrite(name) PROVE w.to = "stage"
  BY <1>2 DEF StageWrite
<1>3. ASSUME NEW l, NEW cs, w \in GroupSet(l, cs)
      PROVE  w.to = "group" \/ (w.to = "club" /\ w.group = l /\ w.club \in cs)
  BY <1>3 DEF GroupSet, GroupWrite, ClubWrite
<1>4. ASSUME w \in KnockoutSet(v)
      PROVE  w.to = "stage" \/ (w.to = "round" /\ \E i \in DOMAIN Versions[v] : w.round = Versions[v][i])
  BY <1>4 DEF KnockoutSet, StageWrite, RoundWrite
<1>5. ASSUME NEW cs, w \in LeagueSet(cs)
      PROVE  \/ w.to \in {"stage", "group"} \/ (w.to = "club" /\ w.club \in cs)
             \/ w.to = "round" /\ \E n \in 1 .. LeagueRounds : w.round = Numbered(n)
  <2>1. CASE w \in GroupSet("table", cs)
    BY <1>3, <2>1
  <2>2. CASE w \notin GroupSet("table", cs)
    BY <1>5, <2>2 DEF LeagueSet, StageWrite, RoundWrite
  <2> QED
    BY <2>1, <2>2
<1>6. CASE w # SeasonWrite(PeriodOf(read)) /\ edition \in Grouped
  <2>1. w \in CupSet(read, squad, v)
    BY <1>6 DEF Wanted, Grouped
  <2>2. CASE w \in TableSet(read.groups, squad)
    <3> PICK l \in DOMAIN read.groups : w \in GroupSet(l, read.groups[l] \cap squad)
      BY <2>2 DEF TableSet
    <3> QED
      BY <1>3, <1>6
  <2>3. CASE w = StageWrite("groups") \/ w \in KnockoutSet(v)
    BY <1>2, <1>4, <1>6, <2>3 DEF Grouped, Cups
  <2> QED
    BY <2>1, <2>2, <2>3 DEF CupSet
<1>7. CASE w # SeasonWrite(PeriodOf(read)) /\ edition = "copa_do_brasil"
  <2>1. w \in KnockoutSet(v)
    BY <1>7 DEF Wanted
  <2> QED
    BY <1>4, <1>7, <2>1 DEF Cups
<1>8. CASE w # SeasonWrite(PeriodOf(read)) /\ edition = "serie_a"
  <2>1. w \in SerieASet(squad)
    BY <1>8 DEF Wanted
  <2>2. CASE w \in LeagueSet(AllClubs)
    BY <1>5, <1>8, <2>2 DEF Grouped, Cups, Tables, AllOfTable
  <2>3. CASE w = [to |-> "throw"] \/ w \in {ReferenceWrite(c) : c \in AllClubs \cap squad}
    BY <2>3 DEF ReferenceWrite
  <2> QED
    BY <2>1, <2>2, <2>3 DEF SerieASet
<1>9. CASE w # SeasonWrite(PeriodOf(read)) /\ edition = "serie_b"
  <2>1. w \in LeagueSet(InEvents)
    BY <1>9 DEF Wanted
  <2> QED
    BY <1>5, <1>9, <2>1 DEF Grouped, Cups, Tables, AllOfTable
<1> QED
  BY <1>1, <1>6, <1>7, <1>8, <1>9 DEF Cups, Tables, Grouped

\* What a run is at.
LEMMA GoalSays ==
    ASSUME edition \in Cups \cup Tables, NEW f, f.fetched \in BOOLEAN, NEW w \in Goal(f)
    PROVE  /\ w.to = "fetch" => ~f.fetched
           /\ w.to = "season" => w.period = PeriodOf(f.source)
           /\ w.to = "round" => IF edition \in Cups THEN \E i \in DOMAIN Versions[f.version] : w.round = Versions[f.version][i]
                                ELSE \E n \in 1 .. LeagueRounds : w.round = Numbered(n)
           /\ w.to = "club" => IF edition \in Grouped
                               THEN w.group \in DOMAIN f.source.groups /\ w.club \in f.source.groups[w.group]
                               ELSE edition \in Tables /\ w.club \in AllOfTable
           /\ w.to = "reference" => w.club \in AllClubs
<1>1. CASE f.fetched
  BY <1>1, WantedIs DEF Goal
<1>2. CASE ~f.fetched
  BY <1>2 DEF Goal, Opening, SeasonWrite, StageWrite, Fetch
<1> QED
  BY <1>1, <1>2

\* Two writes of a run never contradict each other.
LEMMA WritesAgree ==
    ASSUME edition \in Cups \cup Tables, NEW f, f.fetched \in BOOLEAN, f.version \in DOMAIN Versions,
           NEW w \in Goal(f), NEW x \in Goal(f), w.to = x.to
    PROVE  /\ w.to = "season" => w.period = x.period
           /\ w.to = "round" /\ w.round.name = x.round.name => w.round = x.round
<1>1. ASSUME w.to = "season" PROVE w.period = x.period
  <2>1. w.period = PeriodOf(f.source)
    BY <1>1, GoalSays
  <2>2. x.to = "season"
    BY <1>1
  <2>3. x.period = PeriodOf(f.source)
    BY <2>2, GoalSays
  <2> QED
    BY <2>1, <2>3
<1>2. ASSUME w.to = "round", w.round.name = x.round.name PROVE w.round = x.round
  <2>0. x.to = "round"
    BY <1>2
  <2>1. CASE edition \in Cups
    <3> PICK i \in DOMAIN Versions[f.version] : w.round = Versions[f.version][i]
      BY <1>2, <2>1, GoalSays
    <3> PICK j \in DOMAIN Versions[f.version] : x.round = Versions[f.version][j]
      BY <2>0, <2>1, GoalSays
    <3> QED
      BY <1>2, SeasonFrameAssumption DEF SeasonFrameAssumption
  <2>2. CASE edition \notin Cups
    <3> PICK n \in 1 .. LeagueRounds : w.round = Numbered(n)
      BY <1>2, <2>2, GoalSays
    <3> PICK m \in 1 .. LeagueRounds : x.round = Numbered(m)
      BY <2>0, <2>2, GoalSays
    <3> QED
      BY <1>2 DEF Numbered
  <2> QED
    BY <2>1, <2>2
<1> QED
  BY <1>1, <1>2

LEMMA FrameInitInv == ASSUME FrameInit PROVE FrameInv
<1>1. FrameTypes
  BY SeasonFrameAssumption DEF FrameInit, FrameTypes, SeasonFrameAssumption
<1>2. DOMAIN groupRows = {} /\ DOMAIN roundRows = {} /\ references = {}
  BY DEF FrameInit
<1> QED
  BY <1>1, <1>2 DEF FrameInit, FrameInv, WorkStands, DoneStands, ClubsBelong, Belongs, TablesBelong

\* Writes that stand go on standing while the rows are left alone.
LEMMA RowsStay ==
    ASSUME UNCHANGED frameRows
    PROVE  \A w : Stands(w)' <=> Stands(w)
<1> SUFFICES ASSUME NEW w PROVE Stands(w)' <=> Stands(w)
  OBVIOUS
<1> QED
  BY DEF frameRows, Stands

LEMMA GoalStays ==
    ASSUME edition' = edition
    PROVE  \A read, squad, v : Wanted(read, squad, v)' = Wanted(read, squad, v) /\ Opening(read)' = Opening(read)
BY DEF Wanted, Opening, PeriodOf

LEMMA SourcesMoveInv ==
    ASSUME FrameInv, SourcesMove
    PROVE  FrameInv'
<1>1. /\ UNCHANGED <<edition, version, catalogue, frameRows, framing, framed>>
      /\ shifted \subseteq shifted'
  BY DEF SourcesMove
<1>2. /\ source' = [groups |-> source'.groups, days |-> source'.days, announced |-> source'.announced]
      /\ source'.groups \in FrameGroups
      /\ \A l \in DOMAIN source.groups : \A c \in source.groups[l] : Shows(source.groups, l, c)'
  <2>1. CASE \/ \E days : source' = [source EXCEPT !.days = days]
             \/ \E period : source' = [source EXCEPT !.announced = period]
    BY <2>1 DEF FrameInv, FrameTypes, Shows
  <2>2. CASE \E table \in FrameGroups \ {source.groups} :
               /\ source' = [source EXCEPT !.groups = table]
               /\ shifted' = shifted \cup {c \in Clubs(source.groups) : GroupOf(source.groups, c) # GroupOf(table, c)}
    <3> PICK table \in FrameGroups \ {source.groups} :
               /\ source' = [source EXCEPT !.groups = table]
               /\ shifted' = shifted \cup {c \in Clubs(source.groups) : GroupOf(source.groups, c) # GroupOf(table, c)}
      BY <2>2
    <3>1. source' = [groups |-> table, days |-> source.days, announced |-> source.announced]
      BY DEF FrameInv, FrameTypes
    <3>2. ASSUME NEW l \in DOMAIN source.groups, NEW c \in source.groups[l], c \notin shifted'
          PROVE  l \in DOMAIN table /\ c \in table[l]
      <4>1. c \in Clubs(source.groups) /\ l \in GroupOf(source.groups, c)
        BY DEF Clubs, GroupOf
      <4>2. l \in GroupOf(table, c)
        BY <3>2, <4>1
      <4> QED
        BY <4>2 DEF GroupOf
    <3> QED
      BY <3>1, <3>2 DEF Shows
  <2> QED
    BY <2>1, <2>2 DEF SourcesMove, FrameInv, FrameTypes
<1>3. /\ \A w : Stands(w)' <=> Stands(w)
      /\ \A read, squad, v : Wanted(read, squad, v)' = Wanted(read, squad, v) /\ Opening(read)' = Opening(read)
  BY <1>1, RowsStay, GoalStays
<1>4. FrameTypes'
  BY <1>1, <1>2, <1>3 DEF FrameInv, FrameTypes, Goal
<1>5. WorkStands' /\ DoneStands' /\ TablesBelong'
  BY <1>1, <1>3 DEF FrameInv, WorkStands, DoneStands, TablesBelong, AllOfTable, Goal, frameRows
<1>6. ASSUME NEW table, NEW l, NEW c, Shows(table, l, c) PROVE c \in shifted' \/ (l \in DOMAIN table /\ c \in table[l])
  BY <1>1, <1>6 DEF Shows
<1>7. ASSUME NEW l, NEW c, Shows(source.groups, l, c) PROVE Shows(source.groups, l, c)'
  BY <1>1, <1>2, <1>7 DEF Shows
<1>8. ClubsBelong'
  BY <1>1, <1>6, <1>7 DEF FrameInv, ClubsBelong, Belongs, Shows, frameRows
<1> QED
  BY <1>4, <1>5, <1>8 DEF FrameInv

LEMMA OthersInv ==
    ASSUME FrameInv, ScriptIsRewritten \/ NewcomerLoaded
    PROVE  FrameInv'
<1>1. UNCHANGED <<edition, source, frameRows, framing, framed, shifted>>
  BY DEF ScriptIsRewritten, NewcomerLoaded
<1>2. version' \in DOMAIN Versions /\ catalogue' \subseteq AllClubs
  BY SeasonFrameAssumption DEF ScriptIsRewritten, NewcomerLoaded, FrameInv, FrameTypes, SeasonFrameAssumption
<1>3. /\ \A w : Stands(w)' <=> Stands(w)
      /\ \A read, squad, v : Wanted(read, squad, v)' = Wanted(read, squad, v) /\ Opening(read)' = Opening(read)
  BY <1>1, RowsStay, GoalStays
<1>4. FrameTypes'
  BY <1>1, <1>2, <1>3 DEF FrameInv, FrameTypes, Goal
<1>5. WorkStands' /\ DoneStands' /\ TablesBelong' /\ ClubsBelong'
  BY <1>1, <1>3
  DEF FrameInv, WorkStands, DoneStands, TablesBelong, AllOfTable, ClubsBelong, Belongs, Shows, Goal, frameRows
<1> QED
  BY <1>4, <1>5 DEF FrameInv

LEMMA FrameStartsInv ==
    ASSUME FrameInv, FrameStarts
    PROVE  FrameInv'
<1> DEFINE left == FrameWrites(source, catalogue, version)
           first == IF edition \in Grouped THEN Opening(source) ELSE Wanted(source, catalogue, version)
<1>1. /\ UNCHANGED <<edition, version, source, catalogue, frameRows, shifted>>
      /\ framing' = [source |-> source, version |-> version, clubs |-> catalogue,
                     fetched |-> edition \notin Grouped, left |-> left]
      /\ framed' = None
  BY DEF FrameStarts
<1>2. Orderly(left, first)
  BY WritesAreListed DEF FrameInv, FrameTypes
<1>3. edition \in Grouped => \A i \in DOMAIN left : left[i] = Fetch => i = Len(left)
  <2>1. edition \in Grouped => left = << SeasonWrite(PeriodOf(source)), StageWrite("groups"), Fetch >>
    BY DEF FrameWrites, LibertadoresWrites, SudamericanaWrites, StageWrite, Fetch, Grouped, PeriodOf
  <2>2. SeasonWrite(PeriodOf(source)) # Fetch /\ StageWrite("groups") # Fetch
    <3>1. SeasonWrite(PeriodOf(source)).to # Fetch.to /\ StageWrite("groups").to # Fetch.to
      BY DEF SeasonWrite, StageWrite, Fetch
    <3> QED
      BY <3>1
  <2> HIDE DEF left
  <2> QED
    BY <2>1, <2>2
<1> HIDE DEF left
<1>4. \A read, squad, v : Wanted(read, squad, v)' = Wanted(read, squad, v) /\ Opening(read)' = Opening(read)
  BY <1>1, GoalStays
<1>5. Goal(framing)' = first
  BY <1>1, <1>4 DEF Goal
<1> HIDE DEF first
<1>6. FrameTypes'
  BY <1>1, <1>2, <1>5 DEF FrameInv, FrameTypes, Orderly, Lists
<1>7. WorkStands' /\ DoneStands'
  BY <1>1, <1>2, <1>3, <1>5 DEF WorkStands, DoneStands, Orderly, Lists, GroupsFirst
<1>8. TablesBelong' /\ ClubsBelong'
  BY <1>1 DEF FrameInv, TablesBelong, AllOfTable, ClubsBelong, Belongs, Shows, frameRows
<1> QED
  BY <1>6, <1>7, <1>8 DEF FrameInv

LEMMA StandingsFetchedInv ==
    ASSUME FrameInv, StandingsFetched
    PROVE  FrameInv'
<1> DEFINE left == StandingsWrites(source.groups, framing.clubs, framing.version)
           T == TableSet(source.groups, framing.clubs) \cup KnockoutSet(framing.version)
<1>1. /\ framing # None /\ framing.left # <<>> /\ Head(framing.left).to = "fetch"
      /\ UNCHANGED <<edition, version, source, catalogue, frameRows, framed, shifted>>
      /\ framing' = [framing EXCEPT !.source.groups = source.groups, !.fetched = TRUE, !.left = left]
  BY DEF StandingsFetched
<1>2. /\ framing.left \in Seq(Goal(framing)) /\ framed = None /\ framing.version \in DOMAIN Versions
      /\ framing.fetched \in BOOLEAN /\ (~framing.fetched => edition \in Grouped)
      /\ framing.clubs \subseteq AllClubs /\ source.groups \in FrameGroups /\ edition \in Cups \cup Tables
      /\ framing = [source |-> framing.source, version |-> framing.version, clubs |-> framing.clubs,
                    fetched |-> framing.fetched, left |-> framing.left]
      /\ framing.source = [groups |-> framing.source.groups, days |-> framing.source.days,
                           announced |-> framing.source.announced]
  BY <1>1 DEF FrameInv, FrameTypes
<1>3. framing.left[1].to = "fetch" /\ framing.left[1] \in Goal(framing) /\ 1 \in DOMAIN framing.left
  BY <1>1, <1>2
<1>4. ~framing.fetched /\ edition \in Grouped
  BY <1>2, <1>3, GoalSays
<1>5. framing.left[1] = Fetch /\ Len(framing.left) = 1 /\ DOMAIN framing.left = {1}
  <2>1. framing.left[1] \in Opening(framing.source)
    BY <1>3, <1>4 DEF Goal
  <2>2. framing.left[1] = Fetch
    BY <1>3, <2>1 DEF Opening, SeasonWrite, StageWrite
  <2>3. 1 = Len(framing.left)
    BY <1>1, <1>3, <1>4, <2>2 DEF FrameInv, WorkStands
  <2> QED
    BY <1>2, <2>2, <2>3
<1>6. Stands(SeasonWrite(PeriodOf(framing.source)))
  <2>1. SeasonWrite(PeriodOf(framing.source)) \in Goal(framing)
    BY <1>4 DEF Goal, Opening
  <2>2. SeasonWrite(PeriodOf(framing.source)).to # Fetch.to
    BY DEF SeasonWrite, Fetch
  <2> QED
    BY <1>1, <1>5, <2>1, <2>2 DEF FrameInv, WorkStands
<1>7. Stands(StageWrite("groups"))
  BY DEF Stands, StageWrite
<1>8. Orderly(left, T)
  BY <1>2, StandingsAreListed
<1> HIDE DEF left
<1>9. /\ framing' = [source |-> framing'.source, version |-> framing.version, clubs |-> framing.clubs,
                     fetched |-> TRUE, left |-> left]
      /\ framing'.source = [groups |-> source.groups, days |-> framing.source.days,
                            announced |-> framing.source.announced]
      /\ framing'.version = framing.version /\ framing'.clubs = framing.clubs /\ framing'.fetched = TRUE
      /\ framing'.left = left
  BY <1>1, <1>2
<1>10. Goal(framing)' = {SeasonWrite(PeriodOf(framing.source)), StageWrite("groups")} \cup T
  <2>1. Goal(framing)' = Wanted(framing'.source, framing.clubs, framing.version)
    BY <1>1, <1>9, GoalStays DEF Goal
  <2>2. PeriodOf(framing'.source) = PeriodOf(framing.source)
    BY <1>9 DEF PeriodOf
  <2>3. Wanted(framing'.source, framing.clubs, framing.version)
          = {SeasonWrite(PeriodOf(framing'.source))} \cup CupSet(framing'.source, framing.clubs, framing.version)
    BY <1>4 DEF Wanted, Grouped
  <2>4. CupSet(framing'.source, framing.clubs, framing.version) = {StageWrite("groups")} \cup T
    BY <1>9 DEF CupSet
  <2> HIDE DEF T
  <2> QED
    BY <2>1, <2>2, <2>3, <2>4
<1> HIDE DEF T
<1>11. FrameTypes'
  <2>1. left \in Seq(Goal(framing)')
    BY <1>8, <1>10 DEF Orderly, Lists
  <2> QED
    BY <1>1, <1>2, <1>9, <2>1 DEF FrameInv, FrameTypes
<1>12. WorkStands' /\ DoneStands'
  <2>1. \A w : Stands(w)' <=> Stands(w)
    BY <1>1, RowsStay
  <2>2. ASSUME NEW w \in Goal(framing)' PROVE Stands(w)' \/ \E i \in DOMAIN left : left[i] = w
    <3>1. CASE w \in T
      BY <1>8, <3>1 DEF Orderly, Lists
    <3>2. CASE w \notin T
      BY <1>6, <1>7, <1>10, <2>1, <3>2
    <3> QED
      BY <3>1, <3>2
  <2>3. \A i \in DOMAIN left : left[i].to = "club" =>
           \E j \in DOMAIN left : j < i /\ left[j] = GroupWrite(left[i].group)
    BY <1>8 DEF Orderly, GroupsFirst
  <2> QED
    BY <1>1, <1>2, <1>9, <2>2, <2>3 DEF WorkStands, DoneStands
<1>13. TablesBelong' /\ ClubsBelong'
  <2>1. edition \notin Tables
    BY <1>4 DEF Grouped, Tables
  <2>2. Belongs(source.groups)
    BY <1>4 DEF FrameInv, ClubsBelong
  <2> QED
    BY <1>1, <1>2, <1>9, <2>1, <2>2 DEF TablesBelong, ClubsBelong, Belongs, Shows, frameRows
<1> QED
  BY <1>11, <1>12, <1>13 DEF FrameInv

LEMMA FrameEndsInv ==
    ASSUME FrameInv, FrameEnds \/ FrameThrows
    PROVE  FrameInv'
<1>1. UNCHANGED <<edition, version, source, catalogue, frameRows, shifted>> /\ framing' = None /\ framing # None
  BY DEF FrameEnds, FrameThrows
<1>2. /\ \A w : Stands(w)' <=> Stands(w)
      /\ \A read, squad, v : Wanted(read, squad, v)' = Wanted(read, squad, v) /\ Opening(read)' = Opening(read)
  BY <1>1, RowsStay, GoalStays
<1>3. framed' # None => /\ framing.left = <<>> /\ framed' = [framing EXCEPT !.left = <<>>]
                        /\ framed'.source = framing.source /\ framed'.version = framing.version
                        /\ framed'.clubs = framing.clubs /\ framed'.fetched = framing.fetched
  BY <1>1 DEF FrameEnds, FrameThrows, FrameInv, FrameTypes
<1>4. FrameTypes'
  BY <1>1, <1>3 DEF FrameInv, FrameTypes
<1>5. WorkStands' /\ DoneStands'
  <2>1. framed' # None => \A w \in Goal(framing) : Stands(w)
    BY <1>1, <1>3 DEF FrameInv, WorkStands
  <2>2. framed' # None => framing.fetched
    <3>1. ~framing.fetched => Fetch \in Goal(framing)
      BY DEF Goal, Opening
    <3>2. ~Stands(Fetch)
      BY DEF Stands, Fetch
    <3> QED
      BY <1>1, <2>1, <3>1, <3>2 DEF FrameInv, FrameTypes
  <2>3. framed' # None => Goal(framed)' = Wanted(framing.source, framing.clubs, framing.version)
    BY <1>2, <1>3, <2>2 DEF Goal
  <2>4. framed' # None => Goal(framing) = Wanted(framing.source, framing.clubs, framing.version)
    BY <2>2 DEF Goal
  <2> QED
    BY <1>1, <1>2, <1>3, <2>1, <2>2, <2>3, <2>4 DEF WorkStands, DoneStands
<1>6. TablesBelong' /\ ClubsBelong'
  BY <1>1, <1>3 DEF FrameInv, TablesBelong, AllOfTable, ClubsBelong, Belongs, Shows, frameRows
<1> QED
  BY <1>4, <1>5, <1>6 DEF FrameInv

LEMMA TailIs ==
    ASSUME NEW W, NEW s \in Seq(W), s # <<>>
    PROVE  /\ 1 \in DOMAIN s /\ Head(s) = s[1]
           /\ Tail(s) \in Seq(W) /\ DOMAIN s = 1 .. Len(s) /\ Len(s) \in Nat
           /\ DOMAIN Tail(s) = 1 .. Len(s) - 1
           /\ \A i \in DOMAIN Tail(s) : i + 1 \in DOMAIN s /\ Tail(s)[i] = s[i + 1]
           /\ \A i \in DOMAIN s : i # 1 => i - 1 \in DOMAIN Tail(s) /\ Tail(s)[i - 1] = s[i]
OBVIOUS

LEMMA FrameStepIs ==
    ASSUME FrameInv, FrameStep, NEW w, w = Head(framing.left)
    PROVE  /\ framing # None /\ framing.left # <<>> /\ w.to \notin {"throw", "fetch"}
           /\ framing.left \in Seq(Goal(framing)) /\ w \in Goal(framing) /\ framed = None
           /\ UNCHANGED <<edition, version, source, catalogue, framed, shifted>>
           /\ framing' = [framing EXCEPT !.left = Tail(framing.left)]
           /\ framing'.source = framing.source /\ framing'.version = framing.version
           /\ framing'.clubs = framing.clubs /\ framing'.left = Tail(framing.left)
           /\ framing'.fetched = framing.fetched
           /\ season' = IF w.to = "season" THEN w.period ELSE season
           /\ groupRows' = CASE w.to = "group" -> GroupWritten(groupRows, w.group)
                             [] w.to = "club" -> [groupRows EXCEPT ![w.group] = @ \cup {w.club}]
                             [] OTHER -> groupRows
           /\ roundRows' = IF w.to = "round" THEN RoundWritten(roundRows, w.round) ELSE roundRows
           /\ references' = IF w.to = "reference" THEN references \cup {w.club} ELSE references
<1>1. framing # None /\ framing.left # <<>> /\ w.to \notin {"throw", "fetch"}
  BY DEF FrameStep
<1>2. framing.left \in Seq(Goal(framing)) /\ framed = None
  BY <1>1 DEF FrameInv, FrameTypes
<1>3. w \in Goal(framing)
  BY <1>1, <1>2
<1>4. framing' = [framing EXCEPT !.left = Tail(framing.left)]
  BY DEF FrameStep
<1>5. framing = [source |-> framing.source, version |-> framing.version,
                 clubs |-> framing.clubs, fetched |-> framing.fetched, left |-> framing.left]
  BY <1>1 DEF FrameInv, FrameTypes
<1>6. /\ framing'.source = framing.source /\ framing'.version = framing.version
      /\ framing'.clubs = framing.clubs /\ framing'.left = Tail(framing.left)
      /\ framing'.fetched = framing.fetched
  BY <1>4, <1>5
<1> QED
  BY <1>1, <1>2, <1>3, <1>4, <1>6 DEF FrameStep

\* The rows after a write.
LEMMA GroupsGrow ==
    ASSUME FrameInv, FrameStep
    PROVE  /\ DOMAIN groupRows \subseteq DOMAIN groupRows'
           /\ \A l \in DOMAIN groupRows : groupRows[l] \subseteq groupRows'[l]
           /\ \A l \in DOMAIN groupRows' \ DOMAIN groupRows : groupRows'[l] = {}
           /\ \A l \in DOMAIN groupRows : \A c \in groupRows'[l] \ groupRows[l] :
                LET w == Head(framing.left) IN w.to = "club" /\ w.group = l /\ w.club = c
<1> DEFINE w == Head(framing.left)
<1>1. groupRows' = CASE w.to = "group" -> GroupWritten(groupRows, w.group)
                             [] w.to = "club" -> [groupRows EXCEPT ![w.group] = @ \cup {w.club}]
                             [] OTHER -> groupRows
  BY FrameStepIs
<1> HIDE DEF w
<1>2. CASE w.to = "group"
  BY <1>1, <1>2 DEF GroupWritten
<1>3. CASE w.to = "club"
  <2>1. groupRows' = [l \in DOMAIN groupRows |-> IF l = w.group THEN groupRows[l] \cup {w.club} ELSE groupRows[l]]
    BY <1>1, <1>3
  <2> QED
    BY <1>3, <2>1 DEF w
<1>4. CASE w.to \notin {"group", "club"}
  BY <1>1, <1>4
<1> QED
  BY <1>2, <1>3, <1>4

LEMMA WriteStands ==
    ASSUME FrameInv, FrameStep
    PROVE  \A x \in Goal(framing) : Stands(x) \/ x = Head(framing.left) => Stands(x)'
<1> DEFINE w == Head(framing.left)
<1> SUFFICES ASSUME NEW x \in Goal(framing), Stands(x) \/ x = w PROVE Stands(x)'
  OBVIOUS
<1>0. /\ w.to \notin {"throw", "fetch"} /\ w \in Goal(framing) /\ framing.left # <<>> /\ framing # None
      /\ framing.left \in Seq(Goal(framing))
      /\ season' = IF w.to = "season" THEN w.period ELSE season
      /\ groupRows' = CASE w.to = "group" -> GroupWritten(groupRows, w.group)
                             [] w.to = "club" -> [groupRows EXCEPT ![w.group] = @ \cup {w.club}]
                             [] OTHER -> groupRows
      /\ roundRows' = IF w.to = "round" THEN RoundWritten(roundRows, w.round) ELSE roundRows
      /\ references' = IF w.to = "reference" THEN references \cup {w.club} ELSE references
  BY FrameStepIs
<1>1. /\ DOMAIN groupRows \subseteq DOMAIN groupRows'
      /\ \A l \in DOMAIN groupRows : groupRows[l] \subseteq groupRows'[l]
  BY GroupsGrow
<1>2. w.to = "club" => w.group \in DOMAIN groupRows
  <2> SUFFICES ASSUME w.to = "club", w.group \notin DOMAIN groupRows PROVE FALSE
    OBVIOUS
  <2>1. 1 \in DOMAIN framing.left /\ w = framing.left[1]
    BY <1>0
  <2> HIDE DEF w
  <2>2. PICK j \in DOMAIN framing.left : j < 1
    BY <1>0, <2>1 DEF FrameInv, WorkStands
  <2> QED
    BY <1>0, <2>2
<1>3. w.to = x.to => /\ w.to = "season" => w.period = x.period
                     /\ w.to = "round" /\ w.round.name = x.round.name => w.round = x.round
  <2>1. edition \in Cups \cup Tables /\ framing.version \in DOMAIN Versions /\ framing.fetched \in BOOLEAN
    BY <1>0 DEF FrameInv, FrameTypes
  <2> HIDE DEF w
  <2> QED
    BY <1>0, <2>1, WritesAgree
<1> HIDE DEF w
<1>4. x.to \notin {"throw", "fetch"}
  BY <1>0 DEF Stands
<1>5. x.to = "season" => season' = x.period
  BY <1>0, <1>3 DEF Stands
<1>6. x.to = "group" => x.group \in DOMAIN groupRows'
  <2>1. CASE x = w
    BY <1>0, <2>1 DEF GroupWritten
  <2>2. CASE Stands(x)
    BY <1>1, <2>2 DEF Stands
  <2> QED
    BY <2>1, <2>2
<1>7. x.to = "club" => x.group \in DOMAIN groupRows' /\ x.club \in groupRows'[x.group]
  <2>1. CASE x = w
    BY <1>0, <1>2, <2>1
  <2>2. CASE Stands(x)
    BY <1>1, <2>2 DEF Stands
  <2> QED
    BY <2>1, <2>2
<1>8. x.to = "round" => /\ x.round.name \in DOMAIN roundRows'
                        /\ roundRows'[x.round.name] = [legs |-> x.round.legs, order |-> x.round.order]
  <2> SUFFICES ASSUME x.to = "round"
               PROVE  /\ x.round.name \in DOMAIN roundRows'
                      /\ roundRows'[x.round.name] = [legs |-> x.round.legs, order |-> x.round.order]
    OBVIOUS
  <2>1. CASE w.to = "round" /\ w.round.name = x.round.name
    BY <1>0, <1>3, <2>1 DEF RoundWritten
  <2>2. CASE w.to = "round" /\ w.round.name # x.round.name
    BY <1>0, <2>2 DEF RoundWritten, Stands
  <2>3. CASE w.to # "round"
    BY <1>0, <2>3 DEF Stands
  <2> QED
    BY <2>1, <2>2, <2>3
<1>9. x.to = "reference" => x.club \in references'
  BY <1>0 DEF Stands
<1> QED
  BY <1>4, <1>5, <1>6, <1>7, <1>8, <1>9 DEF Stands

LEMMA FrameStepInv ==
    ASSUME FrameInv, FrameStep
    PROVE  FrameInv'
<1> DEFINE w == Head(framing.left)
           left == framing.left
<1>1. /\ framing # None /\ left # <<>> /\ left \in Seq(Goal(framing)) /\ w \in Goal(framing) /\ framed = None
      /\ UNCHANGED <<edition, version, source, catalogue, framed, shifted>>
      /\ framing' = [framing EXCEPT !.left = Tail(left)]
      /\ framing'.source = framing.source /\ framing'.version = framing.version
      /\ framing'.clubs = framing.clubs /\ framing'.left = Tail(left) /\ framing'.fetched = framing.fetched
      /\ roundRows' = IF w.to = "round" THEN RoundWritten(roundRows, w.round) ELSE roundRows
      /\ references' = IF w.to = "reference" THEN references \cup {w.club} ELSE references
  BY FrameStepIs
<1>2. /\ DOMAIN groupRows \subseteq DOMAIN groupRows'
      /\ \A l \in DOMAIN groupRows : groupRows[l] \subseteq groupRows'[l]
      /\ \A l \in DOMAIN groupRows' \ DOMAIN groupRows : groupRows'[l] = {}
      /\ \A l \in DOMAIN groupRows : \A c \in groupRows'[l] \ groupRows[l] :
           w.to = "club" /\ w.group = l /\ w.club = c
  BY GroupsGrow
<1>3. \A x \in Goal(framing) : Stands(x) \/ x = w => Stands(x)'
  BY WriteStands
<1>4. w.to = "group" => w.group \in DOMAIN groupRows'
  <2>1. w.to = "group" => groupRows' = GroupWritten(groupRows, w.group)
    BY FrameStepIs
  <2> QED
    BY <2>1 DEF GroupWritten
<1>5. Goal(framing)' = Goal(framing)
  <2>1. \A read, squad, v : Wanted(read, squad, v)' = Wanted(read, squad, v) /\ Opening(read)' = Opening(read)
    BY <1>1, GoalStays
  <2> QED
    BY <1>1, <2>1 DEF Goal
<1>6. /\ 1 \in DOMAIN left /\ w = left[1]
      /\ Tail(left) \in Seq(Goal(framing)) /\ DOMAIN left = 1 .. Len(left) /\ Len(left) \in Nat
      /\ DOMAIN Tail(left) = 1 .. Len(left) - 1
      /\ \A i \in DOMAIN Tail(left) : i + 1 \in DOMAIN left /\ Tail(left)[i] = left[i + 1]
      /\ \A i \in DOMAIN left : i # 1 => i - 1 \in DOMAIN Tail(left) /\ Tail(left)[i - 1] = left[i]
  <2>1. left # <<>> /\ left \in Seq(Goal(framing))
    BY <1>1
  <2> HIDE DEF left
  <2> QED
    BY <2>1, TailIs DEF left
<1> HIDE DEF w, left
<1>7. FrameTypes'
  BY <1>1, <1>5, <1>6 DEF FrameInv, FrameTypes
<1>8. WorkStands'
  <2>1. ASSUME NEW x \in Goal(framing) PROVE Stands(x)' \/ \E i \in DOMAIN Tail(left) : Tail(left)[i] = x
    <3>1. CASE Stands(x) \/ x = w
      BY <1>3, <3>1
    <3>2. CASE ~Stands(x) /\ x # w
      <4> PICK i \in DOMAIN left : left[i] = x
        BY <1>1, <3>2 DEF FrameInv, WorkStands, left
      <4>1. i # 1
        BY <1>6, <3>2
      <4> QED
        BY <1>6, <4>1
    <3> QED
      BY <3>1, <3>2
  <2>2. ASSUME NEW i \in DOMAIN Tail(left), Tail(left)[i].to = "club"
        PROVE  \/ Tail(left)[i].group \in DOMAIN groupRows'
               \/ \E j \in DOMAIN Tail(left) : j < i /\ Tail(left)[j] = GroupWrite(Tail(left)[i].group)
    <3>1. i + 1 \in DOMAIN left /\ Tail(left)[i] = left[i + 1]
      BY <1>6
    <3>2. \/ left[i + 1].group \in DOMAIN groupRows
          \/ \E j \in DOMAIN left : j < i + 1 /\ left[j] = GroupWrite(left[i + 1].group)
      BY <1>1, <2>2, <3>1 DEF FrameInv, WorkStands, left
    <3>3. CASE left[i + 1].group \in DOMAIN groupRows
      BY <1>2, <3>1, <3>3
    <3>4. ASSUME NEW j \in DOMAIN left, j < i + 1, left[j] = GroupWrite(left[i + 1].group)
          PROVE  \/ left[i + 1].group \in DOMAIN groupRows'
                 \/ \E k \in DOMAIN Tail(left) : k < i /\ Tail(left)[k] = GroupWrite(left[i + 1].group)
      <4>1. CASE j = 1
        <5>1. w = GroupWrite(left[i + 1].group)
          BY <1>6, <3>4, <4>1
        <5>2. w.to = "group" /\ w.group = left[i + 1].group
          BY <5>1 DEF GroupWrite
        <5>3. w.group \in DOMAIN groupRows'
          BY <1>4, <5>2
        <5> QED
          BY <5>2, <5>3
      <4>2. CASE j # 1
        <5>1. j - 1 \in DOMAIN Tail(left) /\ Tail(left)[j - 1] = left[j] /\ j - 1 < i
          BY <1>6, <3>4, <4>2
        <5> QED
          BY <3>4, <5>1
      <4> QED
        BY <4>1, <4>2
    <3> QED
      BY <3>1, <3>2, <3>3, <3>4
  <2>3. framing'.left = Tail(left) /\ framing'.fetched = framing.fetched
    BY <1>1
  <2>4. ASSUME ~framing.fetched, NEW i \in DOMAIN Tail(left), Tail(left)[i] = Fetch
        PROVE  i = Len(Tail(left))
    <3>1. i + 1 \in DOMAIN left /\ left[i + 1] = Fetch
      BY <1>6, <2>4
    <3>2. i + 1 = Len(left)
      BY <1>1, <2>4, <3>1 DEF FrameInv, WorkStands, left
    <3>3. Len(Tail(left)) = Len(left) - 1
      BY <1>1, <1>6
    <3> QED
      BY <1>6, <3>2, <3>3
  <2> QED
    BY <1>5, <2>1, <2>2, <2>3, <2>4 DEF WorkStands
<1>9. DoneStands'
  BY <1>1 DEF DoneStands
<1>10. edition \in Cups \cup Tables
  BY DEF FrameInv, FrameTypes
<1>11. w \in Goal(framing) /\ framing.fetched \in BOOLEAN
  BY <1>1 DEF FrameInv, FrameTypes
<1>12. ClubsBelong'
  <2> SUFFICES ASSUME edition \in Grouped
               PROVE  Belongs(source.groups)' /\ Belongs(framing.source.groups)'
    BY <1>1 DEF FrameInv, ClubsBelong, Shows
  <2>1. ASSUME NEW l \in DOMAIN groupRows', NEW c \in groupRows'[l]
        PROVE  Shows(source.groups, l, c) /\ Shows(framing.source.groups, l, c)
    <3>1. l \in DOMAIN groupRows
      BY <1>2, <2>1
    <3>2. CASE c \in groupRows[l]
      BY <1>1, <3>1, <3>2 DEF FrameInv, ClubsBelong, Belongs
    <3>3. CASE c \notin groupRows[l]
      <4>1. w.to = "club" /\ w.group = l /\ w.club = c
        BY <1>2, <3>1, <3>3
      <4>2. l \in DOMAIN framing.source.groups /\ c \in framing.source.groups[l]
        BY <1>10, <1>11, <4>1, GoalSays
      <4> QED
        BY <1>1, <4>2 DEF FrameInv, ClubsBelong, Shows
    <3> QED
      BY <3>2, <3>3
  <2> QED
    BY <1>1, <2>1 DEF Belongs, Shows
<1>13. TablesBelong'
  <2> SUFFICES ASSUME edition \in Tables PROVE TablesBelong'
    BY <1>1 DEF TablesBelong
  <2>0. edition \notin Grouped /\ edition \notin Cups
    BY DEF Tables, Grouped, Cups
  <2>1. ASSUME NEW l \in DOMAIN groupRows', NEW c \in groupRows'[l] PROVE c \in AllOfTable
    <3>1. l \in DOMAIN groupRows
      BY <1>2, <2>1
    <3>2. CASE c \in groupRows[l]
      BY <3>1, <3>2 DEF FrameInv, TablesBelong
    <3>3. CASE c \notin groupRows[l]
      <4>1. w.to = "club" /\ w.club = c
        BY <1>2, <3>1, <3>3
      <4> QED
        BY <1>10, <1>11, <2>0, <4>1, GoalSays
    <3> QED
      BY <3>2, <3>3
  <2>2. DOMAIN roundRows' \subseteq 1 .. LeagueRounds
    <3>1. CASE w.to = "round"
      <4> PICK n \in 1 .. LeagueRounds : w.round = Numbered(n)
        BY <1>10, <1>11, <2>0, <3>1, GoalSays
      <4>1. DOMAIN roundRows' = DOMAIN roundRows \cup {n}
        BY <1>1, <3>1 DEF RoundWritten, Numbered
      <4> QED
        BY <4>1 DEF FrameInv, TablesBelong
    <3>2. CASE w.to # "round"
      BY <1>1, <3>2 DEF FrameInv, TablesBelong
    <3> QED
      BY <3>1, <3>2
  <2>3. references' \subseteq AllClubs
    <3>1. w.to = "reference" => w.club \in AllClubs
      BY <1>10, <1>11, GoalSays
    <3> QED
      BY <1>1, <3>1 DEF FrameInv, TablesBelong
  <2> QED
    BY <1>1, <2>1, <2>2, <2>3 DEF TablesBelong, AllOfTable
<1> QED
  BY <1>7, <1>8, <1>9, <1>12, <1>13 DEF FrameInv

LEMMA FrameNextInv ==
    ASSUME FrameInv, [FrameNext]_frameVars
    PROVE  FrameInv'
<1>1. CASE UNCHANGED frameVars
  <2>1. UNCHANGED <<edition, version, source, catalogue, frameRows, framing, framed, shifted>>
    BY <1>1 DEF frameVars, frameRows
  <2>2. /\ \A w : Stands(w)' <=> Stands(w)
        /\ \A read, squad, v : Wanted(read, squad, v)' = Wanted(read, squad, v) /\ Opening(read)' = Opening(read)
    BY <2>1, RowsStay, GoalStays
  <2>3. FrameTypes'
    BY <2>1, <2>2 DEF FrameInv, FrameTypes, Goal
  <2>4. WorkStands' /\ DoneStands' /\ TablesBelong' /\ ClubsBelong'
    BY <2>1, <2>2
    DEF FrameInv, WorkStands, DoneStands, TablesBelong, AllOfTable, ClubsBelong, Belongs, Shows, Goal, frameRows
  <2> QED
    BY <2>3, <2>4 DEF FrameInv
<1> QED
  BY <1>1, SourcesMoveInv, OthersInv, FrameStartsInv, StandingsFetchedInv, FrameStepInv, FrameEndsInv DEF FrameNext

\* Written as they stand in the set, the writes are what the property asks for.
LEMMA FrameStands ==
    ASSUME FrameInv
    PROVE  FrameIsCurrent
<1> SUFFICES ASSUME framed # None
             PROVE  /\ season = PeriodOf(framed.source)
                    /\ edition \in Cups =>
                         \A r \in ToSet(Versions[framed.version]) :
                            roundRows[r.name] = [legs |-> r.legs, order |-> r.order]
                    /\ edition \in Grouped =>
                         \A l \in DOMAIN framed.source.groups :
                           /\ framed.source.groups[l] \cap framed.clubs \subseteq groupRows[l]
                           /\ groupRows[l] \ framed.source.groups[l] \subseteq shifted
                    /\ edition \in Tables =>
                         /\ groupRows["table"] = AllOfTable
                         /\ DOMAIN roundRows = 1 .. LeagueRounds
                         /\ edition = "serie_a" => references = AllClubs
  BY DEF FrameIsCurrent, AllOfTable, PeriodOf
<1> DEFINE G == Wanted(framed.source, framed.clubs, framed.version)
<1>1. \A w \in G : Stands(w)
  BY DEF FrameInv, DoneStands, Goal
<1>2. season = PeriodOf(framed.source)
  <2>1. SeasonWrite(PeriodOf(framed.source)) \in G
    BY DEF Wanted
  <2> QED
    BY <1>1, <2>1 DEF Stands, SeasonWrite
<1>3. ASSUME edition \in Cups, NEW r \in ToSet(Versions[framed.version])
      PROVE  roundRows[r.name] = [legs |-> r.legs, order |-> r.order]
  <2>1. RoundWrite(r) \in KnockoutSet(framed.version)
    BY <1>3 DEF ToSet, KnockoutSet
  <2>2. RoundWrite(r) \in G
    BY <1>3, <2>1 DEF Wanted, CupSet, Cups
  <2> QED
    BY <1>1, <2>2 DEF Stands, RoundWrite
<1>4. ASSUME edition \in Grouped, NEW l \in DOMAIN framed.source.groups
      PROVE  /\ framed.source.groups[l] \cap framed.clubs \subseteq groupRows[l]
             /\ groupRows[l] \ framed.source.groups[l] \subseteq shifted
  <2>1. GroupSet(l, framed.source.groups[l] \cap framed.clubs) \subseteq G
    <3>1. GroupSet(l, framed.source.groups[l] \cap framed.clubs) \subseteq TableSet(framed.source.groups, framed.clubs)
      BY <1>4 DEF TableSet
    <3> QED
      BY <1>4, <3>1 DEF Wanted, CupSet, Grouped
  <2>2. l \in DOMAIN groupRows
    <3>1. GroupWrite(l) \in G
      BY <2>1 DEF GroupSet
    <3> QED
      BY <1>1, <3>1 DEF Stands, GroupWrite
  <2>3. ASSUME NEW c \in framed.source.groups[l] \cap framed.clubs PROVE c \in groupRows[l]
    <3>1. ClubWrite(l, c) \in G
      BY <2>1 DEF GroupSet
    <3> QED
      BY <1>1, <3>1 DEF Stands, ClubWrite
  <2>4. ASSUME NEW c \in groupRows[l] \ framed.source.groups[l] PROVE c \in shifted
    BY <1>4, <2>2 DEF FrameInv, ClubsBelong, Belongs, Shows
  <2> QED
    BY <2>3, <2>4
<1>5. ASSUME edition \in Tables
      PROVE  /\ groupRows["table"] = AllOfTable
             /\ DOMAIN roundRows = 1 .. LeagueRounds
             /\ edition = "serie_a" => references = AllClubs
  <2>1. edition = "serie_a" => AllClubs \subseteq framed.clubs
    <3> SUFFICES ASSUME edition = "serie_a", ~(AllClubs \subseteq framed.clubs) PROVE FALSE
      OBVIOUS
    <3>1. [to |-> "throw"] \in G
      BY DEF Wanted, SerieASet
    <3> QED
      BY <1>1, <3>1 DEF Stands
  <2>2. LeagueSet(AllOfTable) \subseteq G
    BY <1>5, <2>1 DEF Wanted, SerieASet, AllOfTable, Tables
  <2>3. "table" \in DOMAIN groupRows
    <3>1. GroupWrite("table") \in G
      BY <2>2 DEF LeagueSet, GroupSet
    <3> QED
      BY <1>1, <3>1 DEF Stands, GroupWrite
  <2>4. ASSUME NEW c \in AllOfTable PROVE c \in groupRows["table"]
    <3>1. ClubWrite("table", c) \in G
      BY <2>2 DEF LeagueSet, GroupSet
    <3> QED
      BY <1>1, <3>1 DEF Stands, ClubWrite
  <2>5. ASSUME NEW n \in 1 .. LeagueRounds PROVE n \in DOMAIN roundRows
    <3>1. RoundWrite(Numbered(n)) \in G
      BY <2>2 DEF LeagueSet
    <3> QED
      BY <1>1, <3>1 DEF Stands, RoundWrite, Numbered
  <2>6. ASSUME edition = "serie_a", NEW c \in AllClubs PROVE c \in references
    <3>1. ReferenceWrite(c) \in G
      BY <2>1, <2>6 DEF Wanted, SerieASet
    <3> QED
      BY <1>1, <3>1 DEF Stands, ReferenceWrite
  <2> QED
    BY <1>5, <2>3, <2>4, <2>5, <2>6 DEF FrameInv, TablesBelong
<1> QED
  BY <1>2, <1>3, <1>4, <1>5

\* After a completed run of any of the five scripts the season's period, rounds, groups and
\* clubs are those its sources showed, for every number of versions, groups and clubs, whatever
\* the throws and the versions before left behind.
THEOREM FrameIsAlwaysCurrent == FrameSpec => []FrameIsCurrent
<1>1. FrameInit => FrameInv
  BY FrameInitInv
<1>2. FrameInv /\ [FrameNext]_frameVars => FrameInv'
  BY FrameNextInv
<1>3. FrameInv => FrameIsCurrent
  BY FrameStands
<1> QED
  BY <1>1, <1>2, <1>3, PTL DEF FrameSpec

-----------------------------------------------------------------------------
(* The cups.  First the ties and the legs a list makes, as orders of events. *)

\* What may be read of ESPN's list.
Readable(list) == \A e \in CupEvents : list[e] # None => list[e].day \in Days

\* Events by day, those of one day as they are listed.
Sooner(list, events) == [f \in events |-> {e \in events : Before(list, e, f)}]

LEMMA EventsAreFinite ==
    /\ IsFiniteSet(CupEvents) /\ CupEvents \subseteq Nat /\ Days \subseteq Nat
    /\ \A S \in SUBSET CupEvents : IsFiniteSet(S) /\ Cardinality(S) \in Nat
<1>1. Len(Fixture) \in Nat /\ CupEvents = 1 .. Len(Fixture) /\ Days \subseteq Nat
  BY CupSeedAssumption DEF CupSeedAssumption
<1>2. IsFiniteSet(CupEvents)
  BY <1>1, FS_Interval
<1>3. ASSUME NEW S \in SUBSET CupEvents PROVE IsFiniteSet(S) /\ Cardinality(S) \in Nat
  BY <1>2, FS_Subset, FS_CardinalityType
<1> QED
  BY <1>1, <1>2, <1>3

LEMMA DaysOrder ==
    ASSUME NEW list, Readable(list), NEW events, events \subseteq Read(list)
    PROVE  /\ Orders(Sooner(list, events)) /\ DOMAIN Sooner(list, events) = events
           /\ \A e, f \in events : e \in Sooner(list, events)[f] <=> Before(list, e, f)
           /\ \A e, f \in events : e = f \/ Before(list, e, f) \/ Before(list, f, e)
           /\ \A e, f \in events : ~(Before(list, e, f) /\ Before(list, f, e))
           /\ \A e, f, g \in events : Before(list, e, f) /\ Before(list, f, g) => Before(list, e, g)
<1> DEFINE ahead == Sooner(list, events)
<1>1. \A e \in events : e \in Nat /\ list[e].day \in Nat
  BY EventsAreFinite DEF Read, Readable
<1>2. IsFiniteSet(events)
  BY EventsAreFinite DEF Read
<1>3. /\ \A e, f \in events : e = f \/ Before(list, e, f) \/ Before(list, f, e)
      /\ \A e, f \in events : ~(Before(list, e, f) /\ Before(list, f, e))
      /\ \A e, f, g \in events : Before(list, e, f) /\ Before(list, f, g) => Before(list, e, g)
  BY <1>1 DEF Before
<1>4. /\ DOMAIN ahead = events /\ \A f \in events : ahead[f] = {e \in events : Before(list, e, f)}
  BY DEF Sooner
<1> HIDE DEF ahead
<1>5. /\ \A f \in events : ahead[f] \subseteq events /\ f \notin ahead[f]
      /\ \A f \in events : \A e \in ahead[f] : ahead[e] \subseteq ahead[f]
      /\ \A e, f \in events : e = f \/ e \in ahead[f] \/ f \in ahead[e]
  BY <1>3, <1>4
<1>6. Orders(ahead)
  BY <1>2, <1>4, <1>5 DEF Orders
<1> QED
  BY <1>3, <1>4, <1>6 DEF ahead

\* The first of some events.
LEMMA FirstOfAll ==
    ASSUME NEW list, Readable(list), NEW events, events \subseteq Read(list), events # {}
    PROVE  \E e \in events : \A f \in events : ~Before(list, f, e)
<1> DEFINE ahead == Sooner(list, events)
           s == InOrder(ahead)
           size == Cardinality(events)
<1>1. Orders(ahead) /\ DOMAIN ahead = events /\ \A e, f \in events : e \in ahead[f] <=> Before(list, e, f)
  BY DaysOrder
<1> HIDE DEF ahead
<1>2. /\ size \in Nat /\ s \in [1 .. size -> events]
      /\ \A n \in events : Cardinality(ahead[n]) + 1 \in 1 .. size
      /\ \A i \in 1 .. size : Cardinality(ahead[s[i]]) = i - 1
  BY <1>1, InOrderIs
<1> HIDE DEF s
<1>3. 1 \in 1 .. size
  BY <1>2
<1>4. s[1] \in events /\ Cardinality(ahead[s[1]]) = 0
  BY <1>2, <1>3
<1>5. \A f \in events : f \notin ahead[s[1]]
  <2> SUFFICES ASSUME NEW f \in events, f \in ahead[s[1]] PROVE FALSE
    OBVIOUS
  <2>1. Cardinality(ahead[f]) < Cardinality(ahead[s[1]]) /\ Cardinality(ahead[f]) \in Nat
    BY <1>1, <1>4, AheadIsSmaller
  <2> QED
    BY <1>4, <2>1
<1> QED
  BY <1>1, <1>4, <1>5

First(list, e) == CHOOSE f \in Legs(list, e) : IsFirstLeg(list, f)

LEMMA SameLegs ==
    ASSUME NEW list, NEW e, NEW f, RoundOf(e) = RoundOf(f), PairOf(e) = PairOf(f)
    PROVE  Legs(list, e) = Legs(list, f)
BY DEF Legs

LEMMA FirstIs ==
    ASSUME NEW list, Readable(list), NEW e \in Read(list)
    PROVE  /\ e \in Legs(list, e) /\ Legs(list, e) \subseteq Read(list)
           /\ First(list, e) \in Legs(list, e) /\ First(list, e) \in FirstLegs(list, RoundOf(e))
           /\ RoundOf(First(list, e)) = RoundOf(e) /\ PairOf(First(list, e)) = PairOf(e)
           /\ First(list, First(list, e)) = First(list, e)
           /\ IsFirstLeg(list, e) => First(list, e) = e
<1> DEFINE legs == Legs(list, e)
<1>1. e \in legs /\ legs \subseteq Read(list)
  BY DEF Legs
<1>2. \A f \in legs : RoundOf(f) = RoundOf(e) /\ PairOf(f) = PairOf(e) /\ Legs(list, f) = legs
  BY SameLegs DEF Legs
<1>3. \A f \in legs : IsFirstLeg(list, f) <=> \A g \in legs : ~Before(list, g, f)
  BY <1>2 DEF IsFirstLeg
<1> HIDE DEF legs
<1>4. \E f \in legs : IsFirstLeg(list, f)
  BY <1>1, <1>3, FirstOfAll
<1>5. First(list, e) \in legs /\ IsFirstLeg(list, First(list, e))
  BY <1>4 DEF First, legs
<1>6. \A f, g \in legs : IsFirstLeg(list, f) /\ IsFirstLeg(list, g) => f = g
  BY <1>1, <1>3, DaysOrder
<1> DEFINE a == First(list, e)
<1>7. First(list, a) = a
  <2>1. Legs(list, a) = legs
    BY <1>2, <1>5
  <2> QED
    BY <2>1 DEF First, legs
<1>8. a \in FirstLegs(list, RoundOf(e))
  BY <1>1, <1>2, <1>5 DEF FirstLegs
<1> QED
  BY <1>1, <1>2, <1>5, <1>6, <1>7, <1>8 DEF legs

\* Events of one tie are those of one pair in one round.
LEMMA TiesArePairs ==
    ASSUME NEW list, Readable(list), NEW e \in Read(list), NEW f \in Read(list)
    PROVE  TieOf(list, e) = TieOf(list, f) <=> RoundOf(e) = RoundOf(f) /\ PairOf(e) = PairOf(f)
<1> DEFINE F(r) == FirstLegs(list, r)
           A(r) == Sooner(list, F(r))
<1>1. /\ TieOf(list, e) = <<RoundOf(e), 1 + Cardinality(A(RoundOf(e))[First(list, e)])>>
      /\ TieOf(list, f) = <<RoundOf(f), 1 + Cardinality(A(RoundOf(f))[First(list, f)])>>
  BY FirstIs DEF TieOf, First, Sooner
<1>2. ASSUME RoundOf(e) = RoundOf(f), PairOf(e) = PairOf(f) PROVE TieOf(list, e) = TieOf(list, f)
  BY <1>1, <1>2, SameLegs DEF First
<1>3. ASSUME TieOf(list, e) = TieOf(list, f) PROVE RoundOf(e) = RoundOf(f) /\ PairOf(e) = PairOf(f)
  <2> DEFINE r == RoundOf(e)
             ahead == A(r)
  <2>1. r = RoundOf(f)
    BY <1>1, <1>3
  <2>2. F(r) \subseteq Read(list)
    BY DEF FirstLegs
  <2>3. Orders(ahead) /\ DOMAIN ahead = F(r)
    BY <2>2, DaysOrder
  <2>4. First(list, e) \in F(r) /\ First(list, f) \in F(r)
    BY <2>1, FirstIs
  <2>5. Cardinality(ahead[First(list, e)]) \in Nat /\ Cardinality(ahead[First(list, f)]) \in Nat
    BY <2>3, <2>4, AheadIsSmaller
  <2>6. 1 + Cardinality(ahead[First(list, e)]) = 1 + Cardinality(ahead[First(list, f)])
    BY <1>1, <1>3, <2>1
  <2> HIDE DEF ahead, F
  <2>7. Cardinality(ahead[First(list, e)]) = Cardinality(ahead[First(list, f)])
    BY <2>5, <2>6
  <2>8. First(list, e) \notin ahead[First(list, f)] /\ First(list, f) \notin ahead[First(list, e)]
    BY <2>3, <2>4, <2>5, <2>7, AheadIsSmaller
  <2>9. First(list, e) = First(list, f)
    BY <2>3, <2>4, <2>8 DEF Orders
  <2> QED
    BY <2>1, <2>9, FirstIs
<1> QED
  BY <1>2, <1>3

LEMMA LegsAreInOrder ==
    ASSUME NEW list, Readable(list), NEW e \in Read(list), NEW f \in Read(list),
           RoundOf(e) = RoundOf(f), PairOf(e) = PairOf(f)
    PROVE  /\ LegOf(list, e) \in Nat
           /\ Before(list, e, f) => LegOf(list, e) < LegOf(list, f)
           /\ LegOf(list, e) = 1 => IsFirstLeg(list, e)
<1> DEFINE legs == Legs(list, e)
           ahead == Sooner(list, legs)
<1>1. Legs(list, f) = legs /\ e \in legs /\ f \in legs /\ legs \subseteq Read(list)
  BY SameLegs, FirstIs
<1>2. LegOf(list, e) = 1 + Cardinality(ahead[e]) /\ LegOf(list, f) = 1 + Cardinality(ahead[f])
  BY <1>1 DEF LegOf, Sooner
<1>3. Orders(ahead) /\ DOMAIN ahead = legs /\ \A g, h \in legs : g \in ahead[h] <=> Before(list, g, h)
  BY <1>1, DaysOrder
<1>4. IsFirstLeg(list, e) <=> \A g \in legs : ~Before(list, g, e)
  BY DEF IsFirstLeg
<1> HIDE DEF legs, ahead
<1>5. Cardinality(ahead[e]) \in Nat /\ Cardinality(ahead[f]) \in Nat
  BY <1>1, <1>3, AheadIsSmaller
<1>6. Before(list, e, f) => Cardinality(ahead[e]) < Cardinality(ahead[f])
  BY <1>1, <1>3, AheadIsSmaller
<1>7. ASSUME LegOf(list, e) = 1, NEW g \in legs, Before(list, g, e) PROVE FALSE
  <2>1. Cardinality(ahead[g]) < Cardinality(ahead[e]) /\ Cardinality(ahead[g]) \in Nat
    BY <1>1, <1>3, <1>7, AheadIsSmaller
  <2> QED
    BY <1>2, <1>5, <1>7, <2>1
<1> QED
  BY <1>2, <1>4, <1>5, <1>6, <1>7

-----------------------------------------------------------------------------
(* What a run is to write, as a set. *)

TieWrite(list, e) == [to |-> "tie", at |-> TieOf(list, e), first |-> e]
BlankWrite(r, o) == [to |-> "placeholder", at |-> <<r, o>>]
GameWrite(e) == [to |-> "game", event |-> e]
TieSet(list, r) ==
    IF FirstLegs(list, r) # {} THEN {TieWrite(list, e) : e \in FirstLegs(list, r)}
      ELSE {BlankWrite(r, o) : o \in 1 .. CupRounds[r].ties}
MissingSet(missing) == {[to |-> "club", club |-> c] : c \in missing}
TieGoal(list) == UNION {TieSet(list, r) : r \in DOMAIN CupRounds}
GameGoal(list) == {GameWrite(e) : e \in Read(list)}
CupGoal(list) == TieGoal(list) \cup GameGoal(list)

LEMMA OrderIsListed ==
    ASSUME NEW list, Readable(list), NEW events, events \subseteq Read(list)
    PROVE  LET s == Chronological(list, events) IN
           /\ Lists(s, events)
           /\ \A i \in DOMAIN s : Cardinality({e \in events : Before(list, e, s[i])}) = i - 1
<1> DEFINE ahead == Sooner(list, events)
           s == InOrder(ahead)
           size == Cardinality(events)
<1>1. Chronological(list, events) = s
  BY DEF Chronological, Sooner
<1>2. Orders(ahead) /\ DOMAIN ahead = events
  BY DaysOrder
<1>3. \A f \in events : ahead[f] = {e \in events : Before(list, e, f)}
  BY DEF Sooner
<1> HIDE DEF ahead
<1>4. /\ size \in Nat /\ s \in [1 .. size -> events]
      /\ \A n \in events : Cardinality(ahead[n]) + 1 \in 1 .. size /\ s[Cardinality(ahead[n]) + 1] = n
      /\ \A i \in 1 .. size : Cardinality(ahead[s[i]]) = i - 1
  BY <1>2, InOrderIs
<1> HIDE DEF s, size
<1>5. s \in Seq(events) /\ DOMAIN s = 1 .. size
  BY <1>4
<1>6. \A w \in events : \E i \in DOMAIN s : s[i] = w
  BY <1>4, <1>5
<1>7. \A i \in DOMAIN s : s[i] \in events /\ Cardinality({e \in events : Before(list, e, s[i])}) = i - 1
  BY <1>3, <1>4, <1>5
<1> QED
  BY <1>1, <1>5, <1>6, <1>7 DEF Lists

LEMMA TiesAreListed ==
    ASSUME NEW list, Readable(list), NEW r \in DOMAIN CupRounds
    PROVE  Lists(TieWrites(list, r), TieSet(list, r)) /\ GroupsFirst(TieWrites(list, r))
<1> DEFINE F == FirstLegs(list, r)
           firsts == Chronological(list, F)
           W == TieWrites(list, r)
<1>1. F \subseteq Read(list) /\ \A e \in F : RoundOf(e) = r /\ IsFirstLeg(list, e)
  BY DEF FirstLegs
<1>2. /\ Lists(firsts, F)
      /\ \A i \in DOMAIN firsts : Cardinality({e \in F : Before(list, e, firsts[i])}) = i - 1
  BY <1>1, OrderIsListed
<1>3. W = IF firsts # <<>>
            THEN [i \in DOMAIN firsts |-> [to |-> "tie", at |-> <<r, i>>, first |-> firsts[i]]]
            ELSE [o \in 1 .. CupRounds[r].ties |-> [to |-> "placeholder", at |-> <<r, o>>]]
  BY DEF TieWrites
<1> HIDE DEF firsts, W
<1>4. firsts \in Seq(F) /\ \A w \in F : \E i \in DOMAIN firsts : firsts[i] = w
  BY <1>2 DEF Lists
<1>5. CASE F # {}
  <2>1. firsts # <<>>
    BY <1>4, <1>5
  <2>2. \A i \in DOMAIN firsts : i \in Nat /\ firsts[i] \in F
    BY <1>4
  <2>3. ASSUME NEW i \in DOMAIN firsts PROVE W[i] = TieWrite(list, firsts[i])
    <3> DEFINE e == firsts[i]
    <3>1. e \in F /\ RoundOf(e) = r /\ First(list, e) = e
      BY <1>1, <2>2, FirstIs
    <3>2. TieOf(list, e) = <<r, 1 + Cardinality({f \in F : Before(list, f, e)})>>
      BY <3>1 DEF TieOf, First
    <3>3. Cardinality({f \in F : Before(list, f, e)}) = i - 1
      BY <1>2
    <3>4. TieOf(list, e) = <<r, i>>
      BY <2>2, <3>2, <3>3
    <3> QED
      BY <1>3, <2>1, <3>4 DEF TieWrite
  <2>4. DOMAIN W = DOMAIN firsts /\ W = [i \in DOMAIN firsts |-> W[i]]
    BY <1>3, <2>1
  <2> DEFINE T == {TieWrite(list, e) : e \in F}
  <2>5. \A i \in DOMAIN firsts : W[i] \in T
    BY <2>2, <2>3
  <2>6. W \in Seq(T)
    BY <1>4, <2>4, <2>5
  <2>7. \A w \in T : \E i \in DOMAIN W : W[i] = w
    BY <1>4, <2>3, <2>4
  <2>8. \A i \in DOMAIN W : W[i].to # "club"
    BY <2>3, <2>4 DEF TieWrite
  <2> QED
    BY <1>5, <2>6, <2>7, <2>8 DEF Lists, GroupsFirst, TieSet, W
<1>6. CASE F = {}
  <2> DEFINE n == CupRounds[r].ties
             T == {BlankWrite(r, o) : o \in 1 .. n}
  <2>1. firsts = <<>>
    BY <1>4, <1>6
  <2>2. n \in Nat
    BY CupSeedAssumption DEF CupSeedAssumption
  <2>3. DOMAIN W = 1 .. n /\ W = [o \in 1 .. n |-> W[o]] /\ \A o \in 1 .. n : W[o] = BlankWrite(r, o)
    BY <1>3, <2>1 DEF BlankWrite
  <2>4. W \in Seq(T)
    <3>1. \A o \in 1 .. n : W[o] \in T
      BY <2>3
    <3> HIDE DEF T, n
    <3> QED
      BY <2>2, <2>3, <3>1 DEF n
  <2>5. \A w \in T : \E i \in DOMAIN W : W[i] = w
    BY <2>3
  <2>6. \A i \in DOMAIN W : W[i].to # "club"
    <3> HIDE DEF n
    <3> TAKE i \in DOMAIN W
    <3>1. W[i] = BlankWrite(r, i)
      BY <2>3
    <3> QED
      BY <3>1 DEF BlankWrite
  <2> QED
    BY <1>6, <2>4, <2>5, <2>6 DEF Lists, GroupsFirst, TieSet, W
<1> QED
  BY <1>5, <1>6

LEMMA PairsAreFinite ==
    ASSUME NEW events, events \subseteq CupEvents
    PROVE  IsFiniteSet(ClubsOf(events))
<1> DEFINE homes == [e \in events |-> Fixture[e].home]
           aways == [e \in events |-> Fixture[e].away]
           H == {Fixture[e].home : e \in events}
           A == {Fixture[e].away : e \in events}
<1>1. homes \in Surjection(events, H) /\ aways \in Surjection(events, A)
  BY DEF Surjection
<1>2. IsFiniteSet(events)
  BY EventsAreFinite
<1>3. ClubsOf(events) = H \cup A
  BY DEF ClubsOf, PairOf
<1> HIDE DEF homes, aways, H, A
<1> QED
  BY <1>1, <1>2, <1>3, FS_Surjection, FS_Union

LEMMA CupWritesAre ==
    ASSUME NEW list, Readable(list)
    PROVE  Lists(CupWrites(list), MissingSet(ClubsOf(Read(list)) \ clubs) \cup CupGoal(list))
<1> DEFINE missing == ClubsOf(Read(list)) \ clubs
           c == ClubWrites(list)
           seqs == [r \in DOMAIN CupRounds |-> TieWrites(list, r)]
           t == FlattenSeq(seqs)
           g == GameWrites(list)
           W == [r \in DOMAIN CupRounds |-> TieSet(list, r)]
           G == GameGoal(list)
<1>1. Lists(c, MissingSet(missing))
  <2> DEFINE f == SetToSeq(missing)
  <2>1. IsFiniteSet(missing)
    BY PairsAreFinite, FS_Subset DEF Read
  <2>2. Lists(f, missing)
    BY <2>1, SetIsListed
  <2>3. c = [i \in DOMAIN f |-> [to |-> "club", club |-> f[i]]]
    BY DEF ClubWrites
  <2> HIDE DEF f, c, missing
  <2>4. c \in Seq(MissingSet(missing))
    BY <2>2, <2>3 DEF Lists, MissingSet
  <2>5. \A w \in MissingSet(missing) : \E i \in DOMAIN c : c[i] = w
    BY <2>2, <2>3 DEF Lists, MissingSet
  <2> QED
    BY <2>4, <2>5 DEF Lists
<1>2. Lists(t, TieGoal(list))
  <2>1. Len(CupRounds) \in Nat /\ DOMAIN CupRounds = 1 .. Len(CupRounds)
    BY CupSeedAssumption DEF CupSeedAssumption
  <2>2. seqs \in Seq({TieWrites(list, r) : r \in DOMAIN CupRounds}) /\ DOMAIN seqs = DOMAIN CupRounds
    BY <2>1
  <2>3. \A r \in DOMAIN seqs : Lists(seqs[r], W[r]) /\ GroupsFirst(seqs[r])
    BY TiesAreListed
  <2>4. UNION {W[r] : r \in DOMAIN seqs} = TieGoal(list)
    BY <2>2 DEF TieGoal
  <2> HIDE DEF seqs, W
  <2>5. Lists(FlattenSeq(seqs), UNION {W[r] : r \in DOMAIN seqs})
    BY <2>2, <2>3, FlatIsListed
  <2> QED
    BY <2>4, <2>5
<1>3. Lists(g, G)
  <2> DEFINE events == Chronological(list, Read(list))
  <2>1. Lists(events, Read(list))
    BY OrderIsListed
  <2>2. g = [i \in DOMAIN events |-> GameWrite(events[i])]
    BY DEF GameWrites, GameWrite
  <2> HIDE DEF events, g
  <2>3. g \in Seq(G)
    BY <2>1, <2>2 DEF Lists, GameGoal
  <2>4. \A w \in G : \E i \in DOMAIN g : g[i] = w
    BY <2>1, <2>2 DEF Lists, GameGoal
  <2> QED
    BY <2>3, <2>4 DEF Lists
<1>4. CupWrites(list) = c \o t \o g
  BY DEF CupWrites
<1> HIDE DEF c, t, g, missing
<1>5. Lists(c \o t, MissingSet(missing) \cup TieGoal(list))
  BY <1>1, <1>2, ListsJoin
<1>6. Lists((c \o t) \o g, (MissingSet(missing) \cup TieGoal(list)) \cup G)
  BY <1>3, <1>5, ListsJoin
<1>7. (MissingSet(missing) \cup TieGoal(list)) \cup G
        = MissingSet(missing) \cup CupGoal(list)
  BY DEF CupGoal
<1> QED
  BY <1>4, <1>6, <1>7 DEF missing

LEMMA TieIsPlace ==
    ASSUME NEW list, NEW e \in Read(list)
    PROVE  TieOf(list, e) \in (DOMAIN CupRounds) \X Nat
<1>1. RoundOf(e) \in DOMAIN CupRounds
  BY CupSeedAssumption DEF CupSeedAssumption, RoundOf, Read
<1> DEFINE S == {f \in FirstLegs(list, RoundOf(e)) : Before(list, f, First(list, e))}
<1>2. S \subseteq CupEvents
  BY DEF FirstLegs, Read
<1>3. Cardinality(S) \in Nat
  BY <1>2, EventsAreFinite
<1>4. TieOf(list, e) = <<RoundOf(e), 1 + Cardinality(S)>>
  BY DEF TieOf, First
<1> QED
  BY <1>1, <1>3, <1>4

LEMMA GoalIsTyped ==
    ASSUME NEW list
    PROVE  MissingSet(ClubsOf(CupEvents)) \cup CupGoal(list) \subseteq CupWrite
<1>1. MissingSet(ClubsOf(CupEvents)) \subseteq CupWrite
  BY DEF MissingSet, CupWrite
<1>2. GameGoal(list) \subseteq CupWrite
  BY DEF GameGoal, GameWrite, Read, CupWrite
<1>3. ASSUME NEW r \in DOMAIN CupRounds, NEW w \in TieSet(list, r) PROVE w \in CupWrite
  <2>1. CASE FirstLegs(list, r) # {}
    <3> PICK e \in FirstLegs(list, r) : w = TieWrite(list, e)
      BY <1>3, <2>1 DEF TieSet
    <3>1. e \in Read(list) /\ e \in CupEvents
      BY DEF FirstLegs, Read
    <3> QED
      BY <3>1, TieIsPlace DEF TieWrite, CupWrite
  <2>2. CASE FirstLegs(list, r) = {}
    <3> PICK o \in 1 .. CupRounds[r].ties : w = BlankWrite(r, o)
      BY <1>3, <2>2 DEF TieSet
    <3>1. o \in Nat
      BY CupSeedAssumption DEF CupSeedAssumption
    <3> QED
      BY <3>1 DEF BlankWrite, CupWrite
  <2> QED
    BY <2>1, <2>2
<1> QED
  BY <1>1, <1>2, <1>3 DEF CupGoal, TieGoal

-----------------------------------------------------------------------------
(* The invariant of the cups' scripts. *)

Over(list, e) == list[e] # None /\ Ended(list[e].status)
Finished(e) == games[e] # None /\ games[e].status = "FINISHED"

\* The write has left what it was to leave.
Written(list, w) ==
    /\ w.to = "tie" =>
         /\ w.at \in DOMAIN ties
         /\ ties[w.at] = [home |-> Fixture[w.first].home, away |-> Fixture[w.first].away]
    /\ w.to = "placeholder" => w.at \in DOMAIN ties
    /\ w.to = "game" =>
         /\ games[w.event] # None /\ games[w.event].day = list[w.event].day
         /\ games[w.event].tie = TieOf(list, w.event) /\ games[w.event].leg = LegOf(list, w.event)

\* The run under way read this list.
ReadFrom(list) == script # None /\ script.list = list
\* ... and the last completed run that one.
Mirrors(list) == script = None /\ mirrored # None /\ mirrored = list

CupTypes ==
    /\ cup \in {"libertadores", "copa_do_brasil"}
    /\ games \in [CupEvents -> {None} \cup GameRow]
    /\ listed \in [CupEvents -> {None} \cup ListedEvent]
    /\ script \in {None} \cup CupRun
    /\ \A list : ReadFrom(list) =>
         /\ Readable(list)
         /\ script.left \in Seq(MissingSet(ClubsOf(CupEvents)) \cup CupGoal(list))

NumbersApart ==
    \A e, f \in CupEvents :
       (games[e] # None /\ games[f] # None /\ games[e].number = games[f].number) => e = f

\* What a run is to write it has left, or it is written.
RestIsWritten ==
    \A list : ReadFrom(list) =>
       \A w \in CupGoal(list) :
          Written(list, w) \/ \E i \in DOMAIN script.left : script.left[i] = w

\* A match is finished once it is over in ESPN's list, where it stays over.
FinishedIsOver ==
    /\ \A e \in CupEvents : Finished(e) => Over(listed, e)
    /\ \A list : ReadFrom(list) => \A e \in CupEvents :
         /\ Over(list, e) => Over(listed, e)
         /\ Finished(e) => e \in late \/ Over(list, e)

MirroredIsWritten ==
    \A list : Mirrors(list) =>
       Readable(list) /\ \A w \in CupGoal(list) : Written(list, w)

CupInv == CupTypes /\ NumbersApart /\ RestIsWritten /\ FinishedIsOver /\ MirroredIsWritten

-----------------------------------------------------------------------------
(* The numbers, and the steps. *)

LEMMA MaxIs ==
    ASSUME NEW S, S \subseteq Nat, IsFiniteSet(S), S # {}
    PROVE  Max(S) \in S /\ \A y \in S : y <= Max(S)
<1> DEFINE ahead == [n \in S |-> {m \in S : m < n}]
           s == InOrder(ahead)
           size == Cardinality(S)
<1>0. \A n \in S : n \in Nat
  OBVIOUS
<1>1. DOMAIN ahead = S /\ \A m, n \in S : m \in ahead[n] <=> m < n
  OBVIOUS
<1>2. \A n \in S : ahead[n] \subseteq S
  OBVIOUS
<1> HIDE DEF ahead
<1>3. Orders(ahead)
  <2>1. \A n \in S : n \notin ahead[n] /\ \A m \in ahead[n] : ahead[m] \subseteq ahead[n]
    <3> TAKE n \in S
    <3>1. n \notin ahead[n]
      BY <1>0, <1>1
    <3>2. ASSUME NEW m \in ahead[n] PROVE ahead[m] \subseteq ahead[n]
      <4>1. m \in S /\ m < n /\ ahead[m] \subseteq S
        BY <1>1, <1>2, <3>2
      <4>2. ASSUME NEW k \in S, k < m PROVE k < n
        <5>1. k \in Nat /\ m \in Nat /\ n \in Nat
          BY <1>0, <4>1
        <5> QED
          BY <4>1, <4>2, <5>1
      <4>3. \A k \in S : k \in ahead[m] => k \in ahead[n]
        BY <1>1, <4>1, <4>2
      <4> QED
        BY <4>1, <4>3
    <3> QED
      BY <3>1, <3>2
  <2>2. \A m, n \in S : m = n \/ m \in ahead[n] \/ n \in ahead[m]
    <3> TAKE m, n \in S
    <3>1. m \in Nat /\ n \in Nat
      BY <1>0
    <3>2. m = n \/ m < n \/ n < m
      BY <3>1
    <3> QED
      BY <1>1, <3>2
  <2> QED
    BY <1>1, <1>2, <2>1, <2>2 DEF Orders
<1>4. /\ size \in Nat /\ s \in [1 .. size -> S]
      /\ \A n \in S : Cardinality(ahead[n]) + 1 \in 1 .. size /\ s[Cardinality(ahead[n]) + 1] = n
      /\ \A i, j \in 1 .. size : i < j <=> s[i] \in ahead[s[j]]
  BY <1>1, <1>3, InOrderIs
<1> HIDE DEF s, size
<1>5. size \in 1 .. size
  <2>1. PICK n \in S : Cardinality(ahead[n]) + 1 \in 1 .. size
    BY <1>4
  <2>2. 1 <= size
    BY <1>4, <2>1
  <2> QED
    BY <1>4, <2>2
<1>6. s[size] \in S
  BY <1>4, <1>5
<1>7. ASSUME NEW y \in S PROVE y <= s[size]
  <2> DEFINE i == Cardinality(ahead[y]) + 1
  <2>1. i \in 1 .. size /\ s[i] = y
    BY <1>4
  <2> HIDE DEF i
  <2>2. i = size \/ i < size
    BY <1>4, <2>1
  <2>4. y \in Nat /\ s[size] \in Nat
    BY <1>0, <1>6
  <2>3. i < size => y < s[size]
    BY <1>1, <1>4, <1>5, <1>6, <2>1
  <2> QED
    BY <2>1, <2>2, <2>3, <2>4
<1>8. \E x \in S : \A y \in S : x >= y
  BY <1>6, <1>7
<1>9. Max(S) \in S /\ \A y \in S : Max(S) >= y
  BY <1>8 DEF Max
<1> QED
  BY <1>9

LEMMA RowFields ==
    ASSUME CupTypes, NEW e \in CupEvents, games[e] # None
    PROVE  /\ games[e] \in GameRow /\ games[e].number \in Nat
           /\ games[e].status \in {"SCHEDULED", "LIVE", "FINISHED"}
BY DEF CupTypes, GameRow

\* The number of a row is its own.
LEMMA NumberIsFresh ==
    ASSUME CupTypes, NumbersApart, NEW e \in CupEvents
    PROVE  /\ NumberOf(e) \in Nat
           /\ \A f \in CupEvents \ {e} : games[f] # None => games[f].number # NumberOf(e)
<1>1. CASE games[e] # None
  BY <1>1, RowFields DEF NumberOf, NumbersApart
<1>2. CASE games[e] = None
  <2> DEFINE numbered == {g \in CupEvents : games[g] # None}
             taken == {games[f].number : f \in numbered}
             all == {0} \cup taken
             h == [f \in numbered |-> games[f].number]
  <2>1. h \in Surjection(numbered, taken)
    BY DEF Surjection
  <2>2. IsFiniteSet(numbered)
    BY EventsAreFinite
  <2> HIDE DEF h, numbered
  <2>3. IsFiniteSet(taken)
    BY <2>1, <2>2, FS_Surjection
  <2>4. taken \subseteq Nat
    BY RowFields DEF numbered
  <2> HIDE DEF taken
  <2>5. IsFiniteSet(all) /\ all \subseteq Nat /\ all # {}
    BY <2>3, <2>4, FS_AddElement
  <2>6. Max(all) \in Nat /\ \A y \in all : y <= Max(all)
    BY <2>5, MaxIs
  <2>7. NumberOf(e) = 1 + Max(all)
    BY <1>2 DEF NumberOf, taken, numbered
  <2> HIDE DEF all
  <2>8. ASSUME NEW f \in CupEvents, games[f] # None PROVE games[f].number < NumberOf(e)
    <3>1. games[f].number \in all
      BY <2>8 DEF all, taken, numbered
    <3>2. games[f].number \in Nat
      BY <2>8, RowFields
    <3> QED
      BY <2>6, <2>7, <3>1, <3>2
  <2>9. \A f \in CupEvents : games[f] # None => games[f].number \in Nat
    BY RowFields
  <2> QED
    BY <2>6, <2>7, <2>8, <2>9
<1> QED
  BY <1>1, <1>2

LEMMA GoalIs ==
    ASSUME NEW list, Readable(list), NEW w \in CupGoal(list)
    PROVE  \/ \E e \in Read(list) : w = TieWrite(list, e) /\ First(list, e) = e
           \/ \E r \in DOMAIN CupRounds : /\ FirstLegs(list, r) = {}
                                          /\ \E o \in 1 .. CupRounds[r].ties : w = BlankWrite(r, o)
           \/ \E e \in Read(list) : w = GameWrite(e)
<1>1. CASE w \in GameGoal(list)
  BY <1>1 DEF GameGoal
<1>2. CASE w \in TieGoal(list)
  <2> PICK r \in DOMAIN CupRounds : w \in TieSet(list, r)
    BY <1>2 DEF TieGoal
  <2>1. CASE FirstLegs(list, r) = {}
    BY <2>1 DEF TieSet
  <2>2. CASE FirstLegs(list, r) # {}
    <3> PICK e \in FirstLegs(list, r) : w = TieWrite(list, e)
      BY <2>2 DEF TieSet
    <3>1. e \in Read(list) /\ IsFirstLeg(list, e)
      BY DEF FirstLegs
    <3> QED
      BY <3>1, FirstIs
  <2> QED
    BY <2>1, <2>2
<1> QED
  BY <1>1, <1>2 DEF CupGoal

\* The row a write of a match leaves.
LEMMA WrittenRow ==
    ASSUME CupTypes, NumbersApart, NEW list, Readable(list), NEW e \in Read(list)
    PROVE  [tie |-> TieOf(list, e), leg |-> LegOf(list, e), day |-> list[e].day,
            number |-> NumberOf(e), status |-> MappedStatus(list[e].status)] \in GameRow
<1>1. e \in CupEvents /\ list[e].day \in Days
  BY DEF Read, Readable
<1>2. NumberOf(e) \in Nat
  BY <1>1, NumberIsFresh
<1>3. LegOf(list, e) \in Nat
  BY LegsAreInOrder
<1>4. TieOf(list, e) \in (DOMAIN CupRounds) \X Nat
  BY TieIsPlace
<1>5. MappedStatus(list[e].status) \in {"SCHEDULED", "LIVE", "FINISHED"}
  BY DEF MappedStatus
<1> QED
  BY <1>1, <1>2, <1>3, <1>4, <1>5 DEF GameRow

LEMMA CupInitInv == CupInit => CupInv
<1> SUFFICES ASSUME CupInit PROVE CupInv
  OBVIOUS
<1>1. script = None /\ mirrored = None /\ \A e \in CupEvents : games[e] = None
  BY DEF CupInit
<1>2. CupTypes
  BY <1>1 DEF CupInit, CupTypes, ReadFrom, ListedEvent
<1> QED
  BY <1>1, <1>2 DEF CupInv, NumbersApart, RestIsWritten, FinishedIsOver, MirroredIsWritten, Finished,
                    ReadFrom, Mirrors

\* What is over stays over.
LEMMA ListMovesKeeps == CupInv /\ ListMoves => CupInv'
<1> SUFFICES ASSUME CupInv, ListMoves PROVE CupInv'
  OBVIOUS
<1>1. UNCHANGED <<cup, clubs, ties, games, script, mirrored, late>>
  BY DEF ListMoves
<1>2. PICK e \in CupEvents, new \in ListedEvent :
         listed' = [listed EXCEPT ![e] = new] /\ ~Over(listed, e)
  <2> PICK e \in CupEvents :
         \/ \E d \in Days :
              /\ listed[e] # None => listed[e].status = "SCHEDULED" /\ listed[e].day # d
              /\ listed' = [listed EXCEPT ![e] = [day |-> d, status |-> "SCHEDULED"]]
         \/ /\ listed[e] # None
            /\ \E s \in CASE listed[e].status = "SCHEDULED" -> {"IN_PROGRESS"} \cup EndStatuses
                          [] listed[e].status = "IN_PROGRESS" -> {"OVERTIME"} \cup EndStatuses
                          [] listed[e].status = "OVERTIME" -> EndStatuses \ {"FULL_TIME"}
                          [] OTHER -> {} :
                 listed' = [listed EXCEPT ![e].status = s]
    BY DEF ListMoves
  <2>1. ASSUME NEW d \in Days,
               listed[e] # None => listed[e].status = "SCHEDULED" /\ listed[e].day # d,
               listed' = [listed EXCEPT ![e] = [day |-> d, status |-> "SCHEDULED"]]
        PROVE  \E new \in ListedEvent :
                  listed' = [listed EXCEPT ![e] = new] /\ ~Over(listed, e)
    <3>1. [day |-> d, status |-> "SCHEDULED"] \in ListedEvent
      BY DEF ListedEvent
    <3>2. ~Over(listed, e)
      BY <2>1 DEF Over, Ended, EndStatuses
    <3> QED
      BY <2>1, <3>1, <3>2
  <2>2. ASSUME listed[e] # None,
               NEW s \in CASE listed[e].status = "SCHEDULED" -> {"IN_PROGRESS"} \cup EndStatuses
                           [] listed[e].status = "IN_PROGRESS" -> {"OVERTIME"} \cup EndStatuses
                           [] listed[e].status = "OVERTIME" -> EndStatuses \ {"FULL_TIME"}
                           [] OTHER -> {},
               listed' = [listed EXCEPT ![e].status = s]
        PROVE  \E new \in ListedEvent :
                  listed' = [listed EXCEPT ![e] = new] /\ ~Over(listed, e)
    <3> DEFINE new == [listed[e] EXCEPT !.status = s]
    <3>1. listed[e] \in ListedEvent
      BY <2>2 DEF CupInv, CupTypes
    <3>2. /\ s \in {"IN_PROGRESS", "OVERTIME"} \cup EndStatuses
          /\ listed[e].status \in {"SCHEDULED", "IN_PROGRESS", "OVERTIME"}
      BY <2>2
    <3>3. new \in ListedEvent
      BY <3>1, <3>2 DEF ListedEvent
    <3>4. listed' = [listed EXCEPT ![e] = new]
      BY <2>2
    <3>5. ~Over(listed, e)
      BY <3>2 DEF Over, Ended, EndStatuses
    <3> QED
      BY <3>3, <3>4, <3>5
  <2> QED
    BY <2>1, <2>2
<1>3. listed' \in [CupEvents -> {None} \cup ListedEvent]
  BY <1>2 DEF CupInv, CupTypes
<1>4. \A f \in CupEvents : Over(listed, f) => listed'[f] = listed[f]
  BY <1>2 DEF CupInv, CupTypes
<1>5. CupTypes'
  BY <1>1, <1>3 DEF CupInv, CupTypes, ReadFrom
<1>6. FinishedIsOver'
  BY <1>1, <1>4 DEF CupInv, FinishedIsOver, Finished, Over, ReadFrom
<1>7. NumbersApart' /\ RestIsWritten' /\ MirroredIsWritten'
  BY <1>1 DEF CupInv, NumbersApart, RestIsWritten, MirroredIsWritten, Written, ReadFrom, Mirrors
<1> QED
  BY <1>5, <1>6, <1>7 DEF CupInv

LEMMA RobotMovesKeeps == ASSUME NEW e \in CupEvents PROVE CupInv /\ RobotMoves(e) => CupInv'
<1> SUFFICES ASSUME CupInv, RobotMoves(e) PROVE CupInv'
  OBVIOUS
<1>1. UNCHANGED <<cup, listed, clubs, ties, script, mirrored>> /\ games[e] # None
  BY DEF RobotMoves
<1>2. games[e] \in GameRow /\ games \in [CupEvents -> {None} \cup GameRow]
  BY <1>1 DEF CupInv, CupTypes
<1>3. PICK s \in {"LIVE", "FINISHED"} :
         /\ games' = [games EXCEPT ![e].status = s]
         /\ s = "FINISHED" => Over(listed, e) /\ (script # None => e \in late')
         /\ late \subseteq late'
  BY <1>1 DEF RobotMoves, Over
<1> DEFINE row == [games[e] EXCEPT !.status = s]
<1>4. row \in GameRow /\ row # None /\ row.status = s
      /\ row.number = games[e].number /\ row.day = games[e].day
      /\ row.tie = games[e].tie /\ row.leg = games[e].leg
  BY <1>2, CupSeedAssumption DEF CupSeedAssumption, GameRow
<1>5. games' = [games EXCEPT ![e] = row]
  BY <1>3
<1> HIDE DEF row
<1>6. games' \in [CupEvents -> {None} \cup GameRow]
  BY <1>2, <1>4, <1>5
<1>7. /\ games'[e] = row
      /\ \A f \in CupEvents : f # e => games'[f] = games[f]
      /\ \A f \in CupEvents : /\ (games'[f] # None) <=> (games[f] # None)
                              /\ games[f] # None =>
                                   /\ games'[f].number = games[f].number /\ games'[f].day = games[f].day
                                   /\ games'[f].tie = games[f].tie /\ games'[f].leg = games[f].leg
  BY <1>1, <1>2, <1>4, <1>5
<1>8. CupTypes'
  BY <1>1, <1>6 DEF CupInv, CupTypes, ReadFrom
<1>9. NumbersApart'
  BY <1>7 DEF CupInv, NumbersApart
<1>10. ASSUME NEW list, NEW w \in CupGoal(list), Readable(list), Written(list, w) PROVE Written(list, w)'
  <2>1. w.to = "game" => w.event \in CupEvents
    BY <1>10, GoalIs DEF GameWrite, TieWrite, BlankWrite, Read
  <2> QED
    BY <1>1, <1>7, <1>10, <2>1 DEF Written
<1>11. RestIsWritten'
  BY <1>1, <1>10 DEF CupInv, CupTypes, RestIsWritten, ReadFrom
<1>12. MirroredIsWritten'
  BY <1>1, <1>10 DEF CupInv, MirroredIsWritten, Mirrors
<1>13. FinishedIsOver'
  BY <1>1, <1>3, <1>4, <1>7 DEF CupInv, FinishedIsOver, Finished, Over, ReadFrom
<1> QED
  BY <1>8, <1>9, <1>11, <1>12, <1>13 DEF CupInv

LEMMA RunKeeps == CupInv /\ Run => CupInv'
<1> SUFFICES ASSUME CupInv, Run PROVE CupInv'
  OBVIOUS
<1>1. /\ UNCHANGED <<cup, listed, clubs, ties, games, mirrored>> /\ script = None
      /\ script' = [list |-> listed, left |-> CupWrites(listed)]
  BY DEF Run
<1> PICK list : list = listed
  OBVIOUS
<1>2. Readable(list)
  BY DEF CupInv, CupTypes, Readable, ListedEvent
<1> DEFINE left == CupWrites(list)
           G == CupGoal(list)
<1>3. Lists(left, MissingSet(ClubsOf(Read(list)) \ clubs) \cup G)
  BY <1>2, CupWritesAre
<1>4. MissingSet(ClubsOf(Read(list)) \ clubs) \subseteq MissingSet(ClubsOf(CupEvents))
  BY DEF MissingSet, ClubsOf, Read
<1>5. /\ left \in Seq(MissingSet(ClubsOf(CupEvents)) \cup G)
      /\ \A w \in G : \E i \in DOMAIN left : left[i] = w
  <2> DEFINE A == MissingSet(ClubsOf(Read(list)) \ clubs)
             B == MissingSet(ClubsOf(CupEvents))
  <2>1. left \in Seq(A \cup G) /\ A \subseteq B /\ \A w \in A \cup G : \E i \in DOMAIN left : left[i] = w
    BY <1>3, <1>4 DEF Lists
  <2> HIDE DEF left, G, A, B
  <2>2. left \in Seq(B \cup G)
    BY <2>1
  <2> QED
    BY <2>1, <2>2 DEF B
<1>6. /\ script' = [list |-> list, left |-> left] /\ script'.list = list /\ script'.left = left
  BY <1>1
<1> HIDE DEF left
<1>7. \A l : ReadFrom(l)' => l = list
  BY <1>6 DEF ReadFrom
<1>8. CupTypes'
  <2>1. left \in Seq(CupWrite)
    BY <1>5, GoalIsTyped
  <2>2. list \in [CupEvents -> {None} \cup ListedEvent]
    BY DEF CupInv, CupTypes
  <2>3. script' \in CupRun
    BY <1>6, <2>1, <2>2 DEF CupRun
  <2> QED
    BY <1>1, <1>2, <1>5, <1>6, <1>7, <2>3 DEF CupInv, CupTypes
<1>9. RestIsWritten'
  BY <1>5, <1>6, <1>7 DEF RestIsWritten
<1>10. FinishedIsOver'
  BY <1>1, <1>7 DEF CupInv, FinishedIsOver, Finished, Over
<1>11. NumbersApart'
  BY <1>1 DEF CupInv, NumbersApart
<1>12. MirroredIsWritten'
  BY <1>1 DEF CupInv, MirroredIsWritten, Mirrors, Written
<1> QED
  BY <1>8, <1>9, <1>10, <1>11, <1>12 DEF CupInv

-----------------------------------------------------------------------------
(* A write leaves what it was to leave, and what was written stands. *)

\* Two first legs of one tie are one.
LEMMA FirstLegsDiffer ==
    ASSUME NEW list, Readable(list), NEW e \in Read(list), NEW f \in Read(list),
           First(list, e) = e, First(list, f) = f, TieOf(list, e) = TieOf(list, f)
    PROVE  e = f
<1>1. Legs(list, e) = Legs(list, f)
  BY TiesArePairs, SameLegs
<1> QED
  BY <1>1 DEF First

\* What a step of a run does with the write at its head.
LEMMA CupStepIs ==
    ASSUME CupInv, Write, NEW list, ReadFrom(list), NEW w, w = Head(script.left)
    PROVE  /\ script.left # <<>> /\ Readable(list)
           /\ script.left \in Seq(MissingSet(ClubsOf(CupEvents)) \cup CupGoal(list))
           /\ w \in MissingSet(ClubsOf(CupEvents)) \cup CupGoal(list)
           /\ UNCHANGED <<cup, listed, moves, mirrored, late>>
           /\ script' = [list |-> list, left |-> Tail(script.left)]
           /\ script'.list = list /\ script'.left = Tail(script.left) /\ script' # None
           /\ script' \in CupRun
           /\ ties' = CASE w.to = "tie" ->
                             WithRow(ties, w.at, [home |-> Fixture[w.first].home, away |-> Fixture[w.first].away])
                        [] w.to = "placeholder" /\ w.at \notin DOMAIN ties ->
                             WithRow(ties, w.at, [home |-> None, away |-> None])
                        [] OTHER -> ties
           /\ games' = IF w.to # "game" THEN games
                         ELSE [games EXCEPT ![w.event] =
                                 [tie |-> TieOf(list, w.event), leg |-> LegOf(list, w.event),
                                  day |-> list[w.event].day, number |-> NumberOf(w.event),
                                  status |-> MappedStatus(list[w.event].status)]]
<1> DEFINE A == MissingSet(ClubsOf(CupEvents)) \cup CupGoal(list)
<1>1. script.left # <<>> /\ Readable(list) /\ script.left \in Seq(A) /\ script.list = list
  BY DEF Write, ReadFrom, CupInv, CupTypes
<1>2. script \in CupRun
  BY DEF Write, CupInv, CupTypes
<1>3. script' = [script EXCEPT !.left = Tail(script.left)]
  BY DEF Write
<1>4. script' = [list |-> list, left |-> Tail(script.left)]
  BY <1>1, <1>2, <1>3 DEF CupRun
<1>5. w \in A /\ Tail(script.left) \in Seq(A)
  <2> HIDE DEF A
  <2> QED
    BY <1>1
<1>6. Tail(script.left) \in Seq(CupWrite)
  BY <1>5, GoalIsTyped
<1>7. script' \in CupRun
  BY <1>1, <1>2, <1>4, <1>6 DEF CupRun
<1>8. script' # None
  BY <1>7, CupSeedAssumption DEF CupSeedAssumption
<1> QED
  BY <1>1, <1>4, <1>5, <1>7, <1>8 DEF Write

LEMMA KindIs ==
    ASSUME NEW list, Readable(list),
           NEW w, w \in MissingSet(ClubsOf(CupEvents)) \cup CupGoal(list)
    PROVE  /\ w.to = "tie" => /\ w.first \in Read(list) /\ First(list, w.first) = w.first
                              /\ w = TieWrite(list, w.first)
           /\ w.to = "game" => w.event \in Read(list) /\ w = GameWrite(w.event)
<1>1. CASE w \in CupGoal(list)
  BY <1>1, GoalIs DEF TieWrite, GameWrite, BlankWrite
<1>2. CASE w \in MissingSet(ClubsOf(CupEvents))
  BY <1>2 DEF MissingSet
<1> QED
  BY <1>1, <1>2

\* A tie the step writes or leaves.
LEMMA TieStepKeeps ==
    ASSUME CupInv, Write, NEW list, ReadFrom(list), NEW w, w = Head(script.left)
    PROVE  /\ DOMAIN ties \subseteq DOMAIN ties'
           /\ w.to \in {"tie", "placeholder"} => w.at \in DOMAIN ties'
           /\ w.to = "tie" =>
                ties'[w.at] = [home |-> Fixture[w.first].home, away |-> Fixture[w.first].away]
           /\ \A k \in DOMAIN ties : (w.to = "tie" /\ k = w.at) \/ ties'[k] = ties[k]
<1>1. ties' = CASE w.to = "tie" ->
                      WithRow(ties, w.at, [home |-> Fixture[w.first].home, away |-> Fixture[w.first].away])
                 [] w.to = "placeholder" /\ w.at \notin DOMAIN ties ->
                      WithRow(ties, w.at, [home |-> None, away |-> None])
                 [] OTHER -> ties
  BY CupStepIs
<1>2. CASE w.to = "tie"
  BY <1>1, <1>2 DEF WithRow
<1>3. CASE w.to = "placeholder" /\ w.at \notin DOMAIN ties
  BY <1>1, <1>3 DEF WithRow
<1>4. CASE w.to # "tie" /\ ~(w.to = "placeholder" /\ w.at \notin DOMAIN ties)
  BY <1>1, <1>4
<1> QED
  BY <1>2, <1>3, <1>4

\* The row of a match the step writes or leaves.
LEMMA GameStepKeeps ==
    ASSUME CupInv, Write, NEW list, ReadFrom(list), NEW w, w = Head(script.left)
    PROVE  /\ games' \in [CupEvents -> {None} \cup GameRow]
           /\ \A e \in CupEvents : (w.to = "game" /\ e = w.event) \/ games'[e] = games[e]
           /\ w.to = "game" =>
                /\ games'[w.event] \in GameRow /\ games'[w.event] # None
                /\ games'[w.event].day = list[w.event].day
                /\ games'[w.event].tie = TieOf(list, w.event)
                /\ games'[w.event].leg = LegOf(list, w.event)
                /\ games'[w.event].number = NumberOf(w.event)
                /\ games'[w.event].status = MappedStatus(list[w.event].status)
<1>1. /\ games' = IF w.to # "game" THEN games
                    ELSE [games EXCEPT ![w.event] =
                            [tie |-> TieOf(list, w.event), leg |-> LegOf(list, w.event),
                             day |-> list[w.event].day, number |-> NumberOf(w.event),
                             status |-> MappedStatus(list[w.event].status)]]
      /\ Readable(list) /\ w \in MissingSet(ClubsOf(CupEvents)) \cup CupGoal(list)
  BY CupStepIs
<1>2. games \in [CupEvents -> {None} \cup GameRow] /\ CupTypes /\ NumbersApart
  BY DEF CupInv, CupTypes
<1>3. CASE w.to # "game"
  BY <1>1, <1>2, <1>3
<1>4. CASE w.to = "game"
  <2> PICK e : e = w.event
    OBVIOUS
  <2>1. e \in Read(list) /\ e \in CupEvents
    BY <1>1, <1>4, KindIs DEF Read
  <2> DEFINE row == [tie |-> TieOf(list, e), leg |-> LegOf(list, e), day |-> list[e].day,
                     number |-> NumberOf(e), status |-> MappedStatus(list[e].status)]
  <2>2. row \in GameRow
    BY <1>1, <1>2, <2>1, WrittenRow
  <2>3. row # None
    BY <2>2, CupSeedAssumption DEF CupSeedAssumption
  <2>4. games' = [games EXCEPT ![e] = row]
    BY <1>1, <1>4
  <2>5. /\ row.tie = TieOf(list, e) /\ row.leg = LegOf(list, e) /\ row.day = list[e].day
        /\ row.number = NumberOf(e) /\ row.status = MappedStatus(list[e].status)
    OBVIOUS
  <2> HIDE DEF row
  <2>6. games' \in [CupEvents -> {None} \cup GameRow] /\ games'[e] = row
        /\ \A f \in CupEvents : f # e => games'[f] = games[f]
    BY <1>2, <2>1, <2>2, <2>4
  <2>7. \A f \in CupEvents : (w.to = "game" /\ f = w.event) \/ games'[f] = games[f]
    BY <1>4, <2>6
  <2>8. /\ games'[e] \in GameRow /\ games'[e] # None
        /\ games'[e].day = list[e].day /\ games'[e].tie = TieOf(list, e)
        /\ games'[e].leg = LegOf(list, e) /\ games'[e].number = NumberOf(e)
        /\ games'[e].status = MappedStatus(list[e].status)
    BY <2>2, <2>3, <2>5, <2>6
  <2> QED
    BY <2>6, <2>7, <2>8
<1> QED
  BY <1>3, <1>4

LEMMA StepIsWritten ==
    ASSUME CupInv, Write, NEW list, ReadFrom(list), NEW w, w = Head(script.left),
           NEW v \in CupGoal(list), Written(list, v) \/ v = w
    PROVE  Written(list, v)'
<1> USE DEF Written
<1>1. Readable(list) /\ w \in MissingSet(ClubsOf(CupEvents)) \cup CupGoal(list)
  BY CupStepIs
<1>2. CASE v = w
  BY <1>2, TieStepKeeps, GameStepKeeps
<1>3. CASE Written(list, v) /\ v # w
  <2>1. CASE v.to = "tie"
    <3>1. /\ v.first \in Read(list) /\ First(list, v.first) = v.first /\ v = TieWrite(list, v.first)
      BY <1>1, <2>1, KindIs
    <3>2. ~(w.to = "tie" /\ v.at = w.at)
      <4> SUFFICES ASSUME w.to = "tie", v.at = w.at PROVE FALSE
        OBVIOUS
      <4>1. /\ w.first \in Read(list) /\ First(list, w.first) = w.first /\ w = TieWrite(list, w.first)
        BY <1>1, KindIs
      <4>2. TieOf(list, v.first) = TieOf(list, w.first)
        BY <3>1, <4>1 DEF TieWrite
      <4>3. v.first = w.first
        BY <1>1, <3>1, <4>1, <4>2, FirstLegsDiffer
      <4> QED
        BY <1>3, <3>1, <4>1, <4>3
    <3> QED
      BY <1>3, <2>1, <3>2, TieStepKeeps
  <2>2. CASE v.to = "placeholder"
    BY <1>3, <2>2, TieStepKeeps
  <2>3. CASE v.to = "game"
    <3>1. v.event \in Read(list) /\ v = GameWrite(v.event)
      BY <1>1, <2>3, KindIs
    <3>2. v.event \in CupEvents
      BY <3>1 DEF Read
    <3>3. ~(w.to = "game" /\ v.event = w.event)
      BY <1>1, <1>3, <3>1, KindIs
    <3>4. games'[v.event] = games[v.event]
      BY <3>2, <3>3, GameStepKeeps
    <3> QED
      BY <1>3, <2>3, <3>4
  <2>4. CASE v.to \notin {"tie", "placeholder", "game"}
    BY <2>4
  <2> QED
    BY <2>1, <2>2, <2>3, <2>4
<1> QED
  BY <1>2, <1>3

LEMMA WriteKeeps == CupInv /\ Write => CupInv'
<1> SUFFICES ASSUME CupInv, Write PROVE CupInv'
  OBVIOUS
<1> PICK list : list = script.list
  OBVIOUS
<1> PICK w : w = Head(script.left)
  OBVIOUS
<1>1. ReadFrom(list)
  BY DEF Write, ReadFrom
<1>2. /\ script.left # <<>> /\ Readable(list)
      /\ script.left \in Seq(MissingSet(ClubsOf(CupEvents)) \cup CupGoal(list))
      /\ w \in MissingSet(ClubsOf(CupEvents)) \cup CupGoal(list)
      /\ UNCHANGED <<cup, listed, moves, mirrored, late>>
      /\ script'.list = list /\ script'.left = Tail(script.left) /\ script' # None
      /\ script' \in CupRun
  BY <1>1, CupStepIs
<1>3. \A l : ReadFrom(l)' => l = list
  BY <1>2 DEF ReadFrom
<1>4. CupTypes'
  <2> DEFINE A == MissingSet(ClubsOf(CupEvents)) \cup CupGoal(list)
  <2>1. Tail(script.left) \in Seq(A)
    <3>1. script.left \in Seq(A) /\ script.left # <<>>
      BY <1>2
    <3> HIDE DEF A
    <3> QED
      BY <3>1
  <2>2. games' \in [CupEvents -> {None} \cup GameRow]
    BY <1>1, GameStepKeeps
  <2> QED
    BY <1>2, <1>3, <2>1, <2>2 DEF CupInv, CupTypes
<1>5. NumbersApart'
  <2>1. CupTypes /\ NumbersApart
    BY DEF CupInv
  <2>2. CASE w.to # "game"
    BY <1>1, <2>1, <2>2, GameStepKeeps DEF NumbersApart
  <2>3. CASE w.to = "game"
    <3> PICK e : e = w.event
      OBVIOUS
    <3>1. e \in CupEvents
      BY <1>2, <2>3, KindIs DEF Read
    <3>2. games'[e].number = NumberOf(e) /\ \A f \in CupEvents : f # e => games'[f] = games[f]
      BY <1>1, <2>3, GameStepKeeps
    <3>3. \A f \in CupEvents \ {e} : games[f] # None => games[f].number # NumberOf(e)
      BY <2>1, <3>1, NumberIsFresh
    <3> QED
      BY <2>1, <3>1, <3>2, <3>3 DEF NumbersApart
  <2> QED
    BY <2>2, <2>3
<1>6. RestIsWritten'
  <2> SUFFICES ASSUME NEW v \in CupGoal(list)
               PROVE  Written(list, v)' \/ \E i \in DOMAIN Tail(script.left) : Tail(script.left)[i] = v
    BY <1>2, <1>3 DEF RestIsWritten
  <2>1. CASE Written(list, v) \/ v = w
    BY <1>1, <2>1, StepIsWritten
  <2>2. CASE ~Written(list, v) /\ v # w
    <3> PICK i \in DOMAIN script.left : script.left[i] = v
      BY <1>1, <2>2 DEF CupInv, RestIsWritten
    <3> DEFINE A == MissingSet(ClubsOf(CupEvents)) \cup CupGoal(list)
    <3>1. script.left \in Seq(A) /\ script.left # <<>>
      BY <1>2
    <3> HIDE DEF A
    <3>2. /\ Head(script.left) = script.left[1]
          /\ i # 1 => i - 1 \in DOMAIN Tail(script.left) /\ Tail(script.left)[i - 1] = script.left[i]
      BY <3>1, TailIs
    <3> QED
      BY <2>2, <3>2
  <2> QED
    BY <2>1, <2>2
<1>7. FinishedIsOver'
  <2>1. \A e \in CupEvents : Over(list, e) => Over(listed, e)
    BY <1>1 DEF CupInv, FinishedIsOver
  <2>2. ASSUME NEW e \in CupEvents, Finished(e)' PROVE Finished(e) \/ Over(list, e)
    <3>1. CASE w.to = "game" /\ e = w.event
      <4>1. games'[e].status = MappedStatus(list[e].status)
        BY <1>1, <3>1, GameStepKeeps
      <4>2. MappedStatus(list[e].status) = "FINISHED"
        BY <2>2, <4>1 DEF Finished
      <4>3. Ended(list[e].status)
        BY <4>2 DEF MappedStatus, FinalStatuses, Ended, EndStatuses
      <4>4. list[e] # None
        BY <1>2, <3>1, KindIs DEF Read
      <4> QED
        BY <4>3, <4>4 DEF Over
    <3>2. CASE ~(w.to = "game" /\ e = w.event)
      BY <1>1, <2>2, <3>2, GameStepKeeps DEF Finished
    <3> QED
      BY <3>1, <3>2
  <2>3. \A e \in CupEvents : Finished(e) => Over(listed, e) /\ (e \in late \/ Over(list, e))
    BY <1>1 DEF CupInv, FinishedIsOver
  <2>4. \A e \in CupEvents : Over(listed, e)' <=> Over(listed, e)
    BY <1>2 DEF Over
  <2> QED
    BY <1>2, <1>3, <2>1, <2>2, <2>3, <2>4 DEF FinishedIsOver
<1>8. MirroredIsWritten'
  BY <1>2 DEF MirroredIsWritten, Mirrors
<1> QED
  BY <1>4, <1>5, <1>6, <1>7, <1>8 DEF CupInv

LEMMA DoneKeeps == CupInv /\ Done => CupInv'
<1> SUFFICES ASSUME CupInv, Done PROVE CupInv'
  OBVIOUS
<1> PICK list : list = script.list
  OBVIOUS
<1>1. /\ ReadFrom(list) /\ script.left = <<>> /\ script' = None /\ mirrored' = list
      /\ UNCHANGED <<cup, listed, moves, clubs, ties, games>>
  BY DEF Done, ReadFrom
<1>2. Readable(list) /\ \A w \in CupGoal(list) : Written(list, w)
  BY <1>1 DEF CupInv, CupTypes, RestIsWritten
<1>3. MirroredIsWritten'
  BY <1>1, <1>2 DEF MirroredIsWritten, Mirrors, Written
<1>4. CupTypes' /\ NumbersApart' /\ RestIsWritten' /\ FinishedIsOver'
  BY <1>1 DEF CupInv, CupTypes, NumbersApart, RestIsWritten, FinishedIsOver, Finished, Over, ReadFrom
<1> QED
  BY <1>3, <1>4 DEF CupInv

LEMMA CupNextInv == CupInv /\ [CupNext]_cupVars => CupInv'
<1> SUFFICES ASSUME CupInv, [CupNext]_cupVars PROVE CupInv'
  OBVIOUS
<1>1. CASE ListMoves
  BY <1>1, ListMovesKeeps
<1>2. CASE SeedClubs
  BY <1>2 DEF SeedClubs, CupInv, CupTypes, NumbersApart, RestIsWritten, FinishedIsOver, MirroredIsWritten,
              Finished, Over, ReadFrom, Mirrors, Written
<1>3. CASE Run
  BY <1>3, RunKeeps
<1>4. CASE Write
  BY <1>4, WriteKeeps
<1>5. CASE Done
  BY <1>5, DoneKeeps
<1>6. CASE RunThrows
  BY <1>6 DEF RunThrows, CupInv, CupTypes, NumbersApart, RestIsWritten, FinishedIsOver, MirroredIsWritten,
              Finished, Over, ReadFrom, Mirrors
<1>7. ASSUME NEW e \in CupEvents, RobotMoves(e) PROVE CupInv'
  BY <1>7, RobotMovesKeeps
<1>8. CASE UNCHANGED cupVars
  BY <1>8 DEF cupVars, CupInv, CupTypes, NumbersApart, RestIsWritten, FinishedIsOver, MirroredIsWritten,
              Finished, Over, ReadFrom, Mirrors, Written
<1> QED
  BY <1>1, <1>2, <1>3, <1>4, <1>5, <1>6, <1>7, <1>8 DEF CupNext

\* What a run is to leave is what the season's readers expect of it.
LEMMA CupMirrors == CupInv => SeedMirrorsList
<1> SUFFICES ASSUME CupInv, script = None, mirrored # None, NEW list, list = mirrored
             PROVE  /\ \A e \in Read(list) : games[e] # None /\ games[e].day = list[e].day
                    /\ \A e, f \in Read(list) :
                         /\ games[e].number = games[f].number => e = f
                         /\ (games[e].tie = games[f].tie) <=> (RoundOf(e) = RoundOf(f) /\ PairOf(e) = PairOf(f))
                         /\ (games[e].tie = games[f].tie /\ list[e].day < list[f].day) =>
                              games[e].leg < games[f].leg
                    /\ \A e \in Read(list) :
                         LET t == ties[games[e].tie] IN
                         /\ {t.home, t.away} = PairOf(e)
                         /\ games[e].leg = 1 => t.home = Fixture[e].home
                    /\ \A r \in {n \in DOMAIN CupRounds : \A e \in Read(list) : RoundOf(e) # n} :
                         \A o \in 1 .. CupRounds[r].ties : <<r, o>> \in DOMAIN ties
  BY DEF SeedMirrorsList
<1>1. Readable(list) /\ \A w \in CupGoal(list) : Written(list, w)
  BY DEF CupInv, MirroredIsWritten, Mirrors
<1>2. ASSUME NEW e \in Read(list)
      PROVE  /\ games[e] # None /\ games[e].day = list[e].day /\ e \in CupEvents
             /\ games[e].tie = TieOf(list, e) /\ games[e].leg = LegOf(list, e)
  <2>1. GameWrite(e) \in CupGoal(list)
    BY DEF CupGoal, GameGoal
  <2>2. Written(list, GameWrite(e))
    BY <1>1, <2>1
  <2> QED
    BY <2>2 DEF Written, GameWrite, Read
<1>3. ASSUME NEW e \in Read(list), NEW f \in Read(list)
      PROVE  /\ games[e].number = games[f].number => e = f
             /\ (games[e].tie = games[f].tie) <=> (RoundOf(e) = RoundOf(f) /\ PairOf(e) = PairOf(f))
             /\ (games[e].tie = games[f].tie /\ list[e].day < list[f].day) =>
                  games[e].leg < games[f].leg
  <2>1. games[e].number = games[f].number => e = f
    BY <1>2 DEF CupInv, NumbersApart
  <2>2. (games[e].tie = games[f].tie) <=> (RoundOf(e) = RoundOf(f) /\ PairOf(e) = PairOf(f))
    BY <1>1, <1>2, TiesArePairs
  <2>3. (games[e].tie = games[f].tie /\ list[e].day < list[f].day) => games[e].leg < games[f].leg
    <3> SUFFICES ASSUME games[e].tie = games[f].tie, list[e].day < list[f].day
                 PROVE  games[e].leg < games[f].leg
      OBVIOUS
    <3>1. Before(list, e, f)
      BY DEF Before
    <3>2. LegOf(list, e) < LegOf(list, f)
      BY <1>1, <2>2, <3>1, LegsAreInOrder
    <3> QED
      BY <1>2, <3>2
  <2> QED
    BY <2>1, <2>2, <2>3
<1>4. ASSUME NEW e \in Read(list)
      PROVE  /\ {ties[games[e].tie].home, ties[games[e].tie].away} = PairOf(e)
             /\ games[e].leg = 1 => ties[games[e].tie].home = Fixture[e].home
  <2> DEFINE a == First(list, e)
             r == RoundOf(e)
  <2>1. /\ a \in FirstLegs(list, r) /\ a \in Read(list) /\ RoundOf(a) = r /\ PairOf(a) = PairOf(e)
        /\ IsFirstLeg(list, e) => a = e
    BY <1>1, FirstIs
  <2>2. r \in DOMAIN CupRounds
    BY <1>2, CupSeedAssumption DEF CupSeedAssumption, RoundOf
  <2>3. TieWrite(list, a) \in CupGoal(list)
    BY <2>1, <2>2 DEF CupGoal, TieGoal, TieSet
  <2>4. Written(list, TieWrite(list, a))
    BY <1>1, <2>3
  <2>5. TieOf(list, a) = TieOf(list, e)
    BY <1>1, <2>1, TiesArePairs
  <2> HIDE DEF a
  <2>6. ties[TieOf(list, e)] = [home |-> Fixture[a].home, away |-> Fixture[a].away]
    BY <2>4, <2>5 DEF Written, TieWrite
  <2>7. LegOf(list, e) = 1 => IsFirstLeg(list, e)
    BY <1>1, LegsAreInOrder
  <2> QED
    BY <1>2, <2>1, <2>6, <2>7 DEF PairOf
<1>5. ASSUME NEW r \in DOMAIN CupRounds, \A e \in Read(list) : RoundOf(e) # r,
             NEW o \in 1 .. CupRounds[r].ties
      PROVE  <<r, o>> \in DOMAIN ties
  <2>1. FirstLegs(list, r) = {}
    BY <1>5 DEF FirstLegs
  <2>2. BlankWrite(r, o) \in CupGoal(list)
    BY <2>1 DEF CupGoal, TieGoal, TieSet
  <2>3. Written(list, BlankWrite(r, o))
    BY <1>1, <2>2
  <2> QED
    BY <2>3 DEF Written, BlankWrite
<1> QED
  BY <1>2, <1>3, <1>4, <1>5

\* Whatever a cup's script (prisma/seed-libertadores.ts, prisma/seed-copa-do-brasil.ts) left
\* half written before, and however ESPN's list and the robot moved in between, after a
\* completed run every event it read is one match with a number of its own, the events of a
\* pair are the legs of one tie in the order they are played, and every round without events
\* has its placeholders, for every fixture, number of rounds and days.
THEOREM SeedAlwaysMirrors == CupSpec => []SeedMirrorsList
<1>1. CupInit => CupInv
  BY CupInitInv
<1>2. CupInv /\ [CupNext]_cupVars => CupInv'
  BY CupNextInv
<1>3. CupInv => SeedMirrorsList
  BY CupMirrors
<1> QED
  BY <1>1, <1>2, <1>3, PTL DEF CupSpec

LEMMA ResultStands ==
    ASSUME CupInv, [CupNext]_cupVars, NEW e \in CupEvents,
           games[e] # None, games[e].status = "FINISHED", games'[e].status # "FINISHED"
    PROVE  \/ e \in late
           \/ script.list[e].status = "FINAL_AET"
           \/ cup = "libertadores" /\ script.list[e].status = "FINAL_PEN"
<1>1. CASE Write
  <2> PICK list : list = script.list
    OBVIOUS
  <2> PICK w : w = Head(script.left)
    OBVIOUS
  <2>1. ReadFrom(list)
    BY <1>1 DEF Write, ReadFrom
  <2>2. w.to = "game" /\ e = w.event
    BY <1>1, <2>1, GameStepKeeps
  <2>3. MappedStatus(list[e].status) # "FINISHED"
    BY <1>1, <2>1, <2>2, GameStepKeeps
  <2>4. e \in late \/ Over(list, e)
    BY <2>1 DEF CupInv, FinishedIsOver, Finished
  <2> QED
    BY <2>3, <2>4 DEF Over, Ended, EndStatuses, MappedStatus, FinalStatuses, CupInv, CupTypes, ReadFrom
<1>2. ASSUME NEW f \in CupEvents, RobotMoves(f) PROVE FALSE
  <2>1. games \in [CupEvents -> {None} \cup GameRow]
    BY DEF CupInv, CupTypes
  <2>2. games[f] \in GameRow
    BY <1>2, <2>1 DEF RobotMoves
  <2> QED
    BY <1>2, <2>1, <2>2 DEF RobotMoves, GameRow
<1>3. CASE UNCHANGED games
  BY <1>3
<1> QED
  BY <1>1, <1>2, <1>3 DEF CupNext, cupVars, ListMoves, SeedClubs, Run, Done, RunThrows

\* No run of a cup's script and no pass of the robot reopens a finished match, except a run
\* that read ESPN's list before the match ended, and one whose STATUS_MAP does not know the
\* end: in extra time, for all the cups, or on penalties, for the Libertadores' kind.
THEOREM ResultsAlwaysStand == CupSpec => ResultsStand
<1>1. CupInit => CupInv
  BY CupInitInv
<1>2. CupInv /\ [CupNext]_cupVars => CupInv'
  BY CupNextInv
<1>3. CupInv /\ [CupNext]_cupVars =>
        [\A e \in CupEvents :
           (games[e] # None /\ games[e].status = "FINISHED" /\ games'[e].status # "FINISHED") =>
              \/ e \in late
              \/ script.list[e].status = "FINAL_AET"
              \/ cup = "libertadores" /\ script.list[e].status = "FINAL_PEN"]_cupVars
  BY ResultStands
<1> QED
  BY <1>1, <1>2, <1>3, PTL DEF CupSpec, ResultsStand


-----------------------------------------------------------------------------
(* What a list of lists holds, and a sorted list. *)

\* What its parts list, the flattening lists, in whatever order.
LEMMA FlatLists ==
    ASSUME NEW T, NEW seqs \in Seq(T), NEW W,
           \A i \in DOMAIN seqs : Lists(seqs[i], W[i])
    PROVE  Lists(FlattenSeq(seqs), UNION {W[i] : i \in DOMAIN seqs})
<1> DEFINE n == Len(seqs)
           f == CHOOSE h : h = Flattens(seqs, h)
           Upto(m) == UNION {W[i] : i \in 1 .. m}
           Good(m) == Lists(f[m], Upto(m))
           Not == {m \in 1 .. n : ~Good(m)}
<1>0. n \in Nat /\ DOMAIN seqs = 1 .. n
  OBVIOUS
<1>1. CASE n = 0
  <2>1. FlattenSeq(seqs) = seqs /\ DOMAIN seqs = {} /\ UNION {W[i] : i \in DOMAIN seqs} = {}
    BY <1>0, <1>1 DEF FlattenSeq
  <2>2. seqs = <<>>
    BY <1>1
  <2> QED
    BY <2>1, <2>2 DEF Lists
<1>2. CASE n # 0
  <2>1. f = Flattens(seqs, f)
    BY <1>0, <1>2, FlattenExists
  <2>2. FlattenSeq(seqs) = f[n]
    BY <1>2, FlattenIsChosen
  <2> HIDE DEF f
  <2>3. \A i \in 1 .. n : f[i] = IF i = 1 THEN seqs[i] ELSE f[i - 1] \o seqs[i]
    BY <2>1 DEF Flattens
  <2>4. \A i \in 1 .. n : Lists(seqs[i], W[i])
    BY <1>0
  <2> HIDE DEF n
  <2>5. Good(1)
    <3>1. 1 \in 1 .. n
      BY <1>0, <1>2
    <3>2. f[1] = seqs[1] /\ Upto(1) = W[1]
      BY <2>3, <3>1
    <3> QED
      BY <2>4, <3>1, <3>2
  <2>6. ASSUME NEW m \in 2 .. n, Good(m - 1) PROVE Good(m)
    <3>1. m \in 1 .. n /\ m - 1 \in 1 .. n /\ m # 1
      BY <1>0
    <3>2. f[m] = f[m - 1] \o seqs[m]
      BY <2>3, <3>1
    <3>3. Lists(f[m], Upto(m - 1) \cup W[m])
      <4> HIDE DEF Upto
      <4> QED
        BY <2>4, <2>6, <3>1, <3>2, ListsJoin
    <3>4. Upto(m) = Upto(m - 1) \cup W[m]
      <4>1. \A i : i \in 1 .. m <=> i \in 1 .. m - 1 \/ i = m
        BY <1>0, <3>1
      <4> QED
        BY <4>1
    <3> QED
      BY <3>3, <3>4
  <2> HIDE DEF Good
  <2>7. Not = {}
    <3> SUFFICES ASSUME Not # {} PROVE FALSE
      OBVIOUS
    <3>1. Not \subseteq Nat
      BY <1>0
    <3>2. PICK m \in Not : \A k \in Not : m <= k
      BY <3>1, LeastNat
    <3>3. m \in 2 .. n /\ m - 1 \in 1 .. n /\ m - 1 \notin Not
      BY <1>0, <2>5, <3>2
    <3> QED
      BY <2>6, <3>2, <3>3
  <2>8. Good(n)
    BY <1>0, <1>2, <2>7
  <2> QED
    BY <1>0, <2>2, <2>8 DEF Good
<1> QED
  BY <1>1, <1>2

\* Numbers in their order.
LEMMA SortedIs ==
    ASSUME NEW S, S \subseteq Nat, IsFiniteSet(S)
    PROVE  /\ Lists(Sorted(S), S)
           /\ Len(Sorted(S)) = Cardinality(S) /\ Len(Sorted(S)) \in Nat
           /\ \A i, j \in 1 .. Len(Sorted(S)) : Sorted(S)[i] = Sorted(S)[j] => i = j
           /\ \A n \in S : LET i == Cardinality({m \in S : m < n}) + 1
                           IN i \in 1 .. Len(Sorted(S)) /\ Sorted(S)[i] = n
<1> DEFINE ahead == [n \in S |-> {m \in S : m < n}]
           s == InOrder(ahead)
           size == Cardinality(S)
<1>2. DOMAIN ahead = S /\ \A n \in S : ahead[n] = {m \in S : m < n}
  OBVIOUS
<1>3. s = Sorted(S)
  BY DEF Sorted
<1> HIDE DEF ahead
<1>1. Orders(ahead)
  <2>0. \A n \in S : n \in Nat
    OBVIOUS
  <2>1. ASSUME NEW n \in S PROVE ahead[n] \subseteq S /\ n \notin ahead[n]
    BY <1>2, <2>0
  <2>2. ASSUME NEW n \in S, NEW m \in ahead[n] PROVE ahead[m] \subseteq ahead[n]
    <3>1. m \in S /\ m < n
      BY <1>2, <2>2
    <3>2. ASSUME NEW k \in ahead[m] PROVE k \in ahead[n]
      <4>1. k \in S /\ k < m
        BY <1>2, <3>1, <3>2
      <4>2. k < n
        BY <2>0, <3>1, <4>1
      <4> QED
        BY <1>2, <4>1, <4>2
    <3> QED
      BY <3>2
  <2>3. ASSUME NEW m \in S, NEW n \in S PROVE m = n \/ m \in ahead[n] \/ n \in ahead[m]
    <3>1. m = n \/ m < n \/ n < m
      BY <2>0
    <3> QED
      BY <1>2, <3>1
  <2> QED
    BY <1>2, <2>1, <2>2, <2>3 DEF Orders
<1>4. /\ size \in Nat /\ s \in [1 .. size -> S]
      /\ \A n \in S : Cardinality(ahead[n]) + 1 \in 1 .. size /\ s[Cardinality(ahead[n]) + 1] = n
      /\ \A i \in 1 .. size : Cardinality(ahead[s[i]]) = i - 1
  BY <1>1, <1>2, InOrderIs
<1> HIDE DEF s, size
<1>5. s \in Seq(S) /\ Len(s) = size /\ DOMAIN s = 1 .. size
  BY <1>4
<1>6. \A n \in S : \E i \in DOMAIN s : s[i] = n
  BY <1>4, <1>5
<1>7. \A i, j \in 1 .. size : s[i] = s[j] => i = j
  BY <1>4
<1>8. \A n \in S : LET i == Cardinality({m \in S : m < n}) + 1 IN i \in 1 .. size /\ s[i] = n
  BY <1>2, <1>4
<1>9. size = Cardinality(S)
  BY DEF size
<1> QED
  BY <1>3, <1>4, <1>5, <1>6, <1>7, <1>8, <1>9 DEF Lists

-----------------------------------------------------------------------------
(* The World Cup.  A completed run mends whatever the runs before it left,   *)
(* so the invariant says what each write leaves standing, and which teams a  *)
(* knockout match has ever shown: the seed erases them, and they come back.  *)

Side == {"home", "away"}
LabelOf(n, side) == IF side = "home" THEN Card[n].homeFrom ELSE Card[n].awayFrom
SourceOf(tie, side) == IF side = "home" THEN tie.homeSource ELSE tie.awaySource

WcTypeOK ==
    /\ wcRows \in [Numbers -> WcRow \cup {None}]
    /\ wcTies \in Seq(WcTie)
    /\ DOMAIN groups \subseteq Letters
    /\ \A l \in DOMAIN groups : groups[l] \subseteq TeamsOf(l)

\* The teams of a group match are those of the card.
GroupTeamsStand ==
    \A n \in GroupNumbers : wcRows[n] # None =>
        wcRows[n].home = Card[n].home /\ wcRows[n].away = Card[n].away

\* A match is linked to its own tie.
LinksSound ==
    \A n \in Numbers : (wcRows[n] # None /\ wcRows[n].tie # None) =>
        n \in KoNumbers /\ wcRows[n].tie \in DOMAIN wcTies /\ wcTies[wcRows[n].tie].of = n

\* A source says what the label says.
Matches(label, feed, tieRows) ==
    \/ /\ label.says \in {"winner", "loser"}
       /\ feed.type = label.says /\ feed.tie \in DOMAIN tieRows
       /\ tieRows[feed.tie].of = label.match
    \/ /\ label.says = "place" /\ feed.type = "place"
       /\ feed.group = label.group /\ feed.position = label.position
    \/ /\ label.says = "third" /\ feed.type = "third"
       /\ feed.groups = label.groups

SourcesSound ==
    \A t \in DOMAIN wcTies : \A side \in Side :
        SourceOf(wcTies[t], side) # None =>
            Matches(LabelOf(wcTies[t].of, side), SourceOf(wcTies[t], side), wcTies)

\* The result that gave a knockout match a team still gives it.
AllPlayed == \A l \in Letters : GroupPlayed(l)
OtherSide(side) == IF side = "home" THEN "away" ELSE "home"
Gives(label, team, shown) ==
    \/ /\ label.says \in {"winner", "loser"}
       /\ wcRows[label.match] # None /\ wcRows[label.match].won # None
       /\ team = shown[label.match][IF label.says = "winner" THEN wcRows[label.match].won
                                      ELSE OtherSide(wcRows[label.match].won)]
    \/ /\ label.says = "place" /\ GroupPlayed(label.group)
       /\ team = TableOf[label.group][label.position]
    \/ /\ label.says = "third" /\ AllPlayed
       /\ team = TableOf[CHOOSE l \in label.groups : TRUE][3]

\* The first team a side of a knockout match has shown is the only one.
Shown == [KoNumbers -> [Side -> AllTeams \cup {None}]]
ShowsOnly(shown) ==
    \A n \in KoNumbers : \A side \in Side :
       /\ wcRows[n] # None => wcRows[n][side] \in {None, shown[n][side]}
       /\ \A t \in DOMAIN wcTies : wcTies[t].of = n => wcTies[t][side] \in {None, shown[n][side]}
       /\ seeding # None => (\A i \in DOMAIN seeding :
            (seeding[i].to = "tie" /\ seeding[i].at = n) => seeding[i][side] \in {None, shown[n][side]})
       /\ shown[n][side] # None => Gives(LabelOf(n, side), shown[n][side], shown)
TeamsStay == \E shown \in Shown : ShowsOnly(shown)

WritesOf(r) == GroupStageWrites(r) \o KnockoutWrites(r)
Rows == [Numbers -> WcRow \cup {None}]
PlaceOf(r, n) == Cardinality(AheadInGroup(r, Card[n].group)[n]) + 1

WcMatchday(r, n) == [to |-> "matchday", at |-> n, group |-> Card[n].group,
                     round |-> Matchday(PlaceOf(r, n))]
WcGroup(l) == [to |-> "group", group |-> l]
WcClub(l, c) == [to |-> "club", group |-> l, club |-> c]
WcLeg(n) == [to |-> "leg", at |-> n]

\* What a write leaves, until the next drop.
Standing(w) ==
    /\ w.to = "group" => w.group \in DOMAIN groups
    /\ w.to = "club" => w.group \in DOMAIN groups /\ w.club \in groups[w.group]
    /\ w.to = "matchday" => wcRows[w.at].group = w.group /\ wcRows[w.at].round = w.round
    /\ w.to = "leg" => wcRows[w.at].tie # None
    /\ w.to = "feeders" => \A t \in DOMAIN wcTies : wcTies[t].of = w.at =>
          wcTies[t].homeSource = w.homeSource /\ wcTies[t].awaySource = w.awaySource

\* The ties created are those of the first knockout matches read, in their order.
TieBase(r) ==
    Len(GroupStageWrites(r)) + IF KoRead(r) = <<>> THEN 0 ELSE 1 + Len(Sorted(PhasesRead(r)))
TiesBy(r, k) ==
    IF k <= TieBase(r) THEN 0
      ELSE IF k <= TieBase(r) + Len(KoRead(r)) THEN k - TieBase(r) ELSE Len(KoRead(r))
TiesInOrder(r, k) ==
    /\ Len(wcTies) = TiesBy(r, k)
    /\ \A t \in DOMAIN wcTies : wcTies[t].of = KoRead(r)[t]

\* The rows a run read are still those of the season, and a group's teams are the card's.
StillThere(r) ==
    \A n \in Numbers : /\ wcRows[n] = None <=> r[n] = None
                       /\ (n \in GroupNumbers /\ r[n] # None) =>
                            r[n].home = Card[n].home /\ r[n].away = Card[n].away

\* The first k writes are done, the others are left.
Left(all, k) == [i \in 1 .. Len(all) - k |-> all[k + i]]
Underway(r, k) ==
    /\ k \in 0 .. Len(WritesOf(r)) /\ seeding = Left(WritesOf(r), k)
    /\ \A i \in 1 .. k : Standing(WritesOf(r)[i])
    /\ StillThere(r) /\ TiesInOrder(r, k)

Upserting ==
    \E s \in Seq([to : {"upsert"}, at : Numbers]) : seeding = s \o Rebuild

Bare == Len(wcTies) = 0 /\ DOMAIN groups = {}

Complete ==
    \E r \in Rows :
       /\ StillThere(r) /\ TiesInOrder(r, Len(WritesOf(r)))
       /\ \A i \in DOMAIN WritesOf(r) : Standing(WritesOf(r)[i])

Phase ==
    /\ seeding # None => /\ ~rebuilt
                         /\ \/ Upserting
                            \/ seeding = << [to |-> "read"] >> /\ Bare
                            \/ \E r \in Rows : \E k \in Nat : Underway(r, k)
    /\ (seeding = None /\ rebuilt) => Complete

WcInv == WcTypeOK /\ GroupTeamsStand /\ LinksSound /\ SourcesSound /\ TeamsStay /\ Phase

-----------------------------------------------------------------------------
(* The card, the order of a group's matches, and what a run is to write. *)

LEMMA ImageIsFinite ==
    ASSUME NEW S, IsFiniteSet(S), NEW f, DOMAIN f = S
    PROVE  IsFiniteSet({f[x] : x \in S})
<1> DEFINE T == {f[x] : x \in S}
           g == [x \in S |-> f[x]]
<1>1. g \in Surjection(S, T)
  BY DEF Surjection
<1> QED
  BY <1>1, FS_Surjection

\* The card of the World Cup.
LEMMA CardFacts ==
    /\ IsFiniteSet(Numbers) /\ IsFiniteSet(GroupNumbers) /\ IsFiniteSet(KoNumbers)
    /\ Numbers \subseteq Nat /\ GroupNumbers \subseteq Numbers /\ KoNumbers \subseteq Numbers
    /\ \A n \in Numbers : n \in Nat /\ (n \in KoNumbers <=> n \notin GroupNumbers)
    /\ \A n \in GroupNumbers : Card[n].group \in Letters
    /\ \A l \in Letters : OfCard(l) \subseteq GroupNumbers /\ IsFiniteSet(OfCard(l))
    /\ \A l \in Letters : IsFiniteSet(TeamsOf(l)) /\ None \notin TeamsOf(l) /\ l # None
    /\ IsFiniteSet(Letters)
<1>1. /\ IsFiniteSet(Numbers) /\ IsFiniteSet(GroupNumbers) /\ IsFiniteSet(KoNumbers)
      /\ Numbers \subseteq Nat /\ GroupNumbers \subseteq Numbers /\ KoNumbers \subseteq Numbers
  BY WorldCupAssumption, FS_Subset DEF GroupNumbers, KoNumbers
<1>2. \A n \in Numbers : n \in Nat /\ (n \in KoNumbers <=> n \notin GroupNumbers)
  BY <1>1 DEF KoNumbers
<1>3. \A n \in GroupNumbers : Card[n].group \in Letters
  BY DEF Letters
<1>4. \A l \in Letters : OfCard(l) \subseteq GroupNumbers /\ IsFiniteSet(OfCard(l))
  BY <1>1, FS_Subset DEF OfCard
<1>5. \A l \in Letters : IsFiniteSet(TeamsOf(l)) /\ None \notin TeamsOf(l) /\ l # None
  <2> TAKE l \in Letters
  <2>0. DOMAIN TableOf[l] = 1 .. 4
    BY WorldCupAssumption
  <2>1. DOMAIN TableOf[l] = 1 .. 4 /\ IsFiniteSet(1 .. 4)
    <3>1. 1 \in Int /\ 4 \in Int
      OBVIOUS
    <3>2. IsFiniteSet(1 .. 4)
      BY <3>1, FS_Interval
    <3> QED
      BY <2>0, <3>2
  <2>2. TeamsOf(l) = {TableOf[l][i] : i \in 1 .. 4}
    BY <2>1 DEF TeamsOf, ToSet
  <2>3. IsFiniteSet(TeamsOf(l))
    BY <2>1, <2>2, ImageIsFinite
  <2> QED
    BY <2>3, WorldCupAssumption DEF AllTeams
<1>6. IsFiniteSet(Letters)
  <2> DEFINE f == [n \in GroupNumbers |-> Card[n].group]
  <2>1. Letters = {f[n] : n \in GroupNumbers}
    BY DEF Letters
  <2> QED
    BY <1>1, <2>1, ImageIsFinite
<1> QED
  BY <1>1, <1>2, <1>3, <1>4, <1>5, <1>6

\* The matches a run read, with the teams of the card in a group.
CardTeams(r) ==
    \A n \in GroupNumbers : r[n] # None => r[n].home = Card[n].home /\ r[n].away = Card[n].away

LEMMA OwnFacts ==
    ASSUME NEW r \in Rows, CardTeams(r), NEW l \in Letters
    PROVE  /\ OwnMatches(r, l) \subseteq OfCard(l) /\ IsFiniteSet(OwnMatches(r, l))
           /\ TeamSet(r, l) \subseteq TeamsOf(l) /\ IsFiniteSet(TeamSet(r, l))
<1>1. OwnMatches(r, l) \subseteq OfCard(l) /\ IsFiniteSet(OwnMatches(r, l))
  BY CardFacts, FS_Subset DEF OwnMatches
<1>2. ASSUME NEW n \in OwnMatches(r, l) PROVE {r[n].home, r[n].away} \subseteq TeamsOf(l)
  <2>1. n \in GroupNumbers /\ Card[n].group = l /\ r[n] # None
    BY <1>2 DEF OwnMatches, OfCard
  <2> QED
    BY <2>1, WorldCupAssumption DEF CardTeams
<1>3. TeamSet(r, l) \subseteq TeamsOf(l)
  BY <1>2 DEF TeamSet
<1> QED
  BY <1>1, <1>3, CardFacts, FS_Subset

\* The kickoffs put the matches of a group in one order.
LEMMA DateOrderIs ==
    ASSUME NEW r \in Rows, CardTeams(r), NEW l \in Letters
    PROVE  LET own == OwnMatches(r, l)
               s == DateOrder(r, l)
           IN /\ s \in Seq(own) /\ Len(s) = Cardinality(own) /\ Len(s) \in Nat
              /\ \A n \in own : PlaceOf(r, n) \in 1 .. Len(s) /\ s[PlaceOf(r, n)] = n
              /\ \A i \in 1 .. Len(s) : s[i] \in own /\ PlaceOf(r, s[i]) = i
<1> DEFINE own == OwnMatches(r, l)
           ahead == AheadInGroup(r, l)
           s == InOrder(ahead)
           size == Cardinality(own)
           AheadOf(m, n) == r[m].day < r[n].day \/ (r[m].day = r[n].day /\ m < n)
<1>1. own \subseteq OfCard(l) /\ IsFiniteSet(own) /\ own \subseteq Numbers
  BY OwnFacts, CardFacts
<1>2. DOMAIN ahead = own /\ \A n \in own : ahead[n] = {m \in own : AheadOf(m, n)}
  BY DEF AheadInGroup
<1>3. \A n \in own : n \in Nat /\ r[n].day \in Nat
  <2> TAKE n \in own
  <2>1. r[n] \in WcRow /\ n \in Nat
    BY <1>1, CardFacts DEF OwnMatches, Rows
  <2> QED
    BY <2>1 DEF WcRow
<1>4. \A n \in own : Card[n].group = l
  BY DEF OwnMatches, OfCard
<1>5. s = DateOrder(r, l)
  BY DEF DateOrder
<1> HIDE DEF own, ahead, s
<1>6. Orders(ahead)
  <2>1. ASSUME NEW n \in own PROVE ahead[n] \subseteq own /\ n \notin ahead[n]
    BY <1>2, <1>3
  <2>2. ASSUME NEW n \in own, NEW m \in ahead[n] PROVE ahead[m] \subseteq ahead[n]
    <3>1. m \in own /\ AheadOf(m, n)
      BY <1>2, <2>2
    <3>2. ASSUME NEW k \in ahead[m] PROVE k \in ahead[n]
      <4>1. k \in own /\ AheadOf(k, m)
        BY <1>2, <3>1, <3>2
      <4>2. AheadOf(k, n)
        BY <1>3, <3>1, <4>1
      <4> QED
        BY <1>2, <4>1, <4>2
    <3> QED
      BY <3>2
  <2>3. ASSUME NEW m \in own, NEW n \in own PROVE m = n \/ m \in ahead[n] \/ n \in ahead[m]
    <3>1. m = n \/ AheadOf(m, n) \/ AheadOf(n, m)
      BY <1>3
    <3> QED
      BY <1>2, <3>1
  <2> QED
    BY <1>1, <1>2, <2>1, <2>2, <2>3 DEF Orders
<1>7. /\ size \in Nat /\ s \in [1 .. size -> own]
      /\ \A n \in own : Cardinality(ahead[n]) + 1 \in 1 .. size /\ s[Cardinality(ahead[n]) + 1] = n
      /\ \A i \in 1 .. size : Cardinality(ahead[s[i]]) = i - 1
  BY <1>2, <1>6, InOrderIs DEF s
<1>8. \A n \in own : PlaceOf(r, n) = Cardinality(ahead[n]) + 1
  BY <1>4 DEF PlaceOf, ahead
<1> HIDE DEF size
<1>9. s \in Seq(own) /\ Len(s) = size
  BY <1>7
<1> QED
  <2>1. \A n \in own : PlaceOf(r, n) \in 1 .. Len(s) /\ s[PlaceOf(r, n)] = n
    BY <1>7, <1>8, <1>9
  <2>2. \A i \in 1 .. Len(s) : s[i] \in own /\ PlaceOf(r, s[i]) = i
    <3> TAKE i \in 1 .. Len(s)
    <3>1. i \in 1 .. size /\ s[i] \in own
      BY <1>7, <1>9
    <3>2. PlaceOf(r, s[i]) = (i - 1) + 1
      BY <1>7, <1>8, <3>1
    <3> QED
      BY <1>7, <3>1, <3>2
  <2> QED
    BY <1>5, <1>7, <1>9, <2>1, <2>2 DEF own, size

\* Where the elements of two joined sequences are.
LEMMA JoinAt ==
    ASSUME NEW S, NEW s \in Seq(S), NEW t \in Seq(S)
    PROVE  /\ s \o t \in Seq(S) /\ Len(s \o t) = Len(s) + Len(t)
           /\ Len(s) \in Nat /\ Len(t) \in Nat
           /\ \A i \in 1 .. Len(s) : (s \o t)[i] = s[i]
           /\ \A i \in 1 .. Len(t) : (s \o t)[Len(s) + i] = t[i]
OBVIOUS

StageAndRounds == {[to |-> "stage", stage |-> "groups"]}
                    \cup {[to |-> "round", round |-> <<"groups", d>>] : d \in 1 .. 3}
GroupFrame(r) ==
    IF LettersRead(r) = {} THEN {}
      ELSE StageAndRounds \cup {WcGroup(l) : l \in LettersRead(r)}
MatchdaySet(r) == UNION {{WcMatchday(r, n) : n \in OwnMatches(r, l)} : l \in LettersRead(r)}
MemberSet(r) == UNION {{WcClub(l, c) : c \in TeamSet(r, l)} : l \in LettersRead(r)}

LEMMA MatchdaysListed ==
    ASSUME NEW r \in Rows, CardTeams(r), NEW l \in Letters
    PROVE  Lists(MatchdayWrites(r, l), {WcMatchday(r, n) : n \in OwnMatches(r, l)})
<1> DEFINE own == OwnMatches(r, l)
           s == DateOrder(r, l)
           Placed(i) == [to |-> "matchday", at |-> s[i], group |-> l, round |-> Matchday(i)]
           S == {WcMatchday(r, n) : n \in own}
           list == [i \in DOMAIN s |-> Placed(i)]
<1>1. MatchdayWrites(r, l) = list
  BY DEF MatchdayWrites
<1>2. /\ s \in Seq(own) /\ Len(s) \in Nat
      /\ \A n \in own : PlaceOf(r, n) \in 1 .. Len(s) /\ s[PlaceOf(r, n)] = n
      /\ \A i \in 1 .. Len(s) : s[i] \in own /\ PlaceOf(r, s[i]) = i
  BY DateOrderIs
<1>3. \A n \in own : Card[n].group = l
  BY DEF OwnMatches, OfCard
<1> HIDE DEF own, s
<1>4. DOMAIN s = 1 .. Len(s)
  BY <1>2
<1>5. \A i \in 1 .. Len(s) : Placed(i) = WcMatchday(r, s[i])
  BY <1>2, <1>3 DEF WcMatchday
<1>6. \A i \in 1 .. Len(s) : Placed(i) \in S
  BY <1>2, <1>5
<1>7. \A n \in own : Placed(PlaceOf(r, n)) = WcMatchday(r, n)
  BY <1>2, <1>5
<1> HIDE DEF Placed, S
<1>8. list \in Seq(S) /\ DOMAIN list = 1 .. Len(s)
  BY <1>2, <1>4, <1>6
<1>9. \A w \in S : \E i \in DOMAIN list : list[i] = w
  <2> TAKE w \in S
  <2> PICK n \in own : w = WcMatchday(r, n)
    BY DEF S
  <2>1. PlaceOf(r, n) \in DOMAIN list /\ list[PlaceOf(r, n)] = w
    BY <1>2, <1>4, <1>7
  <2> QED
    BY <2>1
<1> HIDE DEF list
<1> QED
  BY <1>1, <1>8, <1>9 DEF Lists, S, own

LEMMA MembersListed ==
    ASSUME NEW r \in Rows, CardTeams(r), NEW l \in Letters
    PROVE  Lists(MemberWrites(r, l), {WcClub(l, c) : c \in TeamSet(r, l)})
<1> DEFINE teams == TeamSet(r, l)
           f == SetToSeq(teams)
<1>1. MemberWrites(r, l) = [i \in DOMAIN f |-> WcClub(l, f[i])]
  BY DEF MemberWrites, WcClub
<1>2. Lists(f, teams)
  BY OwnFacts, SetIsListed
<1> HIDE DEF f, teams
<1>3. [i \in DOMAIN f |-> WcClub(l, f[i])] \in Seq({WcClub(l, c) : c \in teams})
  BY <1>2 DEF Lists
<1> QED
  BY <1>1, <1>2, <1>3 DEF Lists, teams

LEMMA LettersFacts ==
    ASSUME NEW r \in Rows
    PROVE  LettersRead(r) \subseteq Letters /\ Lists(SetToSeq(LettersRead(r)), LettersRead(r))
<1>1. LettersRead(r) \subseteq Letters
  BY DEF LettersRead, Letters
<1>2. IsFiniteSet(LettersRead(r))
  BY <1>1, CardFacts, FS_Subset
<1> QED
  BY <1>1, <1>2, SetIsListed

\* What is listed for each is listed for all, one after another.
LEMMA EachListed ==
    ASSUME NEW S, NEW f, Lists(f, S), NEW writes, NEW goal, NEW seqs,
           seqs = [i \in DOMAIN f |-> writes[f[i]]],
           \A x \in S : Lists(writes[x], goal[x])
    PROVE  Lists(FlattenSeq(seqs), UNION {goal[x] : x \in S})
<1> DEFINE W == [i \in DOMAIN f |-> goal[f[i]]]
           T == {writes[x] : x \in S}
<1>1. f \in Seq(S) /\ \A x \in S : \E i \in DOMAIN f : f[i] = x
  BY DEF Lists
<1>2. \A i \in DOMAIN f : f[i] \in S
  BY <1>1
<1>3. seqs \in Seq(T) /\ DOMAIN seqs = DOMAIN f
  BY <1>1, <1>2
<1>4. \A i \in DOMAIN seqs : Lists(seqs[i], W[i])
  BY <1>2, <1>3
<1>5. UNION {W[i] : i \in DOMAIN seqs} = UNION {goal[x] : x \in S}
  BY <1>1, <1>2, <1>3
<1> HIDE DEF W, T
<1>6. Lists(FlattenSeq(seqs), UNION {W[i] : i \in DOMAIN seqs})
  BY <1>3, <1>4, FlatLists
<1> QED
  BY <1>5, <1>6

\* The writes of the group stage: the frame, then what hangs from it.
LEMMA GroupStageListed ==
    ASSUME NEW r \in Rows, CardTeams(r)
    PROVE  \E a, b : /\ GroupStageWrites(r) = a \o b
                     /\ Lists(a, GroupFrame(r)) /\ Lists(b, MatchdaySet(r) \cup MemberSet(r))
<1> DEFINE LR == LettersRead(r)
           letters == SetToSeq(LR)
<1>1. LR \subseteq Letters /\ Lists(letters, LR)
  BY LettersFacts
<1>2. CASE letters = <<>>
  <2>1. LR = {}
    BY <1>1, <1>2 DEF Lists
  <2>2. GroupStageWrites(r) = <<>>
    BY <1>2 DEF GroupStageWrites
  <2>3. GroupFrame(r) = {} /\ MatchdaySet(r) \cup MemberSet(r) = {}
    BY <2>1 DEF GroupFrame, MatchdaySet, MemberSet
  <2>4. Lists(<<>>, {})
    BY DEF Lists
  <2>5. <<>> \o <<>> = <<>>
    OBVIOUS
  <2> QED
    BY <2>2, <2>3, <2>4, <2>5
<1>3. CASE letters # <<>>
  <2> DEFINE st == << [to |-> "stage", stage |-> "groups"] >>
             gr == [i \in DOMAIN letters |-> [to |-> "group", group |-> letters[i]]]
             rd == [d \in 1 .. 3 |-> [to |-> "round", round |-> <<"groups", d>>]]
             mds == [i \in DOMAIN letters |-> MatchdayWrites(r, letters[i])]
             mbs == [i \in DOMAIN letters |-> MemberWrites(r, letters[i])]
             ST == {[to |-> "stage", stage |-> "groups"]}
             GR == {WcGroup(l) : l \in LR}
             RD == {[to |-> "round", round |-> <<"groups", d>>] : d \in 1 .. 3}
  <2>0. LR # {}
    BY <1>1, <1>3 DEF Lists
  <2>1. GroupStageWrites(r) = st \o gr \o rd \o FlattenSeq(mds) \o FlattenSeq(mbs)
    BY <1>3 DEF GroupStageWrites
  <2>2. Lists(st, ST)
    BY DEF Lists
  <2>3. Lists(rd, RD)
    <3>1. rd \in Seq(RD) /\ DOMAIN rd = 1 .. 3
      OBVIOUS
    <3> QED
      BY <3>1 DEF Lists
  <2>4. Lists(gr, GR)
    <3> HIDE DEF letters, LR
    <3>1. gr = [i \in DOMAIN letters |-> WcGroup(letters[i])]
      BY DEF WcGroup
    <3>2. [i \in DOMAIN letters |-> WcGroup(letters[i])] \in Seq(GR)
      BY <1>1 DEF Lists
    <3> QED
      BY <1>1, <3>1, <3>2 DEF Lists
  <2>5. Lists(FlattenSeq(mds), MatchdaySet(r))
    <3> DEFINE writes == [l \in LR |-> MatchdayWrites(r, l)]
               goal == [l \in LR |-> {WcMatchday(r, n) : n \in OwnMatches(r, l)}]
    <3>1. \A l \in LR : Lists(writes[l], goal[l])
      BY <1>1, MatchdaysListed
    <3>2. mds = [i \in DOMAIN letters |-> writes[letters[i]]]
      <4>1. \A i \in DOMAIN letters : letters[i] \in LR
        BY <1>1 DEF Lists
      <4> QED
        BY <4>1
    <3>3. UNION {goal[l] : l \in LR} = MatchdaySet(r)
      BY DEF MatchdaySet
    <3> HIDE DEF writes, goal, mds, letters, LR
    <3>4. Lists(FlattenSeq(mds), UNION {goal[l] : l \in LR})
      BY <1>1, <3>1, <3>2, EachListed
    <3> QED
      BY <3>3, <3>4
  <2>6. Lists(FlattenSeq(mbs), MemberSet(r))
    <3> DEFINE writes == [l \in LR |-> MemberWrites(r, l)]
               goal == [l \in LR |-> {WcClub(l, c) : c \in TeamSet(r, l)}]
    <3>1. \A l \in LR : Lists(writes[l], goal[l])
      BY <1>1, MembersListed
    <3>2. mbs = [i \in DOMAIN letters |-> writes[letters[i]]]
      <4>1. \A i \in DOMAIN letters : letters[i] \in LR
        BY <1>1 DEF Lists
      <4> QED
        BY <4>1
    <3>3. UNION {goal[l] : l \in LR} = MemberSet(r)
      BY DEF MemberSet
    <3> HIDE DEF writes, goal, mbs, letters, LR
    <3>4. Lists(FlattenSeq(mbs), UNION {goal[l] : l \in LR})
      BY <1>1, <3>1, <3>2, EachListed
    <3> QED
      BY <3>3, <3>4
  <2>7. GroupFrame(r) = (ST \cup GR) \cup RD
    BY <2>0 DEF GroupFrame, StageAndRounds
  <2> HIDE DEF st, gr, rd, mds, mbs, ST, GR, RD
  <2>8. Lists((st \o gr) \o rd, GroupFrame(r))
    <3>1. Lists(st \o gr, ST \cup GR)
      BY <2>2, <2>4, ListsJoin
    <3> QED
      BY <2>3, <2>7, <3>1, ListsJoin
  <2>9. Lists(FlattenSeq(mds) \o FlattenSeq(mbs), MatchdaySet(r) \cup MemberSet(r))
    BY <2>5, <2>6, ListsJoin
  <2> DEFINE x == (st \o gr) \o rd
             y == FlattenSeq(mds)
             z == FlattenSeq(mbs)
             S == (GroupFrame(r) \cup MatchdaySet(r)) \cup MemberSet(r)
  <2>10. x \in Seq(S) /\ y \in Seq(S) /\ z \in Seq(S)
    <3> HIDE DEF x, y, z
    <3>1. x \in Seq(GroupFrame(r)) /\ y \in Seq(MatchdaySet(r)) /\ z \in Seq(MemberSet(r))
      BY <2>5, <2>6, <2>8 DEF Lists, x, y, z
    <3> QED
      BY <3>1
  <2>11. (x \o y) \o z = x \o (y \o z)
    <3> HIDE DEF x, y, z, S
    <3> QED
      BY <2>10
  <2> QED
    BY <2>1, <2>8, <2>9, <2>11
<1> QED
  BY <1>2, <1>3

KoSet(r) == {n \in KoNumbers : r[n] # None}
SecondSet(r) == UNION {{FeedersWrite(r, n), WcLeg(n)} : n \in KoSet(r)}
KoHeader == {[to |-> "stage", stage |-> "knockout"]}
              \cup {[to |-> "round", round |-> <<"knockout", KoOrder[p]>>] : p \in DOMAIN KoOrder}

LEMMA KoReadIs ==
    ASSUME NEW r \in Rows
    PROVE  /\ KoSet(r) \subseteq KoNumbers /\ IsFiniteSet(KoSet(r))
           /\ Lists(KoRead(r), KoSet(r)) /\ Len(KoRead(r)) \in Nat
           /\ \A i, j \in 1 .. Len(KoRead(r)) : KoRead(r)[i] = KoRead(r)[j] => i = j
           /\ \A n \in KoSet(r) : LET i == Cardinality({m \in KoSet(r) : m < n}) + 1
                                  IN i \in 1 .. Len(KoRead(r)) /\ KoRead(r)[i] = n
           /\ Len(KoRead(r)) = Cardinality(KoSet(r))
<1>1. KoSet(r) \subseteq KoNumbers /\ KoSet(r) \subseteq Nat /\ IsFiniteSet(KoSet(r))
  BY CardFacts, FS_Subset DEF KoSet
<1>2. KoRead(r) = Sorted(KoSet(r))
  BY DEF KoRead, KoSet
<1> QED
  BY <1>1, <1>2, SortedIs

\* A number finds its tie.
LEMMA TieOfNumberIs ==
    ASSUME NEW r \in Rows, NEW n \in KoNumbers
    PROVE  LET t == TieOfNumber({m \in Numbers : r[m] # None}, n)
           IN /\ r[n] # None => t \in 1 .. Len(KoRead(r)) /\ KoRead(r)[t] = n /\ t # None
              /\ r[n] = None => t = None
<1> DEFINE read == {m \in Numbers : r[m] # None}
           S == KoSet(r)
           below == {m \in S : m < n}
<1>1. KoNumbers \cap read = S
  BY CardFacts DEF KoSet
<1>2. CASE r[n] # None
  <2>1. n \in S /\ n \in Nat
    BY <1>2, CardFacts DEF KoSet
  <2>2. {k \in S : k <= n} = below \cup {n}
    <3>1. \A k \in S : k \in Nat
      BY CardFacts DEF KoSet
    <3>2. ASSUME NEW k PROVE k \in {m \in S : m <= n} <=> k \in below \cup {n}
      <4>1. CASE k \in S
        BY <2>1, <3>1, <4>1
      <4>2. CASE k \notin S
        BY <2>1, <4>2
      <4> QED
        BY <4>1, <4>2
    <3> HIDE DEF S
    <3> QED
      BY <3>2
  <2>3. IsFiniteSet(below) /\ n \notin below
    BY <2>1, KoReadIs, FS_Subset
  <2>4. Cardinality(below \cup {n}) = Cardinality(below) + 1
    BY <2>3, FS_AddElement
  <2>5. TieOfNumber(read, n) = Cardinality({k \in S : k <= n})
    BY <1>1, <2>1 DEF TieOfNumber
  <2>6. TieOfNumber(read, n) = Cardinality(below) + 1
    BY <2>2, <2>4, <2>5
  <2>7. TieOfNumber(read, n) \in 1 .. Len(KoRead(r)) /\ KoRead(r)[TieOfNumber(read, n)] = n
    BY <2>1, <2>6, KoReadIs
  <2>8. None \notin Nat
    BY WorldCupAssumption
  <2> QED
    BY <1>2, <2>7, <2>8, KoReadIs
<1>3. CASE r[n] = None
  BY <1>3, CardFacts DEF TieOfNumber
<1> QED
  BY <1>2, <1>3

\* The writes of the knockout stage: the header, a tie each, the second pass.
LEMMA KnockoutListed ==
    ASSUME NEW r \in Rows
    PROVE  \E c, f : LET tieRows == [i \in DOMAIN KoRead(r) |-> TieCreated(r, KoRead(r)[i])]
                     IN /\ KnockoutWrites(r) = (c \o tieRows) \o f
                        /\ c \in Seq(KoHeader) /\ Lists(f, SecondSet(r))
                        /\ TieBase(r) = Len(GroupStageWrites(r)) + Len(c)
<1> DEFINE ko == KoRead(r)
           phases == Sorted(PhasesRead(r))
           tieRows == [i \in DOMAIN ko |-> TieCreated(r, ko[i])]
<1>1. Lists(ko, KoSet(r)) /\ Len(ko) \in Nat
  BY KoReadIs
<1>2. CASE ko = <<>>
  <2>1. KnockoutWrites(r) = <<>> /\ tieRows = <<>>
    BY <1>2 DEF KnockoutWrites
  <2>2. Lists(<<>>, SecondSet(r))
    <3>1. KoSet(r) = {}
      BY <1>1, <1>2 DEF Lists
    <3>2. SecondSet(r) = {}
      BY <3>1 DEF SecondSet
    <3> QED
      BY <3>2 DEF Lists
  <2>3. TieBase(r) = Len(GroupStageWrites(r)) + Len(<<>>)
    BY <1>2 DEF TieBase
  <2>4. <<>> \in Seq(KoHeader) /\ (<<>> \o <<>>) \o <<>> = <<>>
    OBVIOUS
  <2> QED
    BY <2>1, <2>2, <2>3, <2>4
<1>3. CASE ko # <<>>
  <2> DEFINE st == << [to |-> "stage", stage |-> "knockout"] >>
             rd == [i \in DOMAIN phases |->
                      [to |-> "round", round |-> <<"knockout", KoOrder[phases[i]]>>]]
             passes == [i \in DOMAIN ko |-> SecondPass(r, ko[i])]
  <2>1. KnockoutWrites(r) = st \o rd \o tieRows \o FlattenSeq(passes)
    BY <1>3 DEF KnockoutWrites
  <2>2. IsFiniteSet(PhasesRead(r)) /\ PhasesRead(r) \subseteq Nat
    <3>1. DOMAIN KoOrder = 1 .. Len(KoOrder) /\ Len(KoOrder) \in Nat
      BY WorldCupAssumption
    <3>2. IsFiniteSet(1 .. Len(KoOrder))
      BY <3>1, FS_Interval
    <3>3. PhasesRead(r) \subseteq 1 .. Len(KoOrder)
      BY <3>1 DEF PhasesRead
    <3> QED
      BY <3>1, <3>2, <3>3, FS_Subset
  <2>3. Lists(phases, PhasesRead(r)) /\ Len(phases) \in Nat
    BY <2>2, SortedIs
  <2>4. Lists(FlattenSeq(passes), SecondSet(r))
    <3> DEFINE writes == [n \in KoSet(r) |-> SecondPass(r, n)]
               goal == [n \in KoSet(r) |-> {FeedersWrite(r, n), WcLeg(n)}]
    <3>1. ASSUME NEW n \in KoSet(r) PROVE Lists(writes[n], goal[n])
      <4> DEFINE x == FeedersWrite(r, n)
                 y == WcLeg(n)
      <4>1. writes[n] = << x, y >> /\ goal[n] = {x, y}
        BY DEF SecondPass, WcLeg
      <4> HIDE DEF x, y
      <4>2. Lists(<< x, y >>, {x, y})
        <5>1. << x, y >> \in Seq({x, y}) /\ DOMAIN << x, y >> = 1 .. 2
          OBVIOUS
        <5>2. << x, y >>[1] = x /\ << x, y >>[2] = y
          OBVIOUS
        <5> QED
          BY <5>1, <5>2 DEF Lists
      <4> QED
        BY <4>1, <4>2
    <3>2. passes = [i \in DOMAIN ko |-> writes[ko[i]]]
      <4>1. \A i \in DOMAIN ko : ko[i] \in KoSet(r)
        BY <1>1 DEF Lists
      <4> QED
        BY <4>1
    <3>3. UNION {goal[n] : n \in KoSet(r)} = SecondSet(r)
      BY DEF SecondSet
    <3> HIDE DEF writes, goal, passes, ko
    <3>4. Lists(FlattenSeq(passes), UNION {goal[n] : n \in KoSet(r)})
      BY <1>1, <3>1, <3>2, EachListed
    <3> QED
      BY <3>3, <3>4
  <2>5. st \o rd \in Seq(KoHeader) /\ Len(st \o rd) = 1 + Len(phases)
    <3>1. st \in Seq(KoHeader) /\ Len(st) = 1
      BY DEF KoHeader
    <3>2. \A i \in DOMAIN phases : phases[i] \in DOMAIN KoOrder
      BY <2>3 DEF Lists, PhasesRead
    <3>3. DOMAIN phases = 1 .. Len(phases)
      BY <2>3 DEF Lists
    <3> HIDE DEF phases
    <3>4. \A i \in DOMAIN rd : rd[i] \in KoHeader
      BY <3>2 DEF KoHeader
    <3>5. rd \in Seq(KoHeader) /\ Len(rd) = Len(phases)
      BY <2>3, <3>3, <3>4
    <3> HIDE DEF st, rd
    <3>6. st \in Seq(KoHeader) /\ rd \in Seq(KoHeader)
      BY <3>1, <3>5
    <3>7. st \o rd \in Seq(KoHeader) /\ Len(st \o rd) = Len(st) + Len(rd)
      BY <3>6
    <3> QED
      BY <3>1, <3>5, <3>7
  <2>6. TieBase(r) = Len(GroupStageWrites(r)) + Len(st \o rd)
    BY <1>3, <2>5 DEF TieBase
  <2> DEFINE c == st \o rd
             f == FlattenSeq(passes)
  <2>7. /\ KnockoutWrites(r) = (c \o tieRows) \o f
        /\ c \in Seq(KoHeader) /\ Lists(f, SecondSet(r))
        /\ TieBase(r) = Len(GroupStageWrites(r)) + Len(c)
    BY <2>1, <2>4, <2>5, <2>6
  <2> HIDE DEF c, f
  <2> QED
    BY <2>7
<1> QED
  BY <1>2, <1>3

WcTieSet(r) == {TieCreated(r, n) : n \in KoSet(r)}
HangsFrom(r) == MatchdaySet(r) \cup MemberSet(r)

\* Five parts in a row: where each begins, and what it holds.
Parted(all, a, b, c, t, f) ==
    /\ Len(all) = Len(a) + Len(b) + Len(c) + Len(t) + Len(f)
    /\ \A i \in 1 .. Len(a) : all[i] = a[i]
    /\ \A i \in 1 .. Len(b) : all[Len(a) + i] = b[i]
    /\ \A i \in 1 .. Len(c) : all[Len(a) + Len(b) + i] = c[i]
    /\ \A i \in 1 .. Len(t) : all[Len(a) + Len(b) + Len(c) + i] = t[i]
    /\ \A i \in 1 .. Len(f) : all[Len(a) + Len(b) + Len(c) + Len(t) + i] = f[i]

LEMMA FiveParts ==
    ASSUME NEW S, NEW a \in Seq(S), NEW b \in Seq(S), NEW c \in Seq(S), NEW t \in Seq(S), NEW f \in Seq(S),
           NEW all, all = (a \o b) \o ((c \o t) \o f)
    PROVE  all \in Seq(S) /\ Parted(all, a, b, c, t, f)
<1> DEFINE x == a \o b
           y == c \o t
           z == y \o f
<1>0. Len(a) \in Nat /\ Len(b) \in Nat /\ Len(c) \in Nat /\ Len(t) \in Nat /\ Len(f) \in Nat
  OBVIOUS
<1>1. /\ x \in Seq(S) /\ Len(x) = Len(a) + Len(b)
      /\ \A i \in 1 .. Len(a) : x[i] = a[i]
      /\ \A i \in 1 .. Len(b) : x[Len(a) + i] = b[i]
  BY JoinAt
<1>2. /\ y \in Seq(S) /\ Len(y) = Len(c) + Len(t)
      /\ \A i \in 1 .. Len(c) : y[i] = c[i]
      /\ \A i \in 1 .. Len(t) : y[Len(c) + i] = t[i]
  BY JoinAt
<1> HIDE DEF x, y
<1>3. /\ z \in Seq(S) /\ Len(z) = Len(y) + Len(f)
      /\ \A i \in 1 .. Len(y) : z[i] = y[i]
      /\ \A i \in 1 .. Len(f) : z[Len(y) + i] = f[i]
  <2>1. y \in Seq(S)
    BY <1>2
  <2> QED
    BY <2>1, JoinAt
<1> HIDE DEF z
<1>4. /\ all \in Seq(S) /\ Len(all) = Len(x) + Len(z)
      /\ \A i \in 1 .. Len(x) : all[i] = x[i]
      /\ \A i \in 1 .. Len(z) : all[Len(x) + i] = z[i]
  <2>1. all = x \o z
    BY DEF x, y, z
  <2>2. x \in Seq(S) /\ z \in Seq(S)
    BY <1>1, <1>3
  <2> QED
    BY <2>1, <2>2, JoinAt
<1>5. ASSUME NEW i \in 1 .. Len(a) PROVE all[i] = a[i]
  <2>1. i \in 1 .. Len(x)
    BY <1>0, <1>1
  <2> QED
    BY <1>1, <1>4, <2>1
<1>6. ASSUME NEW i \in 1 .. Len(b) PROVE all[Len(a) + i] = b[i]
  <2>1. Len(a) + i \in 1 .. Len(x)
    BY <1>0, <1>1
  <2> QED
    BY <1>1, <1>4, <2>1
<1>7. ASSUME NEW i \in 1 .. Len(c) PROVE all[Len(a) + Len(b) + i] = c[i]
  <2>1. i \in 1 .. Len(y) /\ i \in 1 .. Len(z)
    BY <1>0, <1>2, <1>3
  <2>2. Len(a) + Len(b) + i = Len(x) + i
    BY <1>1
  <2> QED
    BY <1>2, <1>3, <1>4, <2>1, <2>2
<1>8. ASSUME NEW i \in 1 .. Len(t) PROVE all[Len(a) + Len(b) + Len(c) + i] = t[i]
  <2>1. Len(c) + i \in 1 .. Len(y) /\ Len(c) + i \in 1 .. Len(z)
    BY <1>0, <1>2, <1>3
  <2>2. Len(a) + Len(b) + Len(c) + i = Len(x) + (Len(c) + i)
    BY <1>0, <1>1
  <2> QED
    BY <1>2, <1>3, <1>4, <2>1, <2>2
<1>9. ASSUME NEW i \in 1 .. Len(f) PROVE all[Len(a) + Len(b) + Len(c) + Len(t) + i] = f[i]
  <2>1. Len(y) + i \in 1 .. Len(z)
    BY <1>0, <1>2, <1>3
  <2>2. Len(a) + Len(b) + Len(c) + Len(t) + i = Len(x) + (Len(y) + i)
    BY <1>0, <1>1, <1>2
  <2> QED
    BY <1>3, <1>4, <2>1, <2>2
<1>10. Len(all) = Len(a) + Len(b) + Len(c) + Len(t) + Len(f)
  BY <1>0, <1>1, <1>2, <1>3, <1>4
<1> QED
  BY <1>4, <1>5, <1>6, <1>7, <1>8, <1>9, <1>10 DEF Parted

\* Frame of the groups, what hangs from it, header of the knockout stage, ties, second
\* pass: what stands where among the writes of a rebuild.
LaidOut(r, m) ==
    LET all == WritesOf(r)
        base == TieBase(r)
        count == Len(KoRead(r))
    IN /\ Len(all) \in Nat /\ DOMAIN all = 1 .. Len(all) /\ base \in Nat /\ count \in Nat
       /\ all = [i \in 1 .. Len(all) |-> all[i]]
       /\ m <= base /\ base + count <= Len(all)
       /\ \A i \in 1 .. m : all[i] \in GroupFrame(r)
       /\ \A w \in GroupFrame(r) : \E i \in 1 .. m : all[i] = w
       /\ \A i \in m + 1 .. base : all[i] \in HangsFrom(r) \cup KoHeader
       /\ \A w \in HangsFrom(r) : \E i \in DOMAIN all : all[i] = w
       /\ \A i \in 1 .. count : all[base + i] = TieCreated(r, KoRead(r)[i])
       /\ \A i \in base + count + 1 .. Len(all) : all[i] \in SecondSet(r)
       /\ \A w \in SecondSet(r) : \E i \in DOMAIN all : all[i] = w

LEMMA WritesAre ==
    ASSUME NEW r \in Rows, CardTeams(r)
    PROVE  \E m \in Nat : LaidOut(r, m)
<1> DEFINE ko == KoRead(r)
           t == [i \in DOMAIN ko |-> TieCreated(r, ko[i])]
           all == WritesOf(r)
           GF == GroupFrame(r)
           HF == HangsFrom(r)
           KH == KoHeader
           TS == WcTieSet(r)
           SS == SecondSet(r)
           S == GF \cup HF \cup KH \cup TS \cup SS
           base == TieBase(r)
           count == Len(ko)
<1>1. PICK a, b : /\ GroupStageWrites(r) = a \o b /\ Lists(a, GF) /\ Lists(b, HF)
  BY GroupStageListed DEF HangsFrom
<1>2. PICK c, f : /\ KnockoutWrites(r) = (c \o t) \o f /\ c \in Seq(KH) /\ Lists(f, SS)
                  /\ base = Len(GroupStageWrites(r)) + Len(c)
  BY KnockoutListed
<1>3. Lists(ko, KoSet(r)) /\ count \in Nat
  BY KoReadIs
<1>4. t \in Seq(TS) /\ Len(t) = count /\ \A i \in 1 .. count : t[i] = TieCreated(r, ko[i])
  <2>1. \A i \in DOMAIN ko : ko[i] \in KoSet(r)
    BY <1>3 DEF Lists
  <2>2. DOMAIN ko = 1 .. count
    BY <1>3 DEF Lists
  <2> HIDE DEF ko
  <2>3. \A i \in DOMAIN ko : t[i] \in TS
    BY <2>1 DEF WcTieSet
  <2> QED
    BY <1>3, <2>2, <2>3
<1> HIDE DEF t, all, GF, HF, KH, TS, SS, base, count, ko
<1>5. a \in Seq(S) /\ b \in Seq(S) /\ c \in Seq(S) /\ t \in Seq(S) /\ f \in Seq(S)
  <2>1. a \in Seq(GF) /\ b \in Seq(HF) /\ f \in Seq(SS)
    BY <1>1, <1>2 DEF Lists
  <2> QED
    BY <1>2, <1>4, <2>1
<1> HIDE DEF S
<1>6. all = (a \o b) \o ((c \o t) \o f)
  BY <1>1, <1>2 DEF all, WritesOf
<1> DEFINE m == Len(a)
           k == Len(a) + Len(b)
           l == Len(a) + Len(b) + Len(c)
<1>7. /\ all \in Seq(S) /\ Len(all) = l + Len(t) + Len(f)
      /\ m \in Nat /\ k \in Nat /\ l \in Nat /\ Len(t) \in Nat /\ Len(f) \in Nat
      /\ m <= k /\ k <= l
      /\ \A i \in 1 .. Len(a) : all[i] = a[i]
      /\ \A i \in 1 .. Len(b) : all[m + i] = b[i]
      /\ \A i \in 1 .. Len(c) : all[k + i] = c[i]
      /\ \A i \in 1 .. Len(t) : all[l + i] = t[i]
      /\ \A i \in 1 .. Len(f) : all[l + Len(t) + i] = f[i]
  <2>1. all \in Seq(S) /\ Parted(all, a, b, c, t, f)
    BY <1>5, <1>6, FiveParts
  <2>2. Len(a) \in Nat /\ Len(b) \in Nat /\ Len(c) \in Nat /\ Len(t) \in Nat /\ Len(f) \in Nat
    BY <1>5
  <2>3. m \in Nat /\ k \in Nat /\ l \in Nat /\ m <= k /\ k <= l
    BY <2>2
  <2> QED
    BY <2>1, <2>2, <2>3 DEF Parted
<1>8. base = l
  BY <1>1, <1>2, <1>5
<1>9. Len(all) \in Nat /\ DOMAIN all = 1 .. Len(all)
  BY <1>7
<1>19. all = [i \in 1 .. Len(all) |-> all[i]]
  <2>1. all \in [1 .. Len(all) -> S]
    BY <1>7
  <2> QED
    BY <2>1
<1>70. /\ \A i \in 1 .. Len(a) : a[i] \in GF
       /\ \A i \in 1 .. Len(b) : b[i] \in HF
       /\ \A i \in 1 .. Len(c) : c[i] \in KH
       /\ \A i \in 1 .. Len(f) : f[i] \in SS
  <2>1. a \in Seq(GF) /\ b \in Seq(HF) /\ c \in Seq(KH) /\ f \in Seq(SS)
    BY <1>1, <1>2 DEF Lists
  <2> QED
    BY <2>1
<1>10. \A i \in 1 .. m : all[i] \in GF
  BY <1>7, <1>70
<1>11. \A w \in GF : \E i \in 1 .. m : all[i] = w
  <2> TAKE w \in GF
  <2> PICK i \in DOMAIN a : a[i] = w
    BY <1>1 DEF Lists
  <2>1. i \in 1 .. m
    BY <1>5
  <2> QED
    BY <1>7, <2>1
<1>12. \A i \in m + 1 .. base : all[i] \in HF \cup KH
  <2> TAKE i \in m + 1 .. base
  <2>1. CASE i <= k
    <3>1. i - m \in 1 .. Len(b) /\ i = m + (i - m)
      BY <1>5, <1>7, <1>8, <2>1
    <3>2. all[i] = b[i - m] /\ b[i - m] \in HF
      BY <1>7, <1>70, <3>1
    <3> QED
      BY <3>2
  <2>2. CASE i > k
    <3>1. i - k \in 1 .. Len(c) /\ i = k + (i - k)
      BY <1>5, <1>7, <1>8, <2>2
    <3>2. all[i] = c[i - k] /\ c[i - k] \in KH
      BY <1>7, <1>70, <3>1
    <3> QED
      BY <3>2
  <2> QED
    BY <1>7, <2>1, <2>2
<1>13. \A w \in HF : \E i \in DOMAIN all : all[i] = w
  <2> TAKE w \in HF
  <2> PICK i \in DOMAIN b : b[i] = w
    BY <1>1 DEF Lists
  <2>1. i \in 1 .. Len(b) /\ m + i \in 1 .. Len(all)
    BY <1>5, <1>7
  <2> QED
    BY <1>7, <1>9, <2>1
<1>14. \A i \in 1 .. count : all[base + i] = TieCreated(r, ko[i])
  BY <1>4, <1>7, <1>8
<1>15. \A i \in base + count + 1 .. Len(all) : all[i] \in SS
  <2> TAKE i \in base + count + 1 .. Len(all)
  <2>0. base \in Nat /\ count \in Nat /\ Len(all) = base + count + Len(f) /\ Len(f) \in Nat
    BY <1>3, <1>4, <1>7, <1>8
  <2>1. i - (base + count) \in 1 .. Len(f) /\ i = (base + count) + (i - (base + count))
    BY <2>0
  <2>2. all[i] = f[i - (base + count)]
    BY <1>4, <1>7, <1>8, <2>1
  <2> QED
    BY <1>70, <2>1, <2>2
<1>16. \A w \in SS : \E i \in DOMAIN all : all[i] = w
  <2> TAKE w \in SS
  <2> PICK i \in DOMAIN f : f[i] = w
    BY <1>2 DEF Lists
  <2>1. i \in 1 .. Len(f) /\ l + Len(t) + i \in 1 .. Len(all)
    BY <1>5, <1>7
  <2> QED
    BY <1>7, <1>9, <2>1
<1>17. base \in Nat /\ m <= base /\ base + count <= Len(all)
  BY <1>4, <1>7, <1>8
<1>18. LaidOut(r, m)
  BY <1>3, <1>9, <1>10, <1>11, <1>12, <1>13, <1>14, <1>15, <1>16, <1>17, <1>19
     DEF LaidOut, all, GF, HF, KH, SS, base, count, ko
<1> QED
  BY <1>7, <1>18

-----------------------------------------------------------------------------
(* The writes one by one, and what of them a later change leaves standing. *)

LEMMA RowSides ==
    ASSUME NEW row \in WcRow
    PROVE  /\ row["home"] = row.home /\ row["away"] = row.away
           /\ row.home \in AllTeams \cup {None} /\ row.away \in AllTeams \cup {None}
           /\ row # None
BY WorldCupAssumption DEF WcRow

LEMMA TieSides ==
    ASSUME NEW tie \in WcTie
    PROVE  /\ tie["home"] = tie.home /\ tie["away"] = tie.away /\ tie.of \in KoNumbers
           /\ tie.home \in AllTeams \cup {None} /\ tie.away \in AllTeams \cup {None}
BY DEF WcTie

\* Who links to whom, and what hangs from what, is as it was.
SameStructure ==
    /\ \A n \in Numbers : /\ wcRows'[n] = None <=> wcRows[n] = None
                          /\ wcRows'[n].group = wcRows[n].group
                          /\ wcRows'[n].round = wcRows[n].round
                          /\ wcRows'[n].tie = wcRows[n].tie
    /\ groups' = groups
    /\ DOMAIN wcTies' = DOMAIN wcTies /\ Len(wcTies') = Len(wcTies)
    /\ \A t \in DOMAIN wcTies : /\ wcTies'[t].of = wcTies[t].of
                                /\ wcTies'[t].homeSource = wcTies[t].homeSource
                                /\ wcTies'[t].awaySource = wcTies[t].awaySource

LEMMA LinksStay ==
    ASSUME LinksSound, SameStructure PROVE LinksSound'
BY DEF LinksSound, SameStructure

LEMMA SourcesStay ==
    ASSUME SourcesSound, SameStructure PROVE SourcesSound'
<1> SUFFICES ASSUME NEW t \in DOMAIN wcTies, NEW side \in Side,
                    SourceOf(wcTies'[t], side) # None
             PROVE  Matches(LabelOf(wcTies'[t].of, side), SourceOf(wcTies'[t], side), wcTies')
  BY DEF SourcesSound, SameStructure, Matches
<1>1. SourceOf(wcTies'[t], side) = SourceOf(wcTies[t], side) /\ wcTies'[t].of = wcTies[t].of
  BY DEF SameStructure, SourceOf
<1>2. Matches(LabelOf(wcTies[t].of, side), SourceOf(wcTies[t], side), wcTies)
  BY <1>1 DEF SourcesSound
<1> QED
  BY <1>1, <1>2 DEF Matches, SameStructure

LEMMA StandingStays ==
    ASSUME SameStructure, NEW w, w.to \in {"matchday", "leg"} => w.at \in Numbers, Standing(w)
    PROVE  Standing(w)'
BY DEF SameStructure, Standing

\* A write of a rebuild, by its place.
KindAt(r, m, i, w) ==
    LET base == TieBase(r)
        count == Len(KoRead(r))
    IN \/ i <= base /\ w.to \in {"stage", "round"}
       \/ i <= m /\ \E l \in LettersRead(r) : w = WcGroup(l)
       \/ /\ i > m /\ i <= base
          /\ \E l \in LettersRead(r) : \E n \in OwnMatches(r, l) : w = WcMatchday(r, n)
       \/ /\ i > m /\ i <= base
          /\ \E l \in LettersRead(r) : \E c \in TeamSet(r, l) : w = WcClub(l, c)
       \/ i > base /\ i <= base + count /\ w = TieCreated(r, KoRead(r)[i - base])
       \/ i > base + count /\ \E n \in KoSet(r) : w = FeedersWrite(r, n) \/ w = WcLeg(n)

LEMMA WriteKinds ==
    ASSUME NEW r \in Rows, NEW m \in Nat, LaidOut(r, m), NEW i \in 1 .. Len(WritesOf(r))
    PROVE  KindAt(r, m, i, WritesOf(r)[i])
<1> DEFINE all == WritesOf(r)
           base == TieBase(r)
           count == Len(KoRead(r))
<1>1. Len(all) \in Nat /\ base \in Nat /\ count \in Nat /\ m <= base /\ base + count <= Len(all)
  BY DEF LaidOut
<1>2. i \in 1 .. m \/ i \in m + 1 .. base \/ i - base \in 1 .. count \/ i \in base + count + 1 .. Len(all)
  BY <1>1
<1>3. CASE i \in 1 .. m
  <2>1. all[i] \in GroupFrame(r)
    BY <1>3 DEF LaidOut
  <2>2. all[i].to \in {"stage", "round"} \/ \E l \in LettersRead(r) : all[i] = WcGroup(l)
    BY <2>1 DEF GroupFrame, StageAndRounds
  <2> QED
    BY <1>1, <1>3, <2>2 DEF KindAt
<1>4. CASE i \in m + 1 .. base
  <2>1. all[i] \in HangsFrom(r) \cup KoHeader
    BY <1>4 DEF LaidOut
  <2>2. CASE all[i] \in KoHeader
    <3>1. all[i].to \in {"stage", "round"}
      BY <2>2 DEF KoHeader
    <3> QED
      BY <1>1, <1>4, <3>1 DEF KindAt
  <2>3. CASE all[i] \in MatchdaySet(r)
    BY <1>1, <1>4, <2>3 DEF KindAt, MatchdaySet
  <2>4. CASE all[i] \in MemberSet(r)
    BY <1>1, <1>4, <2>4 DEF KindAt, MemberSet
  <2> QED
    BY <2>1, <2>2, <2>3, <2>4 DEF HangsFrom
<1>5. CASE i - base \in 1 .. count
  <2>1. all[base + (i - base)] = TieCreated(r, KoRead(r)[i - base])
    BY <1>5 DEF LaidOut
  <2>2. base + (i - base) = i
    BY <1>1
  <2> QED
    BY <1>1, <1>5, <2>1, <2>2 DEF KindAt
<1>6. CASE i \in base + count + 1 .. Len(all)
  <2>1. all[i] \in SecondSet(r)
    BY <1>6 DEF LaidOut
  <2> QED
    BY <1>1, <1>6, <2>1 DEF KindAt, SecondSet
<1> QED
  BY <1>2, <1>3, <1>4, <1>5, <1>6

\* A write has a match of the card, if any.
LEMMA WritesAtMatches ==
    ASSUME NEW r \in Rows, CardTeams(r), NEW i \in 1 .. Len(WritesOf(r)),
           WritesOf(r)[i].to \in {"matchday", "leg"}
    PROVE  WritesOf(r)[i].at \in Numbers /\ r[WritesOf(r)[i].at] # None
<1> DEFINE w == WritesOf(r)[i]
<1>1. PICK m \in Nat : LaidOut(r, m)
  BY WritesAre
<1>2. KindAt(r, m, i, w)
  BY <1>1, WriteKinds
<1> HIDE DEF w
<1>3. w.to \in {"matchday", "leg"}
  BY DEF w
<1>4. CASE \E l \in LettersRead(r) : \E n \in OwnMatches(r, l) : w = WcMatchday(r, n)
  BY <1>4, CardFacts DEF WcMatchday, OwnMatches, OfCard, w
<1>5. CASE \E n \in KoSet(r) : w = WcLeg(n)
  BY <1>5, CardFacts DEF WcLeg, KoSet, w
<1>6. \A n : FeedersWrite(r, n).to = "feeders" /\ TieCreated(r, n).to = "tie"
  BY DEF FeedersWrite, TieCreated
<1>7. \A l, c : WcGroup(l).to = "group" /\ WcClub(l, c).to = "club"
  BY DEF WcGroup, WcClub
<1> QED
  BY <1>2, <1>3, <1>4, <1>5, <1>6, <1>7 DEF KindAt

LEMMA StillCard ==
    ASSUME NEW r, StillThere(r) PROVE CardTeams(r)
BY CardFacts DEF StillThere, CardTeams

LEMMA ThereStays ==
    ASSUME NEW r, SameStructure, StillThere(r) PROVE StillThere(r)'
BY DEF SameStructure, StillThere

LEMMA OrderStays ==
    ASSUME NEW r, NEW k, SameStructure, TiesInOrder(r, k) PROVE TiesInOrder(r, k)'
BY DEF SameStructure, TiesInOrder

LEMMA PhaseStays ==
    ASSUME Phase, SameStructure, seeding' = seeding, rebuilt' = rebuilt
    PROVE  Phase'
<1>1. ASSUME NEW r \in Rows, NEW i \in 1 .. Len(WritesOf(r)), CardTeams(r), Standing(WritesOf(r)[i])
      PROVE  Standing(WritesOf(r)[i])'
  <2> DEFINE w == WritesOf(r)[i]
  <2>1. w.to \in {"matchday", "leg"} => w.at \in Numbers
    BY <1>1, WritesAtMatches
  <2> HIDE DEF w
  <2>2. Standing(w)
    BY <1>1 DEF w
  <2>3. Standing(w)'
    BY <2>1, <2>2, StandingStays
  <2> QED
    BY <2>3 DEF w
<1>2. ASSUME NEW r \in Rows, NEW k \in Nat, Underway(r, k) PROVE Underway(r, k)'
  <2>1. StillThere(r) /\ CardTeams(r) /\ TiesInOrder(r, k) /\ k \in 0 .. Len(WritesOf(r))
        /\ seeding = Left(WritesOf(r), k)
    BY <1>2, StillCard DEF Underway
  <2>2. Len(WritesOf(r)) \in Nat
    BY <2>1, WritesAre DEF LaidOut
  <2>3. \A i \in 1 .. k : i \in 1 .. Len(WritesOf(r))
    BY <2>1, <2>2
  <2>4. \A i \in 1 .. k : Standing(WritesOf(r)[i])'
    BY <1>1, <1>2, <2>1, <2>3 DEF Underway
  <2>5. StillThere(r)' /\ TiesInOrder(r, k)'
    BY <2>1, ThereStays, OrderStays
  <2> QED
    BY <2>1, <2>4, <2>5 DEF Underway
<1>3. ASSUME Complete PROVE Complete'
  <2> PICK r \in Rows : /\ StillThere(r) /\ TiesInOrder(r, Len(WritesOf(r)))
                        /\ \A i \in DOMAIN WritesOf(r) : Standing(WritesOf(r)[i])
    BY <1>3 DEF Complete
  <2>1. CardTeams(r)
    BY StillCard
  <2>2. DOMAIN WritesOf(r) = 1 .. Len(WritesOf(r))
    BY <2>1, WritesAre DEF LaidOut
  <2>3. \A i \in DOMAIN WritesOf(r) : Standing(WritesOf(r)[i])'
    BY <1>1, <2>1, <2>2
  <2>4. StillThere(r)' /\ TiesInOrder(r, Len(WritesOf(r)))'
    BY ThereStays, OrderStays
  <2> QED
    BY <2>3, <2>4 DEF Complete
<1>4. Bare => Bare'
  BY DEF Bare, SameStructure
<1>5. Upserting => Upserting'
  BY DEF Upserting
<1> QED
  BY <1>2, <1>3, <1>4, <1>5 DEF Phase

-----------------------------------------------------------------------------
(* Results and the resolver between the runs. *)

Maybe == AllTeams \cup {None}

LEMMA ResultTeams ==
    ASSUME WcTypeOK, NEW n \in Numbers, wcRows[n] # None
    PROVE  /\ wcRows[n] \in WcRow /\ wcRows[n].won \in {None, "home", "away"}
           /\ wcRows[n].won # None => wcRows[n].won \in Side
           /\ WinnerOf(n) = None \/ (wcRows[n].won # None /\ WinnerOf(n) = wcRows[n][wcRows[n].won])
           /\ LoserOf(n) = None \/ (wcRows[n].won # None /\ LoserOf(n) = wcRows[n][OtherSide(wcRows[n].won)])
           /\ WinnerOf(n) \in Maybe /\ LoserOf(n) \in Maybe
<1>1. wcRows[n] \in WcRow
  BY DEF WcTypeOK
<1>2. wcRows[n].won \in {None, "home", "away"}
  BY <1>1 DEF WcRow
<1>3. /\ wcRows[n]["home"] = wcRows[n].home /\ wcRows[n]["away"] = wcRows[n].away
      /\ wcRows[n].home \in Maybe /\ wcRows[n].away \in Maybe
  BY <1>1, RowSides DEF Maybe
<1>4. WinnerOf(n) = None \/ (wcRows[n].won # None /\ WinnerOf(n) = wcRows[n][wcRows[n].won])
  BY DEF WinnerOf
<1>5. LoserOf(n) = None \/ (wcRows[n].won # None /\ LoserOf(n) = wcRows[n][OtherSide(wcRows[n].won)])
  <2>1. CASE WinnerOf(n) = None
    BY <2>1 DEF LoserOf
  <2>2. CASE WinnerOf(n) # None
    <3>1. wcRows[n].won # None /\ wcRows[n].won \in {"home", "away"}
      BY <1>2, <2>2 DEF WinnerOf
    <3>2. LoserOf(n) = IF wcRows[n].won = "home" THEN wcRows[n].away ELSE wcRows[n].home
      BY <2>2 DEF LoserOf
    <3> QED
      BY <1>3, <3>1, <3>2 DEF OtherSide
  <2> QED
    BY <2>1, <2>2
<1>6. WinnerOf(n) \in Maybe
  BY <1>2, <1>3, <1>4 DEF Maybe
<1>7. LoserOf(n) \in Maybe
  BY <1>2, <1>3, <1>5 DEF Maybe, OtherSide
<1> QED
  BY <1>1, <1>2, <1>4, <1>5, <1>6, <1>7 DEF Side

LEMMA TableTeams ==
    ASSUME NEW l \in Letters, NEW p \in 1 .. 4
    PROVE  TableOf[l][p] \in AllTeams /\ TableOf[l][p] # None
<1>1. DOMAIN TableOf[l] = 1 .. 4
  BY WorldCupAssumption
<1>2. TableOf[l][p] \in TeamsOf(l)
  BY <1>1 DEF TeamsOf, ToSet
<1> QED
  BY <1>2, CardFacts DEF AllTeams

LEMMA SourceKinds ==
    ASSUME NEW feed \in Sources
    PROVE  \/ feed.type = "place" /\ feed.group \in Letters /\ feed.position \in 1 .. 4
           \/ /\ feed.type = "third" /\ (CHOOSE l \in feed.groups : TRUE) \in Letters
              /\ feed.faces \in Letters \cup {None}
           \/ feed.type \in {"winner", "loser"} /\ feed.tie \in Nat
<1>1. CASE feed \in [type : {"third"}, groups : (SUBSET Letters) \ {{}}, faces : Letters \cup {None}]
  <2> DEFINE some == (SUBSET Letters) \ {{}}
  <2>0. \A s \in some : s \in SUBSET Letters /\ s # {}
    OBVIOUS
  <2> HIDE DEF some
  <2>1. feed.type = "third" /\ feed.groups \in SUBSET Letters /\ feed.groups # {}
        /\ feed.faces \in Letters \cup {None}
    <3>1. feed \in [type : {"third"}, groups : some, faces : Letters \cup {None}]
      BY <1>1 DEF some
    <3> QED
      BY <2>0, <3>1
  <2>2. (CHOOSE l \in feed.groups : TRUE) \in feed.groups
    BY <2>1
  <2> QED
    BY <2>1, <2>2
<1> QED
  BY <1>1 DEF Sources

LEMMA OnlyLegIs ==
    ASSUME NEW t, LinkedTo(t) # {}
    PROVE  OnlyLeg(t) \in KoNumbers /\ wcRows[OnlyLeg(t)] # None /\ wcRows[OnlyLeg(t)].tie = t
<1>1. OnlyLeg(t) \in LinkedTo(t)
  BY DEF OnlyLeg
<1> QED
  BY <1>1 DEF LinkedTo

LEMMA ResolvesTeams ==
    ASSUME WcTypeOK, NEW feed \in Sources \cup {None}
    PROVE  Resolves(feed) \in Maybe
<1>1. CASE feed = None
  BY <1>1 DEF Resolves, Maybe
<1>2. CASE feed \in Sources
  <2>0. feed # None
    BY <1>2, WorldCupAssumption
  <2>1. CASE feed.type = "place" /\ feed.group \in Letters /\ feed.position \in 1 .. 4
    <3>1. Resolves(feed) = IF GroupPlayed(feed.group) THEN TableOf[feed.group][feed.position] ELSE None
      BY <2>0, <2>1 DEF Resolves
    <3> QED
      BY <2>1, <3>1, TableTeams DEF Maybe
  <2>2. CASE feed.type = "third" /\ (CHOOSE l \in feed.groups : TRUE) \in Letters
    <3>1. Resolves(feed) \in {None, TableOf[CHOOSE l \in feed.groups : TRUE][3]}
      BY <2>0, <2>2 DEF Resolves
    <3> QED
      BY <2>2, <3>1, TableTeams DEF Maybe
  <2>3. CASE feed.type \in {"winner", "loser"}
    <3>1. CASE LinkedTo(feed.tie) = {}
      BY <2>3, <3>1 DEF Resolves, Maybe
    <3>2. CASE LinkedTo(feed.tie) # {}
      <4> DEFINE n == OnlyLeg(feed.tie)
      <4>1. n \in Numbers /\ wcRows[n] # None
        BY <3>2, OnlyLegIs, CardFacts
      <4>2. Resolves(feed) \in {WinnerOf(n), LoserOf(n)}
        BY <2>0, <2>3, <3>2 DEF Resolves
      <4> QED
        BY <4>1, <4>2, ResultTeams
    <3> QED
      BY <3>1, <3>2
  <2> QED
    BY <1>2, <2>1, <2>2, <2>3, SourceKinds
<1> QED
  BY <1>1, <1>2

LEMMA TieResolvedIs ==
    ASSUME WcTypeOK, NEW t \in DOMAIN wcTies
    PROVE  LET tie == TieResolved(t)
           IN /\ tie \in WcTie /\ tie.of = wcTies[t].of
              /\ tie.homeSource = wcTies[t].homeSource /\ tie.awaySource = wcTies[t].awaySource
              /\ tie.home = IF wcTies[t].home = None THEN Resolves(wcTies[t].homeSource)
                              ELSE wcTies[t].home
              /\ tie.away = IF wcTies[t].away = None THEN Resolves(wcTies[t].awaySource)
                              ELSE wcTies[t].away
<1>1. wcTies[t] \in WcTie
  BY DEF WcTypeOK
<1>2. wcTies[t].homeSource \in Sources \cup {None} /\ wcTies[t].awaySource \in Sources \cup {None}
  BY <1>1 DEF WcTie
<1>3. Resolves(wcTies[t].homeSource) \in Maybe /\ Resolves(wcTies[t].awaySource) \in Maybe
  BY <1>2, ResolvesTeams
<1> QED
  BY <1>1, <1>3 DEF TieResolved, WcTie, Maybe

LEMMA PlayKeeps ==
    ASSUME WcTypeOK, GroupTeamsStand, NEW n \in Numbers, MatchPlays(n)
    PROVE  /\ WcTypeOK' /\ GroupTeamsStand' /\ SameStructure
           /\ \A k \in Numbers : wcRows[k] # None =>
                /\ wcRows'[k].home = wcRows[k].home /\ wcRows'[k].away = wcRows[k].away
                /\ wcRows[k].won # None => wcRows'[k].won # None
                /\ (wcRows[k].won # None /\ k \in KoNumbers) => wcRows'[k].won = wcRows[k].won
<1> DEFINE WonBy(k, side) == [wcRows[k] EXCEPT !.won = side]
<1>0. wcRows[n] # None /\ wcRows[n].won = None /\ UNCHANGED <<groups, wcTies>>
  BY DEF MatchPlays, structureVars
<1>1. \A k \in Numbers : wcRows[k] # None => wcRows[k] \in WcRow
  BY DEF WcTypeOK
<1>2. ASSUME NEW k \in Numbers, NEW side \in {"home", "away"}, wcRows[k] # None
      PROVE  LET new == WonBy(k, side)
             IN /\ new \in WcRow /\ new # None
                /\ new.home = wcRows[k].home /\ new.away = wcRows[k].away
                /\ new.group = wcRows[k].group /\ new.round = wcRows[k].round
                /\ new.tie = wcRows[k].tie /\ new.won = side
  <2>1. wcRows[k] \in WcRow
    BY <1>1, <1>2
  <2>2. [wcRows[k] EXCEPT !.won = side] \in WcRow
    BY <2>1 DEF WcRow
  <2> QED
    BY <2>1, <2>2, RowSides DEF WcRow
<1>3. \A k \in Numbers : \/ wcRows'[k] = wcRows[k]
                          \/ /\ wcRows[k] # None
                             /\ wcRows[k].won # None => k \in GroupNumbers
                             /\ \E side \in {"home", "away"} :
                                  /\ wcRows'[k] = WonBy(k, side)
                                  /\ k \in GroupNumbers => side = "home"
  <2>1. CASE n \in GroupNumbers
    <3>1. wcRows' = [k \in Numbers |-> IF k \in GroupNumbers /\ wcRows[k] # None
                                         THEN [wcRows[k] EXCEPT !.won = "home"] ELSE wcRows[k]]
      BY <2>1 DEF MatchPlays
    <3> QED
      BY <3>1
  <2>2. CASE n \notin GroupNumbers
    <3>1. PICK side \in {"home", "away"} : wcRows' = [wcRows EXCEPT ![n].won = side]
      BY <2>2 DEF MatchPlays
    <3>2. wcRows'[n] = [wcRows[n] EXCEPT !.won = side] /\ \A k \in Numbers : k # n => wcRows'[k] = wcRows[k]
      BY <3>1 DEF WcTypeOK
    <3> QED
      BY <1>0, <2>2, <3>2
  <2> QED
    BY <2>1, <2>2
<1> HIDE DEF WonBy
<1>4. wcRows' = [k \in Numbers |-> wcRows'[k]]
  BY DEF MatchPlays, WcTypeOK
<1>5. \A k \in Numbers : wcRows'[k] \in WcRow \cup {None}
  BY <1>1, <1>2, <1>3
<1>6. WcTypeOK'
  BY <1>0, <1>4, <1>5 DEF WcTypeOK
<1>7. \A k \in Numbers : wcRows[k] # None =>
        wcRows'[k].home = wcRows[k].home /\ wcRows'[k].away = wcRows[k].away
  BY <1>2, <1>3
<1>8. \A k \in Numbers : wcRows'[k] = None <=> wcRows[k] = None
  BY <1>2, <1>3
<1>9. GroupTeamsStand'
  BY <1>7, <1>8, CardFacts DEF GroupTeamsStand
<1>10. SameStructure
  BY <1>0, <1>2, <1>3, <1>8 DEF SameStructure
<1>13. None \notin {"home", "away"}
  BY WorldCupAssumption
<1>11. \A k \in Numbers : (wcRows[k] # None /\ wcRows[k].won # None) => wcRows'[k].won # None
  BY <1>2, <1>3, <1>13
<1>12. \A k \in Numbers : (wcRows[k] # None /\ wcRows[k].won # None /\ k \in KoNumbers) =>
         wcRows'[k].won = wcRows[k].won
  BY <1>3, CardFacts
<1> QED
  BY <1>6, <1>7, <1>9, <1>10, <1>11, <1>12

LEMMA MoveKeeps ==
    ASSUME WcTypeOK, GroupTeamsStand, NEW n \in Numbers, Moved(n)
    PROVE  /\ WcTypeOK' /\ GroupTeamsStand' /\ SameStructure
           /\ \A k \in Numbers : /\ wcRows'[k].home = wcRows[k].home /\ wcRows'[k].away = wcRows[k].away
                                 /\ wcRows'[k].won = wcRows[k].won
<1>0. wcRows[n] # None /\ UNCHANGED <<groups, wcTies>> /\ wcRows[n] \in WcRow
  BY DEF Moved, structureVars, WcTypeOK
<1>1. PICK d \in {Card[k].day : k \in GroupNumbers} : wcRows' = [wcRows EXCEPT ![n].day = d]
  BY DEF Moved
<1>2. d \in Nat
  BY <1>1, WorldCupAssumption, CardFacts
<1> DEFINE new == [wcRows[n] EXCEPT !.day = d]
<1>3. wcRows' = [wcRows EXCEPT ![n] = new]
  BY <1>1 DEF WcTypeOK
<1>4. /\ new \in WcRow /\ new # None
      /\ new.home = wcRows[n].home /\ new.away = wcRows[n].away /\ new.won = wcRows[n].won
      /\ new.group = wcRows[n].group /\ new.round = wcRows[n].round /\ new.tie = wcRows[n].tie
  <2>1. new \in WcRow
    BY <1>0, <1>2 DEF WcRow
  <2> QED
    BY <1>0, <2>1, RowSides DEF WcRow
<1> HIDE DEF new
<1>5. wcRows'[n] = new /\ \A k \in Numbers : k # n => wcRows'[k] = wcRows[k]
  BY <1>3 DEF WcTypeOK
<1>6. WcTypeOK'
  BY <1>0, <1>3, <1>4 DEF WcTypeOK
<1>7. \A k \in Numbers : /\ wcRows'[k].home = wcRows[k].home /\ wcRows'[k].away = wcRows[k].away
                         /\ wcRows'[k].won = wcRows[k].won
                         /\ wcRows'[k] = None <=> wcRows[k] = None
  BY <1>0, <1>4, <1>5
<1>8. GroupTeamsStand'
  BY <1>7, CardFacts DEF GroupTeamsStand
<1>9. SameStructure
  BY <1>0, <1>4, <1>5, <1>7 DEF SameStructure
<1> QED
  BY <1>6, <1>7, <1>8, <1>9

\* What the resolver copies onto a match.
LEMMA RowResolvedIs ==
    ASSUME WcTypeOK, NEW n \in Numbers, wcRows[n] # None, NEW tie \in WcTie
    PROVE  LET row == RowResolved(n, tie)
           IN /\ row \in WcRow
              /\ row.home = IF tie.home = None THEN wcRows[n].home ELSE tie.home
              /\ row.away = IF tie.away = None THEN wcRows[n].away ELSE tie.away
              /\ row.won = wcRows[n].won /\ row.group = wcRows[n].group
              /\ row.round = wcRows[n].round /\ row.tie = wcRows[n].tie
<1>1. wcRows[n] \in WcRow
  BY DEF WcTypeOK
<1>2. tie.home \in AllTeams \cup {None} /\ tie.away \in AllTeams \cup {None}
  BY TieSides
<1> QED
  BY <1>1, <1>2 DEF RowResolved, WcRow

LEMMA ResolveKeeps ==
    ASSUME WcTypeOK, GroupTeamsStand, LinksSound, NEW t, TeamsResolved(t)
    PROVE  /\ WcTypeOK' /\ GroupTeamsStand' /\ SameStructure
           /\ t \in DOMAIN wcTies /\ wcTies'[t] = TieResolved(t)
           /\ \A s \in DOMAIN wcTies : s # t => wcTies'[s] = wcTies[s]
           /\ \A n \in Numbers :
                /\ wcRows'[n].won = wcRows[n].won
                /\ \/ wcRows'[n] = wcRows[n]
                   \/ /\ n \in KoNumbers /\ n = wcTies[t].of
                      /\ wcRows'[n] = RowResolved(n, TieResolved(t))
<1> DEFINE tie == TieResolved(t)
<1>0. t \in DOMAIN wcTies /\ UNCHANGED groups
  BY DEF TeamsResolved
<1>1. /\ tie \in WcTie /\ tie.of = wcTies[t].of
      /\ tie.homeSource = wcTies[t].homeSource /\ tie.awaySource = wcTies[t].awaySource
  BY <1>0, TieResolvedIs
<1>2. wcTies' = [wcTies EXCEPT ![t] = tie]
  BY DEF TeamsResolved
<1>3. wcRows' = [n \in Numbers |-> IF n \in LinkedTo(t) THEN RowResolved(n, tie) ELSE wcRows[n]]
  BY DEF TeamsResolved
<1> HIDE DEF tie
<1>4. wcTies' \in Seq(WcTie) /\ DOMAIN wcTies' = DOMAIN wcTies /\ Len(wcTies') = Len(wcTies)
  BY <1>0, <1>1, <1>2 DEF WcTypeOK
<1>5. wcTies'[t] = tie /\ \A s \in DOMAIN wcTies : s # t => wcTies'[s] = wcTies[s]
  BY <1>0, <1>2 DEF WcTypeOK
<1>6. ASSUME NEW n \in LinkedTo(t)
      PROVE  /\ n \in KoNumbers /\ n \in Numbers /\ wcRows[n] # None /\ n = wcTies[t].of
  <2>1. n \in KoNumbers /\ wcRows[n] # None /\ wcRows[n].tie = t
    BY <1>6 DEF LinkedTo
  <2>2. t # None
    BY <1>0, WorldCupAssumption DEF WcTypeOK
  <2> QED
    BY <2>1, <2>2, CardFacts DEF LinksSound
<1>7. ASSUME NEW n \in Numbers
      PROVE  /\ wcRows'[n] \in WcRow \cup {None} /\ (wcRows'[n] = None <=> wcRows[n] = None)
             /\ wcRows'[n].won = wcRows[n].won /\ wcRows'[n].group = wcRows[n].group
             /\ wcRows'[n].round = wcRows[n].round /\ wcRows'[n].tie = wcRows[n].tie
             /\ \/ wcRows'[n] = wcRows[n]
                \/ /\ n \in KoNumbers /\ n = wcTies[t].of
                   /\ wcRows'[n] = RowResolved(n, tie)
  <2>1. CASE n \in LinkedTo(t)
    <3>1. wcRows'[n] = RowResolved(n, tie)
      BY <1>3, <2>1
    <3>2. RowResolved(n, tie) # None /\ RowResolved(n, tie) \in WcRow
      BY <1>1, <1>6, <2>1, RowResolvedIs, RowSides
    <3> QED
      BY <1>1, <1>6, <2>1, <3>1, <3>2, RowResolvedIs
  <2>2. CASE n \notin LinkedTo(t)
    BY <1>3, <2>2 DEF WcTypeOK
  <2> QED
    BY <2>1, <2>2
<1>8. WcTypeOK'
  BY <1>0, <1>3, <1>4, <1>7 DEF WcTypeOK
<1>9. GroupTeamsStand'
  <2>1. \A n \in GroupNumbers : n \in Numbers /\ wcRows'[n] = wcRows[n]
    BY <1>7, CardFacts
  <2> QED
    BY <2>1 DEF GroupTeamsStand
<1>10. SameStructure
  <2>1. \A s \in DOMAIN wcTies : /\ wcTies'[s].of = wcTies[s].of
                                 /\ wcTies'[s].homeSource = wcTies[s].homeSource
                                 /\ wcTies'[s].awaySource = wcTies[s].awaySource
    BY <1>1, <1>5
  <2> QED
    BY <1>0, <1>4, <1>7, <2>1 DEF SameStructure
<1> QED
  BY <1>0, <1>5, <1>7, <1>8, <1>9, <1>10 DEF tie

LEMMA LabelKinds ==
    ASSUME NEW n \in KoNumbers, NEW side \in Side
    PROVE  LET label == LabelOf(n, side)
           IN \/ label.says = "place" /\ label.group \in Letters /\ label.position \in 1 .. 4
              \/ /\ label.says = "third" /\ label.groups # {} /\ label.groups \subseteq Letters
                 /\ (CHOOSE l \in label.groups : TRUE) \in Letters
              \/ label.says \in {"winner", "loser"} /\ label.match \in KoNumbers
<1> DEFINE label == LabelOf(n, side)
           some == (SUBSET Letters) \ {{}}
<1>1. label \in Labels
  BY WorldCupAssumption DEF LabelOf, Side
<1>2. \A s \in some : s \subseteq Letters /\ s # {} /\ (CHOOSE l \in s : TRUE) \in Letters
  OBVIOUS
<1>3. label \in [says : {"place"}, group : Letters, position : 1 .. 4]
                  \cup [says : {"third"}, groups : some]
                  \cup [says : {"winner", "loser"}, match : KoNumbers]
  BY <1>1 DEF Labels
<1> HIDE DEF label, some
<1> QED
  <2>1. CASE label \in [says : {"third"}, groups : some]
    <3>1. label.says = "third" /\ label.groups \in some
      BY <2>1
    <3> QED
      BY <1>2, <3>1 DEF label
  <2>2. CASE label \in [says : {"place"}, group : Letters, position : 1 .. 4]
    BY <2>2 DEF label
  <2>3. CASE label \in [says : {"winner", "loser"}, match : KoNumbers]
    BY <2>3 DEF label
  <2> QED
    BY <1>3, <2>1, <2>2, <2>3

\* A result does not change.
ResultsKept ==
    \A k \in Numbers : (wcRows[k] # None /\ wcRows[k].won # None) =>
        /\ wcRows'[k] # None /\ wcRows'[k].won # None
        /\ k \in KoNumbers => wcRows'[k].won = wcRows[k].won

LEMMA PlayedStays ==
    ASSUME ResultsKept, NEW l \in Letters, GroupPlayed(l) PROVE GroupPlayed(l)'
BY CardFacts DEF ResultsKept, GroupPlayed

Extends(shown, more) ==
    \A n \in KoNumbers : \A side \in Side :
       shown[n][side] # None => more[n][side] = shown[n][side]

LEMMA GivesStays ==
    ASSUME WcTypeOK, ResultsKept, NEW n \in KoNumbers, NEW side \in Side,
           NEW shown, NEW more, Extends(shown, more), NEW team, team # None,
           Gives(LabelOf(n, side), team, shown)
    PROVE  Gives(LabelOf(n, side), team, more)'
<1> DEFINE label == LabelOf(n, side)
<1>1. CASE label.says = "place"
  <2>1. label.group \in Letters /\ GroupPlayed(label.group) /\ team = TableOf[label.group][label.position]
    BY <1>1, LabelKinds DEF Gives
  <2> QED
    BY <1>1, <2>1, PlayedStays DEF Gives
<1>2. CASE label.says = "third"
  <2>1. AllPlayed /\ team = TableOf[CHOOSE l \in label.groups : TRUE][3]
    BY <1>2 DEF Gives
  <2>2. AllPlayed'
    BY <2>1, PlayedStays DEF AllPlayed
  <2> QED
    BY <1>2, <2>1, <2>2 DEF Gives
<1>3. CASE label.says \in {"winner", "loser"}
  <2> DEFINE m == label.match
             by == IF label.says = "winner" THEN wcRows[m].won ELSE OtherSide(wcRows[m].won)
  <2>1. m \in KoNumbers /\ m \in Numbers
    BY <1>3, LabelKinds, CardFacts
  <2>2. wcRows[m] # None /\ wcRows[m].won # None /\ team = shown[m][by]
    BY <1>3 DEF Gives
  <2>3. wcRows'[m] # None /\ wcRows'[m].won = wcRows[m].won
    BY <2>1, <2>2 DEF ResultsKept
  <2>4. by \in Side
    BY <2>1, <2>2, ResultTeams DEF Side, OtherSide
  <2>5. more[m][by] = team
    BY <2>1, <2>2, <2>4 DEF Extends
  <2> HIDE DEF m
  <2> QED
    BY <1>3, <2>2, <2>3, <2>5 DEF Gives, m
<1> QED
  BY <1>1, <1>2, <1>3 DEF Gives

LEMMA OneTeamGiven ==
    ASSUME NEW label, NEW team, NEW other, NEW shown, Gives(label, team, shown), Gives(label, other, shown)
    PROVE  team = other
BY DEF Gives

\* What a source resolves to, the label of the match says.
LEMMA ResolvesGives ==
    ASSUME WcTypeOK, LinksSound, NEW shown \in Shown, ShowsOnly(shown),
           NEW n \in KoNumbers, NEW side \in Side, NEW feed \in Sources,
           Matches(LabelOf(n, side), feed, wcTies), Resolves(feed) # None
    PROVE  Gives(LabelOf(n, side), Resolves(feed), shown)
<1> DEFINE label == LabelOf(n, side)
<1>0. feed # None
  BY WorldCupAssumption
<1>1. CASE label.says = "place"
  <2>1. feed.type = "place" /\ feed.group = label.group /\ feed.position = label.position
    BY <1>1 DEF Matches
  <2>2. Resolves(feed) = IF GroupPlayed(feed.group) THEN TableOf[feed.group][feed.position] ELSE None
    BY <1>0, <2>1 DEF Resolves
  <2> QED
    BY <1>1, <2>1, <2>2 DEF Gives
<1>2. CASE label.says = "third"
  <2>1. feed.type = "third" /\ feed.groups = label.groups
    BY <1>2 DEF Matches
  <2>2. Resolves(feed) = IF feed.faces # None /\ AllPlayed
                             THEN TableOf[CHOOSE l \in feed.groups : TRUE][3] ELSE None
    BY <1>0, <2>1 DEF Resolves, AllPlayed
  <2> QED
    BY <1>2, <2>1, <2>2 DEF Gives
<1>3. CASE label.says \in {"winner", "loser"}
  <2> DEFINE m == label.match
             t == feed.tie
             by == IF label.says = "winner" THEN wcRows[m].won ELSE OtherSide(wcRows[m].won)
  <2>1. m \in KoNumbers /\ m \in Numbers
    BY <1>3, LabelKinds, CardFacts
  <2>2. feed.type = label.says /\ t \in DOMAIN wcTies /\ wcTies[t].of = m
    BY <1>3 DEF Matches
  <2>3. LinkedTo(t) # {}
    BY <1>0, <1>3, <2>2 DEF Resolves
  <2>4. t # None
    BY <2>2, WorldCupAssumption DEF WcTypeOK
  <2>5. OnlyLeg(t) = m /\ wcRows[m] # None
    <3> DEFINE k == OnlyLeg(t)
    <3>1. k \in KoNumbers /\ wcRows[k] # None /\ wcRows[k].tie = t
      BY <2>3, OnlyLegIs
    <3>2. k \in Numbers
      BY <3>1, CardFacts
    <3> HIDE DEF k, t
    <3>3. wcTies[t].of = k
      BY <2>4, <3>1, <3>2 DEF LinksSound
    <3> QED
      BY <2>2, <3>1, <3>3 DEF k
  <2>6. Resolves(feed) = IF label.says = "winner" THEN WinnerOf(m) ELSE LoserOf(m)
    BY <1>0, <1>3, <2>2, <2>3, <2>5 DEF Resolves
  <2>7. wcRows[m].won # None /\ Resolves(feed) = wcRows[m][by]
    BY <2>1, <2>5, <2>6, ResultTeams
  <2>8. by \in Side
    BY <2>1, <2>5, <2>7, ResultTeams DEF Side, OtherSide
  <2>9. wcRows[m][by] \in {None, shown[m][by]}
    BY <2>1, <2>5, <2>8 DEF ShowsOnly
  <2> HIDE DEF m
  <2> QED
    BY <1>3, <2>5, <2>7, <2>9 DEF Gives, m
<1> QED
  BY <1>1, <1>2, <1>3, LabelKinds

-----------------------------------------------------------------------------
(* The steps of a run. *)

Upsert(n) == [to |-> "upsert", at |-> n]
Drop == [to |-> "drop"]
ReadAll == [to |-> "read"]

LEMMA LeftTail ==
    ASSUME NEW all, Len(all) \in Nat, NEW k \in 0 .. Len(all)
    PROVE  /\ Len(Left(all, k)) = Len(all) - k
           /\ Left(all, k) = <<>> => k = Len(all)
           /\ Left(all, k) # <<>> =>
                /\ k < Len(all) /\ Head(Left(all, k)) = all[k + 1]
                /\ Tail(Left(all, k)) = Left(all, k + 1)
<1> DEFINE n == Len(all) - k
           S == {all[i] : i \in k + 1 .. Len(all)}
           s == Left(all, k)
<1>1. n \in Nat /\ \A i \in 1 .. n : k + i \in k + 1 .. Len(all)
  OBVIOUS
<1>2. s \in [1 .. n -> S]
  BY <1>1 DEF Left
<1>3. s \in Seq(S) /\ Len(s) = n
  <2> HIDE DEF s, S, n
  <2> QED
    BY <1>1, <1>2
<1>4. s = <<>> => k = Len(all)
  <2>1. s = <<>> => Len(s) = 0
    OBVIOUS
  <2> QED
    BY <1>3, <2>1
<1>5. ASSUME s # <<>>
      PROVE  k < Len(all) /\ Head(s) = all[k + 1] /\ Tail(s) = Left(all, k + 1)
  <2>1. n # 0
    <3> HIDE DEF s, S, n
    <3> QED
      BY <1>3, <1>5
  <2>2. k < Len(all) /\ 1 \in 1 .. n
    BY <1>1, <2>1
  <2>3. s[1] = all[k + 1]
    BY <2>2 DEF Left
  <2>4. Head(s) = s[1]
    <3> HIDE DEF s, S, n
    <3> QED
      BY <1>3, <1>5
  <2>5. Tail(s) = [i \in 1 .. n - 1 |-> s[i + 1]]
    <3> HIDE DEF s, S, n
    <3>1. Tail(s) \in Seq(S) /\ Len(Tail(s)) = n - 1 /\ n - 1 \in Nat
      BY <1>1, <1>3, <1>5, <2>1
    <3>2. \A i \in 1 .. n - 1 : Tail(s)[i] = s[i + 1]
      BY <1>1, <1>3, <1>5, <3>1
    <3> DEFINE u == Tail(s)
    <3>4. u \in Seq(S) /\ Len(u) = n - 1
      BY <3>1
    <3> HIDE DEF u
    <3>5. u \in [1 .. n - 1 -> S]
      BY <3>1, <3>4
    <3>3. DOMAIN Tail(s) = 1 .. n - 1 /\ Tail(s) = [i \in DOMAIN Tail(s) |-> Tail(s)[i]]
      BY <3>5 DEF u
    <3> QED
      BY <3>2, <3>3
  <2>6. \A i \in 1 .. n - 1 : s[i + 1] = all[(k + 1) + i]
    <3> TAKE i \in 1 .. n - 1
    <3>1. i + 1 \in 1 .. n /\ k + (i + 1) = (k + 1) + i
      BY <1>1
    <3> QED
      BY <3>1 DEF Left
  <2>7. Len(all) - (k + 1) = n - 1
    BY <1>1
  <2>8. Left(all, k + 1) = [i \in 1 .. n - 1 |-> all[(k + 1) + i]]
    BY <2>7 DEF Left
  <2> QED
    BY <2>2, <2>3, <2>4, <2>5, <2>6, <2>8
<1> QED
  BY <1>3, <1>4, <1>5 DEF s

\* The next write of a run, and what it leaves to be done.
NextIs ==
    \/ \E n \in Numbers : Head(seeding) = Upsert(n) /\ Upserting'
    \/ Head(seeding) = Drop /\ seeding' = << ReadAll >>
    \/ Head(seeding) = ReadAll /\ Bare /\ seeding' = WritesOf(wcRows)
    \/ \E r \in Rows : \E k \in Nat :
         /\ Underway(r, k) /\ k < Len(WritesOf(r)) /\ CardTeams(r)
         /\ Head(seeding) = WritesOf(r)[k + 1] /\ seeding' = Left(WritesOf(r), k + 1)

LEMMA NextWrite ==
    ASSUME Phase, SeedWrites PROVE NextIs /\ ~rebuilt /\ ~rebuilt'
<1>0. /\ seeding # None /\ seeding # <<>> /\ ~rebuilt /\ ~rebuilt'
      /\ seeding' = IF Head(seeding).to = "read" THEN WritesOf(wcRows) ELSE Tail(seeding)
  BY DEF SeedWrites, Phase, WritesOf
<1>1. CASE Upserting
  <2> DEFINE U == [to : {"upsert"}, at : Numbers]
             rest == << Drop, ReadAll >>
             T == U \cup {Drop, ReadAll}
  <2> PICK s \in Seq(U) : seeding = s \o Rebuild
    BY <1>1 DEF Upserting
  <2>1. Rebuild = rest /\ rest \in Seq(T) /\ Len(rest) = 2 /\ rest[1] = Drop
    BY DEF Rebuild, Drop, ReadAll
  <2>2. CASE s = <<>>
    <3>1. seeding = << Drop, ReadAll >>
      BY <2>1, <2>2
    <3>2. Head(seeding) = Drop /\ Tail(seeding) = << ReadAll >>
      BY <3>1
    <3>3. Drop.to # "read"
      BY DEF Drop
    <3> QED
      BY <1>0, <3>2, <3>3 DEF NextIs
  <2>3. CASE s # <<>>
    <3>1. s \in Seq(T) /\ Head(s) \in U /\ Tail(s) \in Seq(U)
      <4> HIDE DEF U
      <4> QED
        BY <2>3
    <3> HIDE DEF U, T, rest
    <3>2. Head(s \o rest) = Head(s) /\ Tail(s \o rest) = Tail(s) \o rest
      BY <2>1, <2>3, <3>1
    <3> USE DEF U
    <3>3. PICK n \in Numbers : Head(s) = Upsert(n)
      BY <3>1 DEF Upsert
    <3>4. Head(seeding) = Upsert(n) /\ Upsert(n).to # "read"
      BY <2>1, <3>2, <3>3 DEF Upsert
    <3>5. seeding' = Tail(s) \o Rebuild
      BY <1>0, <2>1, <3>2, <3>4
    <3>6. Upserting'
      BY <3>1, <3>5 DEF Upserting
    <3> QED
      BY <1>0, <3>4, <3>6 DEF NextIs
  <2> QED
    BY <2>2, <2>3
<1>2. CASE seeding = << [to |-> "read"] >> /\ Bare
  <2>1. Head(seeding) = ReadAll /\ ReadAll.to = "read"
    BY <1>2 DEF ReadAll
  <2> QED
    BY <1>0, <1>2, <2>1 DEF NextIs
<1>3. CASE \E r \in Rows : \E k \in Nat : Underway(r, k)
  <2> PICK r \in Rows, k \in Nat : Underway(r, k)
    BY <1>3
  <2> DEFINE all == WritesOf(r)
  <2>1. CardTeams(r) /\ seeding = Left(all, k) /\ k \in 0 .. Len(all)
    BY StillCard DEF Underway
  <2>2. PICK m \in Nat : LaidOut(r, m)
    BY <2>1, WritesAre
  <2>3. Len(all) \in Nat
    BY <2>2 DEF LaidOut
  <2>4. k < Len(all) /\ Head(seeding) = all[k + 1] /\ Tail(seeding) = Left(all, k + 1)
    BY <1>0, <2>1, <2>3, LeftTail
  <2>5. all[k + 1].to # "read"
    <3>1. k + 1 \in 1 .. Len(all)
      BY <2>1, <2>3, <2>4
    <3>2. KindAt(r, m, k + 1, all[k + 1])
      BY <2>2, <3>1, WriteKinds
    <3> DEFINE w == all[k + 1]
    <3> HIDE DEF w
    <3>3. KindAt(r, m, k + 1, w)
      BY <3>2 DEF w
    <3>4. w.to \in {"stage", "round", "group", "matchday", "club", "tie", "feeders", "leg"}
      BY <3>3 DEF KindAt, WcGroup, WcMatchday, WcClub, TieCreated, FeedersWrite, WcLeg
    <3> QED
      BY <3>4 DEF w
  <2>6. seeding' = Left(all, k + 1)
    BY <1>0, <2>4, <2>5
  <2> QED
    BY <1>0, <2>1, <2>4, <2>6 DEF NextIs
<1> QED
  BY <1>0, <1>1, <1>2, <1>3 DEF Phase

LEMMA FrameEffects ==
    ASSUME NEW w, WritesRow(w)
    PROVE  /\ w.to \in {"read", "stage", "round"} => wcRows' = wcRows /\ groups' = groups /\ wcTies' = wcTies
           /\ w.to = "group" => /\ wcRows' = wcRows /\ wcTies' = wcTies
                                /\ groups' = [l \in DOMAIN groups \cup {w.group} |->
                                                IF l = w.group THEN {} ELSE groups[l]]
           /\ w.to = "club" => /\ wcRows' = wcRows /\ wcTies' = wcTies
                               /\ groups' = [groups EXCEPT ![w.group] = @ \cup {w.club}]
BY DEF WritesRow, structureVars

LEMMA RowEffects ==
    ASSUME NEW w, WritesRow(w)
    PROVE  /\ w.to = "upsert" => /\ groups' = groups /\ wcTies' = wcTies
                                 /\ wcRows' = [wcRows EXCEPT ![w.at] = CardRow(w.at)]
           /\ w.to = "drop" => /\ groups' = <<>> /\ wcTies' = <<>>
                               /\ wcRows' = [n \in Numbers |-> IF wcRows[n] = None THEN None
                                                                 ELSE Unlinked(wcRows[n])]
           /\ w.to = "matchday" => /\ groups' = groups /\ wcTies' = wcTies
                                   /\ wcRows' = [wcRows EXCEPT ![w.at].stage = "groups",
                                                   ![w.at].group = w.group, ![w.at].round = w.round]
BY DEF WritesRow, structureVars

LEMMA TieEffects ==
    ASSUME NEW w, WritesRow(w)
    PROVE  /\ w.to = "tie" => /\ groups' = groups /\ wcRows' = wcRows
                              /\ wcTies' = Append(wcTies, [of |-> w.at, home |-> w.home, away |-> w.away,
                                                           homeSource |-> None, awaySource |-> None])
           /\ w.to = "feeders" => /\ groups' = groups /\ wcRows' = wcRows
                                  /\ wcTies' = [t \in DOMAIN wcTies |->
                                       IF wcTies[t].of = w.at
                                         THEN [wcTies[t] EXCEPT !.homeSource = w.homeSource,
                                                                !.awaySource = w.awaySource]
                                         ELSE wcTies[t]]
           /\ w.to = "leg" => /\ groups' = groups /\ wcTies' = wcTies
                              /\ wcRows' = [wcRows EXCEPT ![w.at].stage = "knockout",
                                   ![w.at].round = <<"knockout", Card[w.at].phase>>,
                                   ![w.at].tie = CHOOSE t \in DOMAIN wcTies : wcTies[t].of = w.at]
BY DEF WritesRow, structureVars

\* A write leaves a knockout match the teams it had, or none.
SidesKept ==
    \A n \in KoNumbers : \A side \in Side :
       wcRows'[n] # None => \/ wcRows'[n][side] = None
                            \/ wcRows[n] # None /\ wcRows'[n][side] = wcRows[n][side]
TiesKept ==
    \A t \in DOMAIN wcTies' : \A side \in Side :
       \/ t \in DOMAIN wcTies /\ wcTies'[t].of = wcTies[t].of /\ wcTies'[t][side] = wcTies[t][side]
       \/ /\ Head(seeding).to = "tie" /\ wcTies'[t].of = Head(seeding).at
          /\ wcTies'[t][side] = Head(seeding)[side]

WriteHolds ==
    /\ WcTypeOK' /\ GroupTeamsStand' /\ LinksSound' /\ SourcesSound'
    /\ ResultsKept /\ SidesKept /\ TiesKept

WcFacts == WcTypeOK /\ GroupTeamsStand /\ LinksSound /\ SourcesSound

LEMMA NothingKeeps ==
    ASSUME WcFacts, wcRows' = wcRows, wcTies' = wcTies,
           DOMAIN groups' \subseteq Letters, \A l \in DOMAIN groups' : groups'[l] \subseteq TeamsOf(l)
    PROVE  WriteHolds
BY DEF WcFacts, WriteHolds, WcTypeOK, GroupTeamsStand, LinksSound, SourcesSound, Matches,
       ResultsKept, SidesKept, TiesKept

\* The row of an upsert.
LEMMA CardRowIs ==
    ASSUME WcTypeOK, NEW n \in Numbers
    PROVE  LET row == CardRow(n)
           IN /\ row \in WcRow /\ row # None
              /\ row.home = Card[n].home /\ row.away = Card[n].away
              /\ wcRows[n] = None => row.won = None /\ row.tie = None
              /\ wcRows[n] # None => row.won = wcRows[n].won /\ row.tie = wcRows[n].tie
<1> DEFINE old == IF wcRows[n] = None THEN NewRow ELSE wcRows[n]
<1>1. Card[n].home \in AllTeams \cup {None} /\ Card[n].away \in AllTeams \cup {None}
  <2>1. CASE n \in GroupNumbers
    <3>1. {Card[n].home, Card[n].away} \subseteq TeamsOf(Card[n].group)
      BY <2>1, WorldCupAssumption
    <3> QED
      BY <2>1, <3>1, CardFacts DEF AllTeams
  <2>2. CASE n \in KoNumbers
    BY <2>2, WorldCupAssumption
  <2> QED
    BY <2>1, <2>2, CardFacts
<1>2. Card[n].day \in Nat
  BY WorldCupAssumption
<1>3. NewRow \in WcRow /\ NewRow.won = None /\ NewRow.tie = None
  BY DEF NewRow, WcRow
<1>4. old \in WcRow
  BY <1>3 DEF WcTypeOK
<1> HIDE DEF old
<1> DEFINE row == [old EXCEPT !.home = Card[n].home, !.away = Card[n].away, !.day = Card[n].day]
<1>5. row \in WcRow /\ row.home = Card[n].home /\ row.away = Card[n].away
      /\ row.won = old.won /\ row.tie = old.tie
  BY <1>1, <1>2, <1>4 DEF WcRow
<1>6. row = CardRow(n)
  BY DEF CardRow, old
<1> HIDE DEF row
<1>7. row # None
  BY <1>5, RowSides
<1> QED
  BY <1>3, <1>5, <1>6, <1>7 DEF old

LEMMA UpsertKeeps ==
    ASSUME WcFacts, NEW n \in Numbers, WritesRow(Upsert(n))
    PROVE  WriteHolds
<1> DEFINE new == CardRow(n)
<1>0. WcTypeOK /\ GroupTeamsStand /\ LinksSound /\ SourcesSound
  BY DEF WcFacts
<1>1. groups' = groups /\ wcTies' = wcTies /\ wcRows' = [wcRows EXCEPT ![n] = new]
  <2> DEFINE w == Upsert(n)
  <2>1. WritesRow(w) /\ w.to = "upsert" /\ w.at = n
    BY DEF Upsert
  <2> HIDE DEF w
  <2> QED
    BY <2>1, RowEffects
<1>2. /\ new \in WcRow /\ new # None
      /\ new.home = Card[n].home /\ new.away = Card[n].away
      /\ wcRows[n] = None => new.won = None /\ new.tie = None
      /\ wcRows[n] # None => new.won = wcRows[n].won /\ new.tie = wcRows[n].tie
  BY <1>0, CardRowIs
<1> HIDE DEF new
<1>3. wcRows'[n] = new /\ \A k \in Numbers : k # n => wcRows'[k] = wcRows[k]
  BY <1>0, <1>1 DEF WcTypeOK
<1>4. WcTypeOK'
  BY <1>0, <1>1, <1>2 DEF WcTypeOK
<1>5. GroupTeamsStand'
  BY <1>0, <1>2, <1>3, CardFacts DEF GroupTeamsStand
<1>6. LinksSound'
  BY <1>0, <1>1, <1>2, <1>3 DEF LinksSound
<1>7. SourcesSound'
  BY <1>0, <1>1 DEF SourcesSound, Matches
<1>8. ResultsKept
  BY <1>2, <1>3 DEF ResultsKept
<1>9. SidesKept
  <2>1. n \in KoNumbers => new.home = None /\ new.away = None
    BY <1>2, WorldCupAssumption
  <2>2. new["home"] = new.home /\ new["away"] = new.away
    BY <1>2, RowSides
  <2> QED
    BY <1>3, <2>1, <2>2, CardFacts DEF SidesKept, Side
<1>10. TiesKept
  BY <1>1 DEF TiesKept
<1> QED
  BY <1>4, <1>5, <1>6, <1>7, <1>8, <1>9, <1>10 DEF WriteHolds

LEMMA DropKeeps ==
    ASSUME WcFacts, WritesRow(Drop)
    PROVE  WriteHolds
<1>0. WcTypeOK /\ GroupTeamsStand /\ LinksSound /\ SourcesSound
  BY DEF WcFacts
<1>1. /\ groups' = <<>> /\ wcTies' = <<>>
      /\ wcRows' = [n \in Numbers |-> IF wcRows[n] = None THEN None ELSE Unlinked(wcRows[n])]
  <2> DEFINE w == Drop
  <2>1. WritesRow(w) /\ w.to = "drop"
    BY DEF Drop
  <2> HIDE DEF w
  <2> QED
    BY <2>1, RowEffects
<1>2. ASSUME NEW n \in Numbers, wcRows[n] # None
      PROVE  LET row == Unlinked(wcRows[n])
             IN /\ row \in WcRow /\ row # None /\ row.tie = None /\ row.won = wcRows[n].won
                /\ row.home = wcRows[n].home /\ row.away = wcRows[n].away
                /\ row["home"] = wcRows[n]["home"] /\ row["away"] = wcRows[n]["away"]
  <2>1. wcRows[n] \in WcRow
    BY <1>0, <1>2 DEF WcTypeOK
  <2>2. /\ Unlinked(wcRows[n]) \in WcRow /\ Unlinked(wcRows[n]).tie = None
        /\ Unlinked(wcRows[n]).won = wcRows[n].won
        /\ Unlinked(wcRows[n]).home = wcRows[n].home /\ Unlinked(wcRows[n]).away = wcRows[n].away
    BY <2>1 DEF Unlinked, WcRow
  <2> QED
    BY <2>1, <2>2, RowSides
<1>3. \A n \in Numbers : IF wcRows[n] = None THEN wcRows'[n] = None ELSE wcRows'[n] = Unlinked(wcRows[n])
  BY <1>1
<1>4. WcTypeOK'
  <2>1. wcRows' \in [Numbers -> WcRow \cup {None}]
    BY <1>1, <1>2
  <2>2. wcTies' \in Seq(WcTie) /\ DOMAIN groups' = {}
    BY <1>1
  <2> QED
    BY <2>1, <2>2 DEF WcTypeOK
<1>5. GroupTeamsStand'
  BY <1>0, <1>2, <1>3, CardFacts DEF GroupTeamsStand
<1>6. LinksSound'
  BY <1>2, <1>3 DEF LinksSound
<1>7. SourcesSound' /\ TiesKept
  <2>1. DOMAIN wcTies' = {}
    BY <1>1
  <2> QED
    BY <2>1 DEF SourcesSound, TiesKept
<1>8. ResultsKept
  BY <1>2, <1>3 DEF ResultsKept
<1>9. SidesKept
  BY <1>2, <1>3, CardFacts DEF SidesKept, Side
<1> QED
  BY <1>4, <1>5, <1>6, <1>7, <1>8, <1>9 DEF WriteHolds

\* What a rebuild makes of a label.
LEMMA SourceIs ==
    ASSUME NEW r \in Rows, NEW n \in KoNumbers, NEW side \in Side
    PROVE  LET label == LabelOf(n, side)
               feed == Source(r, label)
           IN /\ label.says = "place" =>
                   feed = IF label.group \in LettersRead(r)
                              THEN [type |-> "place", group |-> label.group, position |-> label.position]
                              ELSE None
              /\ label.says = "third" =>
                   feed = IF LettersRead(r) # {}
                              THEN [type |-> "third", groups |-> label.groups, faces |-> None] ELSE None
              /\ label.says \in {"winner", "loser"} =>
                   /\ label.match \in KoNumbers
                   /\ r[label.match] = None => feed = None
                   /\ r[label.match] # None => \E t \in 1 .. Len(KoRead(r)) :
                         feed = [type |-> label.says, tie |-> t] /\ KoRead(r)[t] = label.match
<1> DEFINE label == LabelOf(n, side)
           read == {m \in Numbers : r[m] # None}
           t == TieOfNumber(read, label.match)
<1>1. label.says = "place" =>
        Source(r, label) = IF label.group \in LettersRead(r)
                             THEN [type |-> "place", group |-> label.group, position |-> label.position]
                             ELSE None
  BY DEF Source
<1>2. label.says = "third" =>
        Source(r, label) = IF LettersRead(r) # {}
                             THEN [type |-> "third", groups |-> label.groups, faces |-> None] ELSE None
  BY DEF Source
<1>3. label.says \in {"winner", "loser"} =>
        Source(r, label) = IF t # None THEN [type |-> label.says, tie |-> t] ELSE None
  BY DEF Source
<1>4. label.says \in {"winner", "loser"} => label.match \in KoNumbers
  BY LabelKinds
<1>5. ASSUME label.match \in KoNumbers
      PROVE  /\ r[label.match] # None => t \in 1 .. Len(KoRead(r)) /\ KoRead(r)[t] = label.match /\ t # None
             /\ r[label.match] = None => t = None
  BY <1>5, TieOfNumberIs
<1> HIDE DEF label, t
<1> QED
  BY <1>1, <1>2, <1>3, <1>4, <1>5 DEF label, t

\* The sources a rebuild gives a tie.
FedBy(r, n, side) ==
    IF side = "home" THEN FeedersWrite(r, n).homeSource ELSE FeedersWrite(r, n).awaySource

LEMMA FedByIs ==
    ASSUME NEW r, NEW n, NEW side \in Side
    PROVE  FedBy(r, n, side) = Faces(Source(r, LabelOf(n, side)), Source(r, LabelOf(n, OtherSide(side))))
BY DEF FedBy, FeedersWrite, Side, LabelOf, OtherSide

LEMMA FedBySource ==
    ASSUME NEW r \in Rows, NEW n \in KoNumbers, NEW side \in Side
    PROVE  LET feed == Source(r, LabelOf(n, side))
               other == Source(r, LabelOf(n, OtherSide(side)))
               fed == FedBy(r, n, side)
           IN /\ feed = None => fed = None
              /\ LabelOf(n, side).says # "third" => fed = feed
              /\ (LabelOf(n, side).says = "third" /\ feed # None) =>
                   /\ fed.type = "third" /\ fed.groups = LabelOf(n, side).groups
                   /\ \/ fed = [type |-> "third", groups |-> LabelOf(n, side).groups, faces |-> None]
                      \/ /\ other # None /\ other.type = "place"
                         /\ fed = [type |-> "third", groups |-> LabelOf(n, side).groups, faces |-> other.group]
                   /\ (other # None /\ other.type = "place" /\ other.position = 1) =>
                        fed.faces = other.group
<1> DEFINE label == LabelOf(n, side)
           feed == Source(r, label)
           other == Source(r, LabelOf(n, OtherSide(side)))
           fed == FedBy(r, n, side)
<1>1. fed = Faces(feed, other)
  BY FedByIs
<1>2. label.says = "third" => feed = IF LettersRead(r) # {}
                              THEN [type |-> "third", groups |-> label.groups, faces |-> None] ELSE None
  BY SourceIs
<1>3. (label.says # "third" /\ feed # None) => feed.type # "third"
  <2>1. CASE label.says = "place"
    <3>1. feed = IF label.group \in LettersRead(r)
                     THEN [type |-> "place", group |-> label.group, position |-> label.position] ELSE None
      BY <2>1, SourceIs
    <3> QED
      BY <3>1
  <2>2. CASE label.says \in {"winner", "loser"}
    <3>1. feed # None => \E t : feed = [type |-> label.says, tie |-> t]
      BY <2>2, SourceIs
    <3> QED
      BY <2>2, <3>1
  <2> QED
    BY <2>1, <2>2, LabelKinds
<1> HIDE DEF feed, other, label, fed
<1>4. feed = None => fed = None
  BY <1>1 DEF Faces
<1>5. label.says # "third" => fed = feed
  BY <1>1, <1>3 DEF Faces
<1>6. ASSUME label.says = "third", feed # None
      PROVE  /\ fed.type = "third" /\ fed.groups = label.groups
             /\ \/ fed = [type |-> "third", groups |-> label.groups, faces |-> None]
                \/ /\ other # None /\ other.type = "place"
                   /\ fed = [type |-> "third", groups |-> label.groups, faces |-> other.group]
             /\ (other # None /\ other.type = "place" /\ other.position = 1) => fed.faces = other.group
  <2>1. feed = [type |-> "third", groups |-> label.groups, faces |-> None]
    BY <1>2, <1>6
  <2>2. CASE other # None /\ other.type = "place" /\ other.position = 1
    <3>1. fed = [feed EXCEPT !.faces = other.group]
      BY <1>1, <1>6, <2>1, <2>2 DEF Faces
    <3>2. fed = [type |-> "third", groups |-> label.groups, faces |-> other.group]
      BY <2>1, <3>1
    <3> QED
      BY <2>2, <3>2
  <2>3. CASE ~(other # None /\ other.type = "place" /\ other.position = 1)
    <3>1. fed = feed
      BY <1>1, <2>3 DEF Faces
    <3> QED
      BY <2>1, <2>3, <3>1
  <2> QED
    BY <2>2, <2>3
<1> QED
  BY <1>4, <1>5, <1>6 DEF feed, other, label, fed

LEMMA FedBySound ==
    ASSUME NEW r \in Rows, NEW n \in KoNumbers, NEW side \in Side,
           NEW tieRows, DOMAIN tieRows = 1 .. Len(KoRead(r)), \A t \in DOMAIN tieRows : tieRows[t].of = KoRead(r)[t]
    PROVE  LET fed == FedBy(r, n, side)
           IN /\ fed \in Sources \cup {None}
              /\ fed # None => Matches(LabelOf(n, side), fed, tieRows)
<1> DEFINE label == LabelOf(n, side)
           feed == Source(r, label)
           other == Source(r, LabelOf(n, OtherSide(side)))
           fed == FedBy(r, n, side)
           some == (SUBSET Letters) \ {{}}
<1>0. LettersRead(r) \subseteq Letters
  BY LettersFacts
<1>1. CASE feed = None
  BY <1>1, FedBySource
<1>2. CASE feed # None /\ label.says = "place"
  <2>1. label.group \in Letters /\ label.position \in 1 .. 4
    BY <1>2, LabelKinds
  <2>2. fed = [type |-> "place", group |-> label.group, position |-> label.position]
    BY <1>2, SourceIs, FedBySource
  <2> HIDE DEF fed, label
  <2>3. fed \in Sources
    BY <2>1, <2>2 DEF Sources
  <2>4. Matches(label, fed, tieRows)
    BY <1>2, <2>2 DEF Matches
  <2> QED
    BY <2>3, <2>4 DEF fed, label
<1>3. CASE feed # None /\ label.says \in {"winner", "loser"}
  <2>1. PICK t \in 1 .. Len(KoRead(r)) :
           feed = [type |-> label.says, tie |-> t] /\ KoRead(r)[t] = label.match
    BY <1>3, SourceIs
  <2>2. fed = [type |-> label.says, tie |-> t]
    BY <1>3, <2>1, FedBySource
  <2> HIDE DEF fed, label
  <2>3. t \in Nat
    BY <2>1, KoReadIs
  <2>4. fed \in Sources
    BY <1>3, <2>2, <2>3 DEF Sources
  <2>5. Matches(label, fed, tieRows)
    BY <1>3, <2>1, <2>2 DEF Matches
  <2> QED
    BY <2>4, <2>5 DEF fed, label
<1>4. CASE feed # None /\ label.says = "third"
  <2>1. label.groups \in some
    BY <1>4, LabelKinds
  <2>2. \E f : fed = [type |-> "third", groups |-> label.groups, faces |-> f] /\ f \in Letters \cup {None}
    <3>1. CASE fed = [type |-> "third", groups |-> label.groups, faces |-> None]
      BY <3>1
    <3>2. CASE /\ other # None /\ other.type = "place"
               /\ fed = [type |-> "third", groups |-> label.groups, faces |-> other.group]
      <4> DEFINE back == LabelOf(n, OtherSide(side))
      <4>0. OtherSide(side) \in Side
        BY DEF Side, OtherSide
      <4>1. CASE back.says = "place"
        <5>1. other = IF back.group \in LettersRead(r)
                        THEN [type |-> "place", group |-> back.group, position |-> back.position] ELSE None
          BY <4>0, <4>1, SourceIs
        <5>2. other.group \in LettersRead(r)
          BY <3>2, <5>1
        <5> QED
          BY <1>0, <3>2, <5>2
      <4>2. CASE back.says = "third"
        <5>1. other = IF LettersRead(r) # {}
                        THEN [type |-> "third", groups |-> back.groups, faces |-> None] ELSE None
          BY <4>0, <4>2, SourceIs
        <5> QED
          BY <3>2, <5>1
      <4>3. CASE back.says \in {"winner", "loser"}
        <5>1. \E t : other = [type |-> back.says, tie |-> t]
          BY <3>2, <4>0, <4>3, SourceIs
        <5> QED
          BY <3>2, <4>3, <5>1
      <4> QED
        BY <4>0, <4>1, <4>2, <4>3, LabelKinds
    <3> QED
      BY <1>4, <3>1, <3>2, FedBySource
  <2> HIDE DEF fed, label, some
  <2>3. PICK f \in Letters \cup {None} : fed = [type |-> "third", groups |-> label.groups, faces |-> f]
    BY <2>2
  <2>4. fed \in [type : {"third"}, groups : some, faces : Letters \cup {None}]
    BY <2>1, <2>3
  <2>5. fed \in Sources
    BY <2>4 DEF Sources, some
  <2>6. Matches(label, fed, tieRows)
    BY <1>4, <2>3 DEF Matches
  <2> QED
    BY <2>5, <2>6 DEF fed, label
<1> QED
  BY <1>1, <1>2, <1>3, <1>4, LabelKinds

\* A rebuild that read every match feeds every tie.
LEMMA FedByAll ==
    ASSUME NEW r \in Rows, \A k \in Numbers : r[k] # None, NEW n \in KoNumbers, NEW side \in Side
    PROVE  LET fed == FedBy(r, n, side)
           IN fed # None /\ (LabelOf(n, side).says = "third" => fed.faces # None)
<1> DEFINE label == LabelOf(n, side)
           back == LabelOf(n, OtherSide(side))
           feed == Source(r, label)
           other == Source(r, back)
           fed == FedBy(r, n, side)
<1>0. \A l \in Letters : l \in LettersRead(r)
  BY CardFacts DEF LettersRead, Letters
<1>1. CASE label.says = "place"
  <2>1. feed = [type |-> "place", group |-> label.group, position |-> label.position]
    BY <1>0, <1>1, LabelKinds, SourceIs
  <2>2. feed \in Sources
    BY <1>1, <2>1, LabelKinds DEF Sources
  <2>3. feed # None
    BY <2>2, WorldCupAssumption
  <2>4. fed = feed
    BY <1>1, FedBySource
  <2> QED
    BY <1>1, <2>3, <2>4
<1>2. CASE label.says \in {"winner", "loser"}
  <2>1. label.match \in KoNumbers /\ r[label.match] # None
    BY <1>2, LabelKinds, CardFacts
  <2>2. PICK t \in 1 .. Len(KoRead(r)) : feed = [type |-> label.says, tie |-> t]
    BY <1>2, <2>1, SourceIs
  <2>3. t \in Nat
    BY <2>2, KoReadIs
  <2> HIDE DEF label
  <2>4. feed \in Sources
    BY <1>2, <2>2, <2>3 DEF Sources
  <2>5. feed # None
    BY <2>4, WorldCupAssumption
  <2> USE DEF label
  <2>6. fed = feed
    BY <1>2, FedBySource
  <2> QED
    BY <1>2, <2>5, <2>6
<1>3. CASE label.says = "third"
  <2>1. LettersRead(r) # {}
    BY <1>0, <1>3, LabelKinds
  <2>2. feed = [type |-> "third", groups |-> label.groups, faces |-> None]
    BY <1>3, <2>1, SourceIs
  <2>3. feed # None
    <3> DEFINE some == (SUBSET Letters) \ {{}}
    <3>1. label.groups \in some
      BY <1>3, LabelKinds
    <3> HIDE DEF label, some
    <3>2. feed \in [type : {"third"}, groups : some, faces : Letters \cup {None}]
      BY <2>2, <3>1
    <3>3. feed \in Sources
      BY <3>2 DEF Sources, some
    <3> QED
      BY <3>3, WorldCupAssumption
  <2>4. back.says = "place" /\ back.position = 1
    BY <1>3, WorldCupAssumption DEF LabelOf, OtherSide, Side, FacesWinner
  <2>5. OtherSide(side) \in Side
    BY DEF OtherSide, Side
  <2>6. back.group \in Letters
    BY <2>4, <2>5, LabelKinds
  <2>7. other = [type |-> "place", group |-> back.group, position |-> back.position]
    BY <1>0, <2>4, <2>5, <2>6, SourceIs
  <2>8. other # None
    <3>1. other \in Sources
      BY <2>4, <2>6, <2>7 DEF Sources
    <3> QED
      BY <3>1, WorldCupAssumption
  <2>9. other.type = "place" /\ other.position = 1 /\ other.group = back.group
    BY <2>4, <2>7
  <2>10. /\ fed = [type |-> "third", groups |-> label.groups, faces |-> None] \/
            fed = [type |-> "third", groups |-> label.groups, faces |-> other.group]
         /\ fed.faces = other.group
    BY <1>3, <2>3, <2>8, <2>9, FedBySource
  <2>11. fed.faces # None
    BY <2>6, <2>9, <2>10, CardFacts
  <2>12. fed # None
    <3> DEFINE some == (SUBSET Letters) \ {{}}
    <3>1. label.groups \in some
      BY <1>3, LabelKinds
    <3> HIDE DEF label, some, fed, other
    <3>2. fed \in [type : {"third"}, groups : some, faces : Letters \cup {None}]
      BY <2>6, <2>9, <2>10, <3>1
    <3>3. fed \in Sources
      BY <3>2 DEF Sources, some
    <3> QED
      BY <3>3, WorldCupAssumption
  <2> QED
    BY <2>11, <2>12
<1> QED
  BY <1>1, <1>2, <1>3, LabelKinds

\* The ties are the same, each the tie of the same match.
TiesHeld ==
    /\ DOMAIN wcTies' = DOMAIN wcTies /\ Len(wcTies') = Len(wcTies)
    /\ \A t \in DOMAIN wcTies : wcTies'[t].of = wcTies[t].of

LEMMA FrameKeeps ==
    ASSUME WcFacts, NEW r, StillThere(r), NEW w, w.to \in {"stage", "round"}, WritesRow(w)
    PROVE  /\ WriteHolds /\ StillThere(r)' /\ TiesHeld /\ Standing(w)'
           /\ \A v : Standing(v) => Standing(v)'
<1>1. wcRows' = wcRows /\ groups' = groups /\ wcTies' = wcTies
  BY FrameEffects
<1>2. WriteHolds
  BY <1>1, NothingKeeps DEF WcFacts, WcTypeOK
<1>3. StillThere(r)' /\ TiesHeld
  BY <1>1 DEF StillThere, TiesHeld
<1>4. Standing(w)'
  BY DEF Standing
<1>5. \A v : Standing(v) => Standing(v)'
  BY <1>1 DEF Standing
<1> QED
  BY <1>2, <1>3, <1>4, <1>5

LEMMA GroupKeeps ==
    ASSUME WcFacts, NEW r, StillThere(r), NEW l \in Letters, WritesRow(WcGroup(l))
    PROVE  /\ WriteHolds /\ StillThere(r)' /\ TiesHeld /\ Standing(WcGroup(l))'
           /\ \A v : (v.to # "club" /\ Standing(v)) => Standing(v)'
<1> DEFINE w == WcGroup(l)
<1>0. w.to = "group" /\ w.group = l /\ WritesRow(w)
  BY DEF WcGroup
<1> HIDE DEF w
<1>1. /\ wcRows' = wcRows /\ wcTies' = wcTies
      /\ groups' = [x \in DOMAIN groups \cup {l} |-> IF x = l THEN {} ELSE groups[x]]
  BY <1>0, FrameEffects
<1>2. WriteHolds
  <2>1. DOMAIN groups \subseteq Letters /\ \A x \in DOMAIN groups : groups[x] \subseteq TeamsOf(x)
    BY DEF WcFacts, WcTypeOK
  <2>2. DOMAIN groups' \subseteq Letters /\ \A x \in DOMAIN groups' : groups'[x] \subseteq TeamsOf(x)
    BY <1>1, <2>1
  <2> QED
    BY <1>1, <2>2, NothingKeeps
<1>3. StillThere(r)' /\ TiesHeld
  BY <1>1 DEF StillThere, TiesHeld
<1>4. Standing(w)'
  BY <1>0, <1>1 DEF Standing
<1>5. ASSUME NEW v, v.to # "club", Standing(v) PROVE Standing(v)'
  BY <1>1, <1>5 DEF Standing
<1> QED
  BY <1>2, <1>3, <1>4, <1>5 DEF w

LEMMA ClubKeeps ==
    ASSUME WcFacts, NEW r, StillThere(r), NEW l \in DOMAIN groups, NEW c \in TeamsOf(l), WritesRow(WcClub(l, c))
    PROVE  /\ WriteHolds /\ StillThere(r)' /\ TiesHeld /\ Standing(WcClub(l, c))'
           /\ \A v : Standing(v) => Standing(v)'
<1> DEFINE w == WcClub(l, c)
<1>0. w.to = "club" /\ w.group = l /\ w.club = c /\ WritesRow(w)
  BY DEF WcClub
<1> HIDE DEF w
<1>1. wcRows' = wcRows /\ wcTies' = wcTies /\ groups' = [groups EXCEPT ![l] = @ \cup {c}]
  BY <1>0, FrameEffects
<1>2. /\ DOMAIN groups' = DOMAIN groups
      /\ \A x \in DOMAIN groups : groups'[x] = groups[x] \cup (IF x = l THEN {c} ELSE {})
  BY <1>1
<1>3. WriteHolds
  <2>1. DOMAIN groups \subseteq Letters /\ \A x \in DOMAIN groups : groups[x] \subseteq TeamsOf(x)
    BY DEF WcFacts, WcTypeOK
  <2>2. DOMAIN groups' \subseteq Letters /\ \A x \in DOMAIN groups' : groups'[x] \subseteq TeamsOf(x)
    BY <1>2, <2>1
  <2> QED
    BY <1>1, <2>2, NothingKeeps
<1>4. StillThere(r)' /\ TiesHeld
  BY <1>1 DEF StillThere, TiesHeld
<1>5. Standing(w)'
  BY <1>0, <1>2 DEF Standing
<1>6. ASSUME NEW v, Standing(v) PROVE Standing(v)'
  BY <1>1, <1>2, <1>6 DEF Standing
<1> QED
  BY <1>3, <1>4, <1>5, <1>6 DEF w

\* A link of a match, other than to its tie.
LEMMA MatchdayKeeps ==
    ASSUME WcFacts, NEW r \in Rows, StillThere(r), NEW n \in GroupNumbers, r[n] # None, PlaceOf(r, n) \in Nat \ {0},
           WritesRow(WcMatchday(r, n))
    PROVE  /\ WriteHolds /\ StillThere(r)' /\ TiesHeld /\ Standing(WcMatchday(r, n))'
           /\ \A v : (/\ v.to \in {"matchday", "leg"} => v.at \in Numbers
                      /\ (v.to = "matchday" /\ v.at = n) => v = WcMatchday(r, n)
                      /\ Standing(v)) => Standing(v)'
<1> DEFINE w == WcMatchday(r, n)
           md == Matchday(PlaceOf(r, n))
<1>0. w.to = "matchday" /\ w.at = n /\ w.group = Card[n].group /\ w.round = md /\ WritesRow(w)
  BY DEF WcMatchday
<1>1. md \in {None} \cup ({"groups"} \X (1 .. 3))
  <2> DEFINE i == PlaceOf(r, n)
  <2> HIDE DEF i
  <2>1. i \in Nat \ {0}
    BY DEF i
  <2>2. i <= 6 => (i - 1) \div 2 + 1 \in 1 .. 3
    BY <2>1
  <2>3. Matchday(i) \in {None} \cup ({"groups"} \X (1 .. 3))
    BY <2>1, <2>2 DEF Matchday
  <2> QED
    BY <2>3 DEF i
<1> HIDE DEF w, md
<1>2. /\ groups' = groups /\ wcTies' = wcTies
      /\ wcRows' = [wcRows EXCEPT ![n].stage = "groups", ![n].group = w.group, ![n].round = md]
  BY <1>0, RowEffects
<1> DEFINE new == [wcRows[n] EXCEPT !.stage = "groups", !.group = w.group, !.round = md]
<1>3. n \in Numbers /\ wcRows[n] # None /\ w.group \in Letters
  BY <1>0, CardFacts DEF StillThere
<1>4. wcRows[n] \in WcRow /\ wcRows \in [Numbers -> WcRow \cup {None}]
  BY <1>3 DEF WcFacts, WcTypeOK
<1>5. wcRows' = [wcRows EXCEPT ![n] = new]
  BY <1>2, <1>4
<1>6. /\ new \in WcRow /\ new.group = w.group /\ new.round = md /\ new.tie = wcRows[n].tie
      /\ new.home = wcRows[n].home /\ new.away = wcRows[n].away /\ new.won = wcRows[n].won
  BY <1>1, <1>3, <1>4 DEF WcRow
<1> HIDE DEF new
<1>7. new # None /\ new["home"] = new.home /\ new["away"] = new.away
      /\ wcRows[n]["home"] = wcRows[n].home /\ wcRows[n]["away"] = wcRows[n].away
  BY <1>4, <1>6, RowSides
<1>8. wcRows'[n] = new /\ \A k \in Numbers : k # n => wcRows'[k] = wcRows[k]
  BY <1>3, <1>4, <1>5
<1>9. WriteHolds
  <2>0. WcTypeOK /\ GroupTeamsStand /\ LinksSound /\ SourcesSound
    BY DEF WcFacts
  <2>1. WcTypeOK'
    BY <2>0, <1>2, <1>5, <1>6 DEF WcTypeOK
  <2>2. GroupTeamsStand'
    BY <2>0, <1>3, <1>6, <1>8, CardFacts DEF GroupTeamsStand
  <2>3. LinksSound'
    BY <2>0, <1>2, <1>3, <1>6, <1>8 DEF LinksSound
  <2>4. SourcesSound' /\ TiesKept
    BY <2>0, <1>2 DEF SourcesSound, Matches, TiesKept
  <2>5. ResultsKept
    BY <1>3, <1>6, <1>7, <1>8 DEF ResultsKept
  <2>6. SidesKept
    BY <1>3, <1>6, <1>7, <1>8, CardFacts DEF SidesKept, Side
  <2> QED
    BY <2>1, <2>2, <2>3, <2>4, <2>5, <2>6 DEF WriteHolds
<1>10. StillThere(r)' /\ TiesHeld
  BY <1>2, <1>3, <1>7, <1>8 DEF StillThere, TiesHeld
<1>11. Standing(w)'
  BY <1>0, <1>6, <1>8 DEF Standing
<1>12. ASSUME NEW v, v.to \in {"matchday", "leg"} => v.at \in Numbers,
              (v.to = "matchday" /\ v.at = n) => v = w, Standing(v)
       PROVE  Standing(v)'
  <2>1. CASE v.to = "matchday" /\ v.at = n
    BY <1>11, <1>12, <2>1
  <2>2. CASE v.to = "leg" /\ v.at = n
    BY <1>6, <1>8, <1>12, <2>2 DEF Standing
  <2>3. CASE v.to \in {"matchday", "leg"} /\ v.at # n
    BY <1>8, <1>12, <2>3 DEF Standing
  <2>4. CASE v.to \notin {"matchday", "leg"}
    BY <1>2, <1>12, <2>4 DEF Standing
  <2> QED
    BY <2>1, <2>2, <2>3, <2>4
<1> QED
  BY <1>9, <1>10, <1>11, <1>12 DEF w

LEMMA TieKeeps ==
    ASSUME WcFacts, NEW r \in Rows, StillThere(r), NEW n \in KoNumbers, r[n] # None,
           Head(seeding) = TieCreated(r, n), WritesRow(TieCreated(r, n))
    PROVE  /\ WriteHolds /\ StillThere(r)'
           /\ Len(wcTies') = Len(wcTies) + 1 /\ wcTies'[Len(wcTies) + 1].of = n
           /\ \A t \in DOMAIN wcTies : wcTies'[t].of = wcTies[t].of
           /\ DOMAIN wcTies = 1 .. Len(wcTies) /\ Len(wcTies) \in Nat
           /\ Standing(TieCreated(r, n))'
           /\ \A v : (v.to # "feeders" /\ Standing(v)) => Standing(v)'
<1> DEFINE w == TieCreated(r, n)
           tie == [of |-> n, home |-> r[n].home, away |-> r[n].away,
                   homeSource |-> None, awaySource |-> None]
           last == Len(wcTies) + 1
<1>0. /\ w.to = "tie" /\ w.at = n /\ w.home = r[n].home /\ w.away = r[n].away
      /\ w["home"] = w.home /\ w["away"] = w.away /\ WritesRow(w) /\ Head(seeding) = w
  BY DEF TieCreated
<1> HIDE DEF w
<1>1. groups' = groups /\ wcRows' = wcRows /\ wcTies' = Append(wcTies, tie)
  <2>1. /\ groups' = groups /\ wcRows' = wcRows
        /\ wcTies' = Append(wcTies, [of |-> w.at, home |-> w.home, away |-> w.away,
                                     homeSource |-> None, awaySource |-> None])
    BY <1>0, TieEffects
  <2>2. [of |-> w.at, home |-> w.home, away |-> w.away, homeSource |-> None, awaySource |-> None] = tie
    BY <1>0
  <2> QED
    BY <2>1, <2>2
<1>2. r[n] \in WcRow /\ n \in Numbers
  BY CardFacts DEF Rows
<1>3. /\ tie \in WcTie /\ tie.of = n /\ tie.homeSource = None /\ tie.awaySource = None
      /\ tie["home"] = w["home"] /\ tie["away"] = w["away"]
  BY <1>0, <1>2 DEF WcTie, WcRow
<1> HIDE DEF tie
<1>4. WcTypeOK /\ GroupTeamsStand /\ LinksSound /\ SourcesSound /\ wcTies \in Seq(WcTie)
  BY DEF WcFacts, WcTypeOK
<1>5. /\ wcTies' \in Seq(WcTie) /\ Len(wcTies') = last /\ wcTies'[last] = tie
      /\ \A t \in DOMAIN wcTies : t \in DOMAIN wcTies' /\ wcTies'[t] = wcTies[t]
      /\ \A t \in DOMAIN wcTies' : t \in DOMAIN wcTies \/ t = last
      /\ DOMAIN wcTies = 1 .. Len(wcTies) /\ Len(wcTies) \in Nat
  BY <1>1, <1>3, <1>4
<1> HIDE DEF last
<1>6. WcTypeOK' /\ GroupTeamsStand'
  BY <1>1, <1>4, <1>5 DEF WcTypeOK, GroupTeamsStand
<1>7. LinksSound'
  BY <1>1, <1>4, <1>5 DEF LinksSound
<1>8. SourcesSound'
  <2> SUFFICES ASSUME NEW t \in DOMAIN wcTies', NEW side \in Side,
                      SourceOf(wcTies'[t], side) # None
               PROVE  Matches(LabelOf(wcTies'[t].of, side), SourceOf(wcTies'[t], side), wcTies')
    BY DEF SourcesSound, Matches
  <2>1. t # last
    BY <1>3, <1>5 DEF SourceOf
  <2>2. t \in DOMAIN wcTies /\ wcTies'[t] = wcTies[t]
    BY <1>5, <2>1
  <2>3. Matches(LabelOf(wcTies[t].of, side), SourceOf(wcTies[t], side), wcTies)
    BY <1>4, <2>2 DEF SourcesSound
  <2> QED
    BY <1>5, <2>2, <2>3 DEF Matches
<1>9. ResultsKept /\ SidesKept
  BY <1>1 DEF ResultsKept, SidesKept
<1>10. TiesKept
  <2>1. \A t \in DOMAIN wcTies' : \/ t \in DOMAIN wcTies /\ wcTies'[t] = wcTies[t]
                                  \/ wcTies'[t] = tie
    BY <1>5
  <2> QED
    BY <1>0, <1>3, <2>1 DEF TiesKept, Side
<1>11. WriteHolds
  BY <1>6, <1>7, <1>8, <1>9, <1>10 DEF WriteHolds
<1>12. StillThere(r)'
  BY <1>1 DEF StillThere
<1>13. Standing(w)'
  BY <1>0 DEF Standing
<1>14. ASSUME NEW v, v.to # "feeders", Standing(v) PROVE Standing(v)'
  BY <1>1, <1>14 DEF Standing
<1> QED
  BY <1>3, <1>5, <1>11, <1>12, <1>13, <1>14 DEF w, last

LEMMA FeedersKeeps ==
    ASSUME WcFacts, NEW r \in Rows, StillThere(r), NEW n \in KoNumbers, WritesRow(FeedersWrite(r, n)),
           Len(wcTies) = Len(KoRead(r)), \A t \in DOMAIN wcTies : wcTies[t].of = KoRead(r)[t]
    PROVE  /\ WriteHolds /\ StillThere(r)' /\ TiesHeld /\ Standing(FeedersWrite(r, n))'
           /\ \A v : ((v.to = "feeders" /\ v.at = n) => v = FeedersWrite(r, n)) /\ Standing(v) => Standing(v)'
<1> DEFINE w == FeedersWrite(r, n)
           fedHome == FedBy(r, n, "home")
           fedAway == FedBy(r, n, "away")
           fedTie(t) == [wcTies[t] EXCEPT !.homeSource = fedHome, !.awaySource = fedAway]
<1>0. /\ w.to = "feeders" /\ w.at = n /\ w.homeSource = fedHome /\ w.awaySource = fedAway /\ WritesRow(w)
  BY DEF FeedersWrite, FedBy
<1>1. WcTypeOK /\ GroupTeamsStand /\ LinksSound /\ SourcesSound /\ wcTies \in Seq(WcTie)
      /\ DOMAIN wcTies = 1 .. Len(KoRead(r))
  BY DEF WcFacts, WcTypeOK
<1>2. /\ fedHome \in Sources \cup {None} /\ (fedHome # None => Matches(LabelOf(n, "home"), fedHome, wcTies))
      /\ fedAway \in Sources \cup {None} /\ (fedAway # None => Matches(LabelOf(n, "away"), fedAway, wcTies))
  BY <1>1, FedBySound DEF Side
<1> HIDE DEF w, fedHome, fedAway
<1>3. groups' = groups /\ wcRows' = wcRows
      /\ wcTies' = [t \in DOMAIN wcTies |-> IF wcTies[t].of = n THEN fedTie(t) ELSE wcTies[t]]
  <2>1. /\ groups' = groups /\ wcRows' = wcRows
        /\ wcTies' = [t \in DOMAIN wcTies |->
                         IF wcTies[t].of = w.at
                           THEN [wcTies[t] EXCEPT !.homeSource = w.homeSource,
                                                  !.awaySource = w.awaySource]
                           ELSE wcTies[t]]
    BY <1>0, TieEffects
  <2>2. w.at = n /\ w.homeSource = fedHome /\ w.awaySource = fedAway
    BY <1>0
  <2>3. wcTies' = [t \in DOMAIN wcTies |-> IF wcTies[t].of = n THEN fedTie(t) ELSE wcTies[t]]
    BY <2>1, <2>2
  <2> QED
    BY <2>1, <2>3
<1>4. ASSUME NEW t \in DOMAIN wcTies
      PROVE  /\ fedTie(t) \in WcTie /\ fedTie(t).of = wcTies[t].of
             /\ fedTie(t)["home"] = wcTies[t]["home"] /\ fedTie(t)["away"] = wcTies[t]["away"]
             /\ fedTie(t).homeSource = fedHome /\ fedTie(t).awaySource = fedAway
  <2>1. wcTies[t] \in WcTie
    BY <1>1
  <2> QED
    BY <1>2, <2>1 DEF WcTie
<1> HIDE DEF fedTie
<1>5. ASSUME NEW t \in DOMAIN wcTies
      PROVE  /\ wcTies'[t] \in WcTie /\ wcTies'[t].of = wcTies[t].of
             /\ wcTies'[t]["home"] = wcTies[t]["home"] /\ wcTies'[t]["away"] = wcTies[t]["away"]
             /\ wcTies[t].of = n => wcTies'[t].homeSource = fedHome /\ wcTies'[t].awaySource = fedAway
             /\ wcTies[t].of # n => wcTies'[t] = wcTies[t]
  BY <1>1, <1>3, <1>4
<1>6. DOMAIN wcTies' = DOMAIN wcTies
  BY <1>3
<1>7. wcTies' \in Seq(WcTie) /\ Len(wcTies') = Len(wcTies)
  <2> DEFINE size == Len(wcTies)
             f == wcTies'
  <2>1. size \in Nat /\ DOMAIN wcTies = 1 .. size
    BY <1>1
  <2>2. f = [t \in 1 .. size |-> f[t]]
    <3>1. f = [t \in DOMAIN f |-> f[t]]
      BY <1>3
    <3> QED
      BY <1>6, <2>1, <3>1
  <2>3. \A t \in 1 .. size : f[t] \in WcTie
    BY <1>5, <2>1
  <2> HIDE DEF f, size
  <2>4. f \in [1 .. size -> WcTie]
    BY <2>2, <2>3
  <2>5. f \in Seq(WcTie) /\ Len(f) = size
    BY <2>1, <2>4
  <2> QED
    BY <2>5 DEF f, size
<1>8. WcTypeOK' /\ GroupTeamsStand'
  BY <1>1, <1>3, <1>7 DEF WcTypeOK, GroupTeamsStand
<1>9. LinksSound'
  BY <1>1, <1>3, <1>5, <1>6 DEF LinksSound
<1>10. SourcesSound'
  <2> SUFFICES ASSUME NEW t \in DOMAIN wcTies, NEW side \in Side,
                      SourceOf(wcTies'[t], side) # None
               PROVE  Matches(LabelOf(wcTies'[t].of, side), SourceOf(wcTies'[t], side), wcTies')
    BY <1>6 DEF SourcesSound, Matches
  <2>1. Matches(LabelOf(wcTies[t].of, side), SourceOf(wcTies'[t], side), wcTies)
    <3>1. CASE wcTies[t].of = n
      BY <1>2, <1>5, <3>1 DEF SourceOf, Side
    <3>2. CASE wcTies[t].of # n
      <4>1. wcTies'[t] = wcTies[t]
        BY <1>5, <3>2
      <4> QED
        BY <1>1, <4>1 DEF SourcesSound
    <3> QED
      BY <3>1, <3>2
  <2> QED
    BY <1>5, <1>6, <2>1 DEF Matches
<1>11. ResultsKept /\ SidesKept
  BY <1>3 DEF ResultsKept, SidesKept
<1>12. TiesKept
  BY <1>5, <1>6 DEF TiesKept, Side
<1>13. WriteHolds
  BY <1>8, <1>9, <1>10, <1>11, <1>12 DEF WriteHolds
<1>14. StillThere(r)' /\ TiesHeld
  BY <1>3, <1>5, <1>6, <1>7 DEF StillThere, TiesHeld
<1>15. Standing(w)'
  BY <1>0, <1>5, <1>6 DEF Standing
<1>16. ASSUME NEW v, (v.to = "feeders" /\ v.at = n) => v = w, Standing(v) PROVE Standing(v)'
  <2>1. CASE v.to = "feeders" /\ v.at = n
    BY <1>15, <1>16, <2>1
  <2>2. CASE v.to = "feeders" /\ v.at # n
    BY <1>5, <1>6, <1>16, <2>2 DEF Standing
  <2>3. CASE v.to # "feeders"
    BY <1>3, <1>16, <2>3 DEF Standing
  <2> QED
    BY <2>1, <2>2, <2>3
<1> QED
  BY <1>13, <1>14, <1>15, <1>16 DEF w

LEMMA LegKeeps ==
    ASSUME WcFacts, NEW r \in Rows, StillThere(r), NEW n \in KoNumbers, r[n] # None, WritesRow(WcLeg(n)),
           \E t \in DOMAIN wcTies : wcTies[t].of = n
    PROVE  /\ WriteHolds /\ StillThere(r)' /\ TiesHeld /\ Standing(WcLeg(n))'
           /\ \A v : (/\ v.to = "leg" => v.at \in Numbers
                      /\ v.to = "matchday" => v.at \in GroupNumbers
                      /\ Standing(v)) => Standing(v)'
<1> DEFINE w == WcLeg(n)
           tie == CHOOSE t \in DOMAIN wcTies : wcTies[t].of = n
           round == <<"knockout", Card[n].phase>>
<1>0. w.to = "leg" /\ w.at = n /\ WritesRow(w)
  BY DEF WcLeg
<1>1. tie \in DOMAIN wcTies /\ wcTies[tie].of = n
  OBVIOUS
<1>2. round \in {None} \cup ({"groups"} \X (1 .. 3)) \cup ({"knockout"} \X ToSet(KoOrder))
  BY WorldCupAssumption
<1> HIDE DEF w
<1>3. /\ groups' = groups /\ wcTies' = wcTies
      /\ wcRows' = [wcRows EXCEPT ![n].stage = "knockout", ![n].round = round, ![n].tie = tie]
  <2>1. /\ groups' = groups /\ wcTies' = wcTies
        /\ wcRows' = [wcRows EXCEPT ![w.at].stage = "knockout",
             ![w.at].round = <<"knockout", Card[w.at].phase>>,
             ![w.at].tie = CHOOSE t \in DOMAIN wcTies : wcTies[t].of = w.at]
    BY <1>0, TieEffects
  <2>2. w.at = n
    BY <1>0
  <2> QED
    BY <2>1, <2>2
<1> HIDE DEF tie, round
<1> DEFINE new == [wcRows[n] EXCEPT !.stage = "knockout", !.round = round, !.tie = tie]
<1>4. n \in Numbers /\ n \notin GroupNumbers /\ wcRows[n] # None
  BY CardFacts DEF StillThere
<1>5. WcTypeOK /\ GroupTeamsStand /\ LinksSound /\ SourcesSound
  BY DEF WcFacts
<1>6. /\ wcRows[n] \in WcRow /\ wcRows \in [Numbers -> WcRow \cup {None}]
      /\ tie \in Nat /\ tie # None
  BY <1>1, <1>4, <1>5, WorldCupAssumption DEF WcTypeOK
<1>7. wcRows' = [wcRows EXCEPT ![n] = new]
  BY <1>3, <1>6
<1>8. /\ new \in WcRow /\ new.tie = tie /\ new.group = wcRows[n].group
      /\ new.home = wcRows[n].home /\ new.away = wcRows[n].away /\ new.won = wcRows[n].won
  BY <1>2, <1>4, <1>6 DEF WcRow
<1> HIDE DEF new
<1>9. new # None /\ new["home"] = new.home /\ new["away"] = new.away
      /\ wcRows[n]["home"] = wcRows[n].home /\ wcRows[n]["away"] = wcRows[n].away
  BY <1>6, <1>8, RowSides
<1>10. wcRows'[n] = new /\ \A k \in Numbers : k # n => wcRows'[k] = wcRows[k]
  BY <1>4, <1>6, <1>7
<1>11. WriteHolds
  <2>1. WcTypeOK'
    BY <1>3, <1>5, <1>7, <1>8 DEF WcTypeOK
  <2>2. GroupTeamsStand'
    BY <1>4, <1>5, <1>10, CardFacts DEF GroupTeamsStand
  <2>3. LinksSound'
    BY <1>1, <1>3, <1>5, <1>8, <1>10 DEF LinksSound
  <2>4. SourcesSound' /\ TiesKept
    BY <1>3, <1>5 DEF SourcesSound, Matches, TiesKept
  <2>5. ResultsKept
    BY <1>4, <1>8, <1>9, <1>10 DEF ResultsKept
  <2>6. SidesKept
    BY <1>4, <1>8, <1>9, <1>10, CardFacts DEF SidesKept, Side
  <2> QED
    BY <2>1, <2>2, <2>3, <2>4, <2>5, <2>6 DEF WriteHolds
<1>12. StillThere(r)' /\ TiesHeld
  BY <1>3, <1>4, <1>9, <1>10 DEF StillThere, TiesHeld
<1>13. Standing(w)'
  BY <1>0, <1>6, <1>8, <1>10 DEF Standing
<1>14. ASSUME NEW v, v.to = "leg" => v.at \in Numbers, v.to = "matchday" => v.at \in GroupNumbers,
              Standing(v)
       PROVE  Standing(v)'
  <2>1. CASE v.to = "leg" /\ v.at = n
    BY <1>6, <1>8, <1>10, <2>1 DEF Standing
  <2>2. CASE v.to = "leg" /\ v.at # n
    BY <1>10, <1>14, <2>2 DEF Standing
  <2>3. CASE v.to = "matchday"
    <3>1. v.at \in Numbers /\ v.at # n
      BY <1>4, <1>14, <2>3, CardFacts
    <3>2. wcRows'[v.at] = wcRows[v.at]
      BY <1>10, <3>1
    <3> QED
      BY <1>14, <2>3, <3>2 DEF Standing
  <2>4. CASE v.to \notin {"matchday", "leg"}
    BY <1>3, <1>14, <2>4 DEF Standing
  <2> QED
    BY <2>1, <2>2, <2>3, <2>4
<1> QED
  BY <1>11, <1>12, <1>13, <1>14 DEF w

LEMMA KindFacts ==
    ASSUME NEW r \in Rows, NEW m \in Nat, NEW i, NEW v, KindAt(r, m, i, v)
    PROVE  /\ v.to \in {"matchday", "leg"} => v.at \in Numbers
           /\ v.to = "matchday" => v.at \in GroupNumbers /\ v = WcMatchday(r, v.at)
           /\ v.to = "feeders" => i > TieBase(r) + Len(KoRead(r)) /\ v = FeedersWrite(r, v.at)
           /\ v.to = "club" => i > m
<1>0. LettersRead(r) \subseteq Letters
  BY LettersFacts
<1>1. CASE v.to \in {"stage", "round"}
  BY <1>1
<1>2. CASE \E l \in LettersRead(r) : v = WcGroup(l)
  BY <1>2 DEF WcGroup
<1>3. CASE \E l \in LettersRead(r) : \E n \in OwnMatches(r, l) : v = WcMatchday(r, n)
  <2> PICK n \in GroupNumbers : v = WcMatchday(r, n)
    BY <1>3 DEF OwnMatches, OfCard
  <2>1. v.to = "matchday" /\ v.at = n
    BY DEF WcMatchday
  <2> QED
    BY <2>1, CardFacts
<1>4. CASE i > m /\ \E l \in LettersRead(r) : \E c \in TeamSet(r, l) : v = WcClub(l, c)
  <2>1. v.to = "club"
    BY <1>4 DEF WcClub
  <2> QED
    BY <1>4, <2>1
<1>5. CASE v = TieCreated(r, KoRead(r)[i - TieBase(r)])
  <2>1. v.to = "tie"
    BY <1>5 DEF TieCreated
  <2> QED
    BY <2>1
<1>6. CASE i > TieBase(r) + Len(KoRead(r)) /\ \E n \in KoSet(r) : v = FeedersWrite(r, n)
  <2> PICK n \in KoSet(r) : v = FeedersWrite(r, n)
    BY <1>6
  <2>1. v.to = "feeders" /\ v.at = n
    BY DEF FeedersWrite
  <2> QED
    BY <1>6, <2>1
<1>7. CASE \E n \in KoSet(r) : v = WcLeg(n)
  <2> PICK n \in KoSet(r) : v = WcLeg(n)
    BY <1>7
  <2>1. v.to = "leg" /\ v.at = n
    BY DEF WcLeg
  <2> QED
    BY <2>1, CardFacts DEF KoSet
<1> QED
  BY <1>1, <1>2, <1>3, <1>4, <1>5, <1>6, <1>7 DEF KindAt

LEMMA OrderHeld ==
    ASSUME NEW r \in Rows, NEW k \in Nat, TieBase(r) \in Nat, Len(KoRead(r)) \in Nat, TiesInOrder(r, k), TiesHeld,
           k + 1 <= TieBase(r) \/ k + 1 > TieBase(r) + Len(KoRead(r))
    PROVE  TiesInOrder(r, k + 1)'
<1> DEFINE base == TieBase(r)
           count == Len(KoRead(r))
<1>1. TiesBy(r, k + 1) = TiesBy(r, k)
  <2> HIDE DEF base, count
  <2>1. /\ TiesBy(r, k) = IF k <= base THEN 0 ELSE IF k <= base + count THEN k - base ELSE count
        /\ TiesBy(r, k + 1) = IF k + 1 <= base THEN 0 ELSE IF k + 1 <= base + count THEN k + 1 - base ELSE count
    BY DEF TiesBy, base, count
  <2>2. base \in Nat /\ count \in Nat /\ (k + 1 <= base \/ k + 1 > base + count)
    BY DEF base, count
  <2> HIDE DEF TiesBy
  <2> QED
    BY <2>1, <2>2
<1> QED
  BY <1>1 DEF TiesInOrder, TiesHeld

\* A write of a rebuild leaves what it should, and what the writes before it left.
Proceeds(r, k) ==
    /\ WriteHolds /\ StillThere(r)' /\ Standing(WritesOf(r)[k + 1])'
    /\ \A i \in 1 .. k : Standing(WritesOf(r)[i])'
    /\ TiesInOrder(r, k + 1)'

LEMMA GroupProceeds ==
    ASSUME WcFacts, NEW r \in Rows, NEW k \in Nat, Underway(r, k), k < Len(WritesOf(r)), CardTeams(r),
           WritesRow(WritesOf(r)[k + 1]), NEW m \in Nat, LaidOut(r, m), k + 1 <= TieBase(r)
    PROVE  Proceeds(r, k)
<1> DEFINE all == WritesOf(r)
           w == all[k + 1]
           base == TieBase(r)
           count == Len(KoRead(r))
<1>1. /\ Len(all) \in Nat /\ base \in Nat /\ count \in Nat /\ m <= base
      /\ StillThere(r) /\ TiesInOrder(r, k) /\ \A i \in 1 .. k : Standing(all[i])
  BY DEF LaidOut, Underway
<1>2. k + 1 \in 1 .. Len(all) /\ \A i \in 1 .. k : i \in 1 .. Len(all) /\ i \in Nat
  BY <1>1
<1>3. KindAt(r, m, k + 1, w) /\ \A i \in 1 .. k : KindAt(r, m, i, all[i])
  BY <1>2, WriteKinds
<1>4. LettersRead(r) \subseteq Letters
  BY LettersFacts
<1>5. ASSUME WriteHolds, StillThere(r)', TiesHeld, Standing(w)', \A i \in 1 .. k : Standing(all[i])'
      PROVE  Proceeds(r, k)
  BY <1>1, <1>5, OrderHeld DEF Proceeds
<1> HIDE DEF all, w, base, count
<1>w. WritesRow(w)
  BY DEF w, all
<1>k. \A i \in 1 .. k : LET v == all[i]
          IN /\ v.to \in {"matchday", "leg"} => v.at \in Numbers
             /\ v.to = "matchday" => v.at \in GroupNumbers /\ v = WcMatchday(r, v.at)
             /\ v.to = "club" => i > m
  <2> TAKE i \in 1 .. k
  <2>1. KindAt(r, m, i, all[i])
    BY <1>3
  <2> QED
    BY <2>1, KindFacts
<1>6. CASE w.to \in {"stage", "round"}
  BY <1>1, <1>5, <1>6, <1>w, FrameKeeps
<1>7. CASE k + 1 <= m /\ \E l \in LettersRead(r) : w = WcGroup(l)
  <2> PICK l \in Letters : w = WcGroup(l)
    BY <1>4, <1>7
  <2>1. \A i \in 1 .. k : all[i].to # "club"
    BY <1>7, <1>k
  <2>2. WritesRow(WcGroup(l))
    BY <1>w
  <2>3. /\ WriteHolds /\ StillThere(r)' /\ TiesHeld /\ Standing(WcGroup(l))'
        /\ \A v : (v.to # "club" /\ Standing(v)) => Standing(v)'
    BY <1>1, <2>2, GroupKeeps
  <2>4. Standing(w)'
    BY <2>3
  <2>5. \A i \in 1 .. k : Standing(all[i])'
    BY <1>1, <2>1, <2>3
  <2> QED
    BY <1>5, <2>3, <2>4, <2>5
<1>8. CASE k + 1 > m /\ \E l \in LettersRead(r) : \E n \in OwnMatches(r, l) : w = WcMatchday(r, n)
  <2> PICK l \in LettersRead(r) : \E n \in OwnMatches(r, l) : w = WcMatchday(r, n)
    BY <1>8
  <2> PICK n \in OwnMatches(r, l) : w = WcMatchday(r, n)
    OBVIOUS
  <2>1. n \in GroupNumbers /\ r[n] # None /\ Card[n].group = l /\ l \in Letters
    BY <1>4 DEF OwnMatches, OfCard
  <2>2. PlaceOf(r, n) \in Nat \ {0}
    BY <2>1, DateOrderIs
  <2>3. WritesRow(WcMatchday(r, n))
    BY <1>w
  <2>4. /\ WriteHolds /\ StillThere(r)' /\ TiesHeld /\ Standing(WcMatchday(r, n))'
        /\ \A v : (/\ v.to \in {"matchday", "leg"} => v.at \in Numbers
                   /\ (v.to = "matchday" /\ v.at = n) => v = WcMatchday(r, n)
                   /\ Standing(v)) => Standing(v)'
    BY <1>1, <2>1, <2>2, <2>3, MatchdayKeeps
  <2>5. Standing(w)'
    BY <2>4
  <2>6. \A i \in 1 .. k : Standing(all[i])'
    BY <1>1, <1>k, <2>4
  <2> QED
    BY <1>5, <2>4, <2>5, <2>6
<1>9. CASE k + 1 > m /\ \E l \in LettersRead(r) : \E c \in TeamSet(r, l) : w = WcClub(l, c)
  <2> PICK l \in LettersRead(r) : \E c \in TeamSet(r, l) : w = WcClub(l, c)
    BY <1>9
  <2> PICK c \in TeamSet(r, l) : w = WcClub(l, c)
    OBVIOUS
  <2>1. c \in TeamsOf(l)
    BY <1>4, OwnFacts
  <2>2. l \in DOMAIN groups
    <3>1. WcGroup(l) \in GroupFrame(r)
      BY DEF GroupFrame
    <3>2. PICK i \in 1 .. m : all[i] = WcGroup(l)
      BY <3>1 DEF LaidOut, all
    <3>3. i \in 1 .. k
      BY <1>9
    <3>4. Standing(WcGroup(l))
      BY <1>1, <3>2, <3>3 DEF all
    <3> QED
      BY <3>4 DEF Standing, WcGroup
  <2>3. WritesRow(WcClub(l, c))
    BY <1>w
  <2>4. /\ WriteHolds /\ StillThere(r)' /\ TiesHeld /\ Standing(WcClub(l, c))'
        /\ \A v : Standing(v) => Standing(v)'
    BY <1>1, <2>1, <2>2, <2>3, ClubKeeps
  <2>5. Standing(w)'
    BY <2>4
  <2>6. \A i \in 1 .. k : Standing(all[i])'
    BY <1>1, <2>4
  <2> QED
    BY <1>5, <2>4, <2>5, <2>6
<1> QED
  BY <1>1, <1>3, <1>6, <1>7, <1>8, <1>9 DEF KindAt, base, count

LEMMA TieProceeds ==
    ASSUME WcFacts, NEW r \in Rows, NEW k \in Nat, Underway(r, k), k < Len(WritesOf(r)), CardTeams(r),
           WritesRow(WritesOf(r)[k + 1]), NEW m \in Nat, LaidOut(r, m),
           k + 1 > TieBase(r), k + 1 <= TieBase(r) + Len(KoRead(r)), Head(seeding) = WritesOf(r)[k + 1]
    PROVE  Proceeds(r, k)
<1> DEFINE all == WritesOf(r)
           w == all[k + 1]
           base == TieBase(r)
           ko == KoRead(r)
           count == Len(ko)
           n == ko[k + 1 - base]
<1>1. /\ Len(all) \in Nat /\ base \in Nat /\ count \in Nat /\ m <= base
      /\ StillThere(r) /\ TiesInOrder(r, k) /\ \A i \in 1 .. k : Standing(all[i])
  BY DEF LaidOut, Underway
<1>2. k + 1 \in 1 .. Len(all) /\ k + 1 - base \in 1 .. count /\ \A i \in 1 .. k : i \in 1 .. Len(all) /\ i \in Nat
  BY <1>1
<1>3. \A i \in 1 .. k : KindAt(r, m, i, all[i])
  BY <1>2, WriteKinds
<1>4. w = TieCreated(r, n)
  <2>1. all[base + (k + 1 - base)] = TieCreated(r, ko[k + 1 - base])
    BY <1>2 DEF LaidOut
  <2>2. base + (k + 1 - base) = k + 1
    BY <1>1
  <2> QED
    BY <2>1, <2>2
<1>5. n \in KoNumbers /\ r[n] # None
  <2>1. Lists(ko, KoSet(r))
    BY KoReadIs
  <2> QED
    BY <1>2, <2>1 DEF Lists, KoSet
<1>6. \A i \in 1 .. k : all[i].to # "feeders"
  <2> TAKE i \in 1 .. k
  <2> DEFINE v == all[i]
  <2>1. KindAt(r, m, i, v)
    BY <1>3
  <2> HIDE DEF v
  <2>2. v.to = "feeders" => i > base + count
    BY <2>1, KindFacts
  <2>3. ~(i > base + count)
    BY <1>1, <1>2
  <2> QED
    BY <2>2, <2>3 DEF v
<1> HIDE DEF all, w, n, ko
<1>7. WritesRow(TieCreated(r, n)) /\ Head(seeding) = TieCreated(r, n)
  BY <1>4 DEF w, all
<1>8. /\ WriteHolds /\ StillThere(r)'
      /\ Len(wcTies') = Len(wcTies) + 1 /\ wcTies'[Len(wcTies) + 1].of = n
      /\ \A t \in DOMAIN wcTies : wcTies'[t].of = wcTies[t].of
      /\ DOMAIN wcTies = 1 .. Len(wcTies) /\ Len(wcTies) \in Nat
      /\ Standing(TieCreated(r, n))'
      /\ \A v : (v.to # "feeders" /\ Standing(v)) => Standing(v)'
  BY <1>1, <1>5, <1>7, TieKeeps
<1>9. Standing(w)'
  BY <1>4, <1>8
<1>10. \A i \in 1 .. k : Standing(all[i])'
  BY <1>1, <1>6, <1>8
<1>11. TiesInOrder(r, k + 1)'
  <2>1. TiesBy(r, k) = k - base /\ TiesBy(r, k + 1) = k + 1 - base
    <3> USE DEF ko
    <3>1. \A i \in Nat : TiesBy(r, i) = IF i <= base THEN 0 ELSE IF i <= base + count THEN i - base ELSE count
      BY DEF TiesBy
    <3>2. base \in Nat /\ count \in Nat /\ k + 1 > base /\ k + 1 <= base + count
      BY <1>1
    <3> HIDE DEF base, count
    <3>3. TiesBy(r, k) = IF k <= base THEN 0 ELSE IF k <= base + count THEN k - base ELSE count
      BY <3>1
    <3>4. TiesBy(r, k + 1) = IF k + 1 <= base THEN 0
            ELSE IF k + 1 <= base + count THEN k + 1 - base ELSE count
      <4>1. k + 1 \in Nat
        OBVIOUS
      <4> HIDE DEF TiesBy
      <4> DEFINE j == k + 1
      <4> HIDE DEF j
      <4>2. j \in Nat
        BY <4>1 DEF j
      <4>3. TiesBy(r, j) = IF j <= base THEN 0 ELSE IF j <= base + count THEN j - base ELSE count
        BY <3>1, <4>2
      <4> QED
        BY <3>2, <4>3 DEF j
    <3>5. k <= base => k = base
      BY <3>2
    <3> QED
      BY <3>2, <3>3, <3>4, <3>5
  <2> DEFINE old == Len(wcTies)
             new == wcTies'
  <2>2. old = k - base /\ \A t \in DOMAIN wcTies : wcTies[t].of = ko[t]
    BY <1>1, <2>1 DEF TiesInOrder, ko
  <2>3. Len(new) = k + 1 - base
    BY <1>1, <1>8, <2>2
  <2>4. DOMAIN new = 1 .. k + 1 - base
    <3>1. WcTypeOK'
      BY <1>8 DEF WriteHolds
    <3> QED
      BY <2>3, <3>1 DEF WcTypeOK
  <2>5. \A t \in DOMAIN new : new[t].of = ko[t]
    <3> TAKE t \in DOMAIN new
    <3>1. t \in DOMAIN wcTies \/ t = old + 1
      BY <1>1, <1>8, <2>2, <2>4
    <3>2. old + 1 = k + 1 - base
      BY <1>1, <2>2
    <3>3. CASE t \in DOMAIN wcTies
      BY <1>8, <2>2, <3>3
    <3>4. CASE t = old + 1
      BY <1>8, <3>2, <3>4 DEF n
    <3> QED
      BY <3>1, <3>3, <3>4
  <2> QED
    BY <2>1, <2>3, <2>5 DEF TiesInOrder, ko
<1> QED
  BY <1>8, <1>9, <1>10, <1>11 DEF Proceeds, w, all

LEMMA SecondProceeds ==
    ASSUME WcFacts, NEW r \in Rows, NEW k \in Nat, Underway(r, k), k < Len(WritesOf(r)), CardTeams(r),
           WritesRow(WritesOf(r)[k + 1]), NEW m \in Nat, LaidOut(r, m), k + 1 > TieBase(r) + Len(KoRead(r))
    PROVE  Proceeds(r, k)
<1> DEFINE all == WritesOf(r)
           w == all[k + 1]
           base == TieBase(r)
           ko == KoRead(r)
           count == Len(ko)
<1>1. /\ Len(all) \in Nat /\ base \in Nat /\ count \in Nat /\ m <= base
      /\ StillThere(r) /\ TiesInOrder(r, k) /\ \A i \in 1 .. k : Standing(all[i])
  BY DEF LaidOut, Underway
<1>2. k + 1 \in 1 .. Len(all) /\ \A i \in 1 .. k : i \in 1 .. Len(all) /\ i \in Nat
  BY <1>1
<1>3. \A i \in 1 .. k : KindAt(r, m, i, all[i])
  BY <1>2, WriteKinds
<1>4. w \in SecondSet(r)
  <2>1. k + 1 \in base + count + 1 .. Len(all)
    BY <1>1, <1>2
  <2> QED
    BY <2>1 DEF LaidOut
<1>5. ASSUME WriteHolds, StillThere(r)', TiesHeld, Standing(w)', \A i \in 1 .. k : Standing(all[i])'
      PROVE  Proceeds(r, k)
  BY <1>1, <1>5, OrderHeld DEF Proceeds
<1>6. Len(wcTies) = count
  <2> DEFINE by == TiesBy(r, k)
  <2>1. by = IF k <= base THEN 0 ELSE IF k <= base + count THEN k - base ELSE count
    BY DEF TiesBy
  <2>2. Len(wcTies) = by
    BY <1>1 DEF TiesInOrder
  <2>3. base \in Nat /\ count \in Nat /\ k + 1 > base + count
    BY <1>1
  <2> HIDE DEF by, base, count
  <2> QED
    BY <2>1, <2>2, <2>3
<1>7. \A t \in DOMAIN wcTies : wcTies[t].of = ko[t]
  BY <1>1 DEF TiesInOrder
<1>k. \A i \in 1 .. k : LET v == all[i]
          IN /\ v.to \in {"matchday", "leg"} => v.at \in Numbers
             /\ v.to = "matchday" => v.at \in GroupNumbers
             /\ v.to = "feeders" => v = FeedersWrite(r, v.at)
  <2> TAKE i \in 1 .. k
  <2> DEFINE v == all[i]
  <2>1. KindAt(r, m, i, v)
    BY <1>3
  <2> HIDE DEF v
  <2>2. /\ v.to \in {"matchday", "leg"} => v.at \in Numbers
        /\ v.to = "matchday" => v.at \in GroupNumbers
        /\ v.to = "feeders" => v = FeedersWrite(r, v.at)
    BY <2>1, KindFacts
  <2> QED
    BY <2>2 DEF v
<1> HIDE DEF all, w, base, count, ko
<1>w. WritesRow(w)
  BY DEF w, all
<1>8. CASE \E n \in KoSet(r) : w = FeedersWrite(r, n)
  <2> PICK n \in KoNumbers : w = FeedersWrite(r, n)
    BY <1>8 DEF KoSet
  <2>1. WritesRow(FeedersWrite(r, n)) /\ Len(wcTies) = Len(KoRead(r)) /\ \A t \in DOMAIN wcTies : wcTies[t].of = KoRead(r)[t]
    BY <1>6, <1>7, <1>w DEF count, ko
  <2>2. /\ WriteHolds /\ StillThere(r)' /\ TiesHeld /\ Standing(FeedersWrite(r, n))'
        /\ \A v : ((v.to = "feeders" /\ v.at = n) => v = FeedersWrite(r, n)) /\ Standing(v) => Standing(v)'
    BY <1>1, <2>1, FeedersKeeps
  <2>3. Standing(w)'
    BY <2>2
  <2>4. \A i \in 1 .. k : Standing(all[i])'
    BY <1>1, <1>k, <2>2
  <2> QED
    BY <1>5, <2>2, <2>3, <2>4
<1>9. CASE \E n \in KoSet(r) : w = WcLeg(n)
  <2> PICK n \in KoSet(r) : w = WcLeg(n)
    BY <1>9
  <2>1. n \in KoNumbers /\ r[n] # None /\ WritesRow(WcLeg(n))
    BY <1>w DEF KoSet
  <2>2. \E t \in DOMAIN wcTies : wcTies[t].of = n
    <3>1. Lists(ko, KoSet(r))
      BY KoReadIs DEF ko
    <3>2. PICK t \in DOMAIN ko : ko[t] = n
      BY <3>1 DEF Lists
    <3>3. DOMAIN ko = 1 .. count /\ DOMAIN wcTies = 1 .. count
      BY <1>6, <3>1 DEF Lists, count, WcFacts, WcTypeOK
    <3> QED
      BY <1>7, <3>2, <3>3
  <2>3. /\ WriteHolds /\ StillThere(r)' /\ TiesHeld /\ Standing(WcLeg(n))'
        /\ \A v : (/\ v.to = "leg" => v.at \in Numbers
                   /\ v.to = "matchday" => v.at \in GroupNumbers
                   /\ Standing(v)) => Standing(v)'
    BY <1>1, <2>1, <2>2, LegKeeps
  <2>4. Standing(w)'
    BY <2>3
  <2>5. \A i \in 1 .. k : Standing(all[i])'
    BY <1>1, <1>k, <2>3
  <2> QED
    BY <1>5, <2>3, <2>4, <2>5
<1> QED
  BY <1>4, <1>8, <1>9 DEF SecondSet

LEMMA WriteProceeds ==
    ASSUME WcFacts, NEW r \in Rows, NEW k \in Nat, Underway(r, k), k < Len(WritesOf(r)), CardTeams(r),
           Head(seeding) = WritesOf(r)[k + 1], seeding' = Left(WritesOf(r), k + 1), WritesRow(Head(seeding))
    PROVE  WriteHolds /\ Underway(r, k + 1)'
<1> DEFINE all == WritesOf(r)
           w == all[k + 1]
           base == TieBase(r)
           count == Len(KoRead(r))
<1>1. PICK m \in Nat : LaidOut(r, m)
  BY WritesAre
<1>2. Len(all) \in Nat /\ base \in Nat /\ count \in Nat
  BY <1>1 DEF LaidOut
<1>3. WritesRow(w)
  OBVIOUS
<1>4. Proceeds(r, k)
  <2>1. CASE k + 1 <= base
    BY <1>1, <1>3, <2>1, GroupProceeds
  <2>2. CASE k + 1 > base /\ k + 1 <= base + count
    BY <1>1, <1>3, <2>2, TieProceeds
  <2>3. CASE k + 1 > base + count
    BY <1>1, <1>3, <2>3, SecondProceeds
  <2> QED
    BY <1>2, <2>1, <2>2, <2>3
<1>5. \A i \in 1 .. k + 1 : i \in 1 .. k \/ i = k + 1
  OBVIOUS
<1>6. \A i \in 1 .. k + 1 : Standing(all[i])'
  BY <1>4, <1>5 DEF Proceeds
<1>7. k + 1 \in 0 .. Len(all)
  BY <1>2
<1> QED
  BY <1>4, <1>6, <1>7 DEF Proceeds, Underway

\* The ties a run has left to create show what the matches it read show.
PendingKept ==
    /\ Head(seeding).to = "tie" => 1 \in DOMAIN seeding /\ Head(seeding) = seeding[1]
    /\ \A i \in DOMAIN seeding' : seeding'[i].to = "tie" =>
          \/ \E j \in DOMAIN seeding : seeding'[i] = seeding[j]
          \/ \E n \in KoNumbers : wcRows[n] # None /\ seeding'[i] = TieCreated(wcRows, n)

LEMMA TieStands ==
    ASSUME NEW r \in Rows, CardTeams(r), NEW i \in DOMAIN WritesOf(r), WritesOf(r)[i].to = "tie"
    PROVE  \E n \in KoNumbers : r[n] # None /\ WritesOf(r)[i] = TieCreated(r, n)
<1> DEFINE w == WritesOf(r)[i]
           base == TieBase(r)
           ko == KoRead(r)
<1>1. PICK m \in Nat : LaidOut(r, m)
  BY WritesAre
<1>2. i \in 1 .. Len(WritesOf(r)) /\ base \in Nat /\ Len(ko) \in Nat
  BY <1>1 DEF LaidOut
<1>3. KindAt(r, m, i, w)
  BY <1>1, <1>2, WriteKinds
<1>4. w.to = "tie"
  OBVIOUS
<1> HIDE DEF w
<1>5. i > base /\ i <= base + Len(ko) /\ w = TieCreated(r, ko[i - base])
  BY <1>3, <1>4 DEF KindAt, WcGroup, WcMatchday, WcClub, FeedersWrite, WcLeg
<1>6. i - base \in 1 .. Len(ko)
  BY <1>2, <1>5
<1>7. Lists(ko, KoSet(r))
  BY KoReadIs
<1>8. ko[i - base] \in KoNumbers /\ r[ko[i - base]] # None
  BY <1>6, <1>7 DEF Lists, KoSet
<1> QED
  BY <1>5, <1>8 DEF w

LEMMA UpsertingHasNoTie ==
    ASSUME NEW s \in Seq([to : {"upsert"}, at : Numbers]), NEW all, all = s \o Rebuild
    PROVE  /\ \A i \in DOMAIN all : all[i].to # "tie"
           /\ all # <<>>
<1> DEFINE T == [to : {"upsert"}, at : Numbers]
           U == T \cup {Drop, ReadAll}
           rest == << Drop, ReadAll >>
<1>1. rest \in Seq(U) /\ s \in Seq(U) /\ all = s \o rest /\ Len(rest) = 2
  <2>1. all = s \o rest
    BY DEF Rebuild, Drop, ReadAll
  <2>2. s \in Seq(T)
    OBVIOUS
  <2> HIDE DEF T
  <2>3. rest \in Seq(U) /\ Len(rest) = 2
    OBVIOUS
  <2>4. s \in Seq(U)
    BY <2>2
  <2> QED
    BY <2>1, <2>3, <2>4
<1>2. \A w \in U : w.to # "tie"
  BY DEF Drop, ReadAll
<1> HIDE DEF T, U, rest
<1>3. all \in Seq(U) /\ Len(all) = Len(s) + 2
  <2>1. rest \in Seq(U) /\ s \in Seq(U)
    BY <1>1
  <2>2. s \o rest \in Seq(U) /\ Len(s \o rest) = Len(s) + Len(rest)
    BY <2>1
  <2> QED
    BY <1>1, <2>2
<1>4. all # <<>>
  BY <1>1, <1>3
<1> QED
  BY <1>2, <1>3, <1>4

LEMMA SeedWriteKeeps ==
    ASSUME WcFacts, Phase, SeedWrites
    PROVE  WriteHolds /\ Phase' /\ PendingKept
<1>0. WcTypeOK /\ GroupTeamsStand /\ wcRows \in Rows
  BY DEF WcFacts, WcTypeOK, Rows
<1>1. NextIs /\ ~rebuilt /\ ~rebuilt' /\ WritesRow(Head(seeding))
  BY NextWrite DEF SeedWrites
<1>2. CASE \E n \in Numbers : Head(seeding) = Upsert(n) /\ Upserting'
  <2> PICK n \in Numbers : Head(seeding) = Upsert(n) /\ Upserting'
    BY <1>2
  <2>1. WriteHolds
    BY <1>1, UpsertKeeps
  <2>2. Phase'
    BY <1>1 DEF Phase
  <2>3. PICK s \in Seq([to : {"upsert"}, at : Numbers]) : seeding' = s \o Rebuild
    BY DEF Upserting
  <2>4. \A i \in DOMAIN seeding' : seeding'[i].to # "tie"
    BY <2>3, UpsertingHasNoTie
  <2>5. PendingKept
    BY <2>4 DEF PendingKept, Upsert
  <2> QED
    BY <2>1, <2>2, <2>5
<1>3. CASE Head(seeding) = Drop /\ seeding' = << ReadAll >>
  <2>1. WritesRow(Drop)
    BY <1>1, <1>3
  <2>2. WriteHolds
    BY <2>1, DropKeeps
  <2>3. Bare'
    <3> DEFINE w == Drop
    <3>1. WritesRow(w) /\ w.to = "drop"
      BY <2>1 DEF Drop
    <3> HIDE DEF w
    <3>2. groups' = <<>> /\ wcTies' = <<>>
      BY <3>1, RowEffects
    <3> QED
      BY <3>2 DEF Bare
  <2>4. Phase'
    BY <1>1, <1>3, <2>3 DEF Phase, ReadAll
  <2>5. PendingKept
    BY <1>3 DEF PendingKept, Drop, ReadAll
  <2> QED
    BY <2>2, <2>4, <2>5
<1>4. CASE Head(seeding) = ReadAll /\ Bare /\ seeding' = WritesOf(wcRows)
  <2> PICK r \in Rows : r = wcRows
    BY <1>0
  <2>0. CardTeams(r)
    BY <1>0 DEF GroupTeamsStand, CardTeams
  <2>1. PICK m \in Nat : LaidOut(r, m)
    BY <2>0, WritesAre
  <2> DEFINE all == WritesOf(r)
  <2>2. Len(all) \in Nat /\ DOMAIN all = 1 .. Len(all) /\ all = [i \in 1 .. Len(all) |-> all[i]]
        /\ TieBase(r) \in Nat
    BY <2>1 DEF LaidOut
  <2>3. wcRows' = wcRows /\ groups' = groups /\ wcTies' = wcTies
    <3> DEFINE w == ReadAll
    <3>1. WritesRow(w) /\ w.to = "read"
      BY <1>1, <1>4 DEF ReadAll
    <3> HIDE DEF w
    <3> QED
      BY <3>1, FrameEffects
  <2>4. WriteHolds
    BY <1>0, <2>3, NothingKeeps DEF WcTypeOK
  <2>5. seeding' = all
    BY <1>4
  <2>6. all = Left(all, 0)
    <3> HIDE DEF all
    <3>1. Len(all) - 0 = Len(all) /\ \A i \in 1 .. Len(all) : 0 + i = i
      BY <2>2
    <3>2. Left(all, 0) = [i \in 1 .. Len(all) |-> all[i]]
      BY <3>1 DEF Left
    <3> QED
      BY <2>2, <3>2
  <2>7. StillThere(r)'
    BY <1>0, <2>3 DEF StillThere, GroupTeamsStand
  <2>8. TiesInOrder(r, 0)'
    <3>1. TiesBy(r, 0) = 0
      BY <2>2 DEF TiesBy
    <3>2. Len(wcTies') = 0 /\ DOMAIN wcTies' = {}
      BY <1>0, <1>4, <2>3 DEF Bare, WcTypeOK
    <3> QED
      BY <3>1, <3>2 DEF TiesInOrder
  <2>9. Underway(r, 0)'
    <3>1. 0 \in 0 .. Len(all)
      BY <2>2
    <3> HIDE DEF all
    <3>2. seeding' = Left(all, 0)
      BY <2>5, <2>6
    <3> QED
      BY <2>7, <2>8, <3>1, <3>2 DEF Underway, all
  <2>10. Phase'
    BY <1>1, <2>9 DEF Phase
  <2>11. PendingKept
    <3>1. Head(seeding).to # "tie"
      BY <1>4 DEF ReadAll
    <3>2. ASSUME NEW i \in DOMAIN seeding', seeding'[i].to = "tie"
          PROVE  \E n \in KoNumbers : wcRows[n] # None /\ seeding'[i] = TieCreated(wcRows, n)
      <4>1. i \in DOMAIN WritesOf(r) /\ WritesOf(r)[i].to = "tie"
        BY <2>5, <3>2
      <4>2. \E n \in KoNumbers : r[n] # None /\ WritesOf(r)[i] = TieCreated(r, n)
        BY <2>0, <4>1, TieStands
      <4> QED
        BY <2>5, <4>2
    <3> QED
      BY <3>1, <3>2 DEF PendingKept
  <2> QED
    BY <2>4, <2>10, <2>11
<1>5. CASE \E r \in Rows : \E k \in Nat :
             /\ Underway(r, k) /\ k < Len(WritesOf(r)) /\ CardTeams(r)
             /\ Head(seeding) = WritesOf(r)[k + 1] /\ seeding' = Left(WritesOf(r), k + 1)
  <2> PICK r \in Rows, k \in Nat :
             /\ Underway(r, k) /\ k < Len(WritesOf(r)) /\ CardTeams(r)
             /\ Head(seeding) = WritesOf(r)[k + 1] /\ seeding' = Left(WritesOf(r), k + 1)
    BY <1>5
  <2>1. WriteHolds /\ Underway(r, k + 1)'
    BY <1>1, WriteProceeds
  <2>2. Phase'
    <3>1. k + 1 \in Nat
      OBVIOUS
    <3> QED
      BY <1>1, <2>1, <3>1 DEF Phase
  <2>3. PendingKept
    <3> DEFINE all == WritesOf(r)
               n == Len(all)
    <3>0. n \in Nat
      BY WritesAre DEF LaidOut
    <3>1. seeding = Left(all, k) /\ seeding' = Left(all, k + 1) /\ Head(seeding) = all[k + 1] /\ k < n
      BY DEF Underway
    <3> HIDE DEF all
    <3>2. DOMAIN seeding = 1 .. n - k /\ \A i \in 1 .. n - k : seeding[i] = all[k + i]
      BY <3>1 DEF Left
    <3>3. DOMAIN seeding' = 1 .. n - (k + 1) /\ \A i \in 1 .. n - (k + 1) : seeding'[i] = all[(k + 1) + i]
      BY <3>1 DEF Left
    <3> HIDE DEF n
    <3>4. 1 \in DOMAIN seeding /\ Head(seeding) = seeding[1]
      BY <3>0, <3>1, <3>2
    <3>5. ASSUME NEW i \in DOMAIN seeding' PROVE \E j \in DOMAIN seeding : seeding'[i] = seeding[j]
      <4>1. i + 1 \in 1 .. n - k /\ k + (i + 1) = (k + 1) + i
        <5>1. i \in 1 .. n - (k + 1)
          BY <3>3
        <5> QED
          BY <3>0, <5>1
      <4>2. seeding'[i] = seeding[i + 1]
        BY <3>2, <3>3, <4>1
      <4> QED
        BY <3>2, <4>1, <4>2
    <3> QED
      BY <3>4, <3>5 DEF PendingKept
  <2> QED
    BY <2>1, <2>2, <2>3
<1> QED
  BY <1>1, <1>2, <1>3, <1>4, <1>5 DEF NextIs

\* The teams shown stay, whatever shows them.
LEMMA ShownStays ==
    ASSUME WcTypeOK, ResultsKept, SidesKept, TiesKept, NEW shown \in Shown, ShowsOnly(shown),
           \A t \in DOMAIN wcTies' : \A side \in Side :
              \/ t \in DOMAIN wcTies /\ wcTies'[t].of = wcTies[t].of /\ wcTies'[t][side] = wcTies[t][side]
              \/ /\ seeding # None /\ wcTies'[t].of \in KoNumbers
                 /\ \E i \in DOMAIN seeding : /\ seeding[i].to = "tie" /\ wcTies'[t].of = seeding[i].at
                                              /\ wcTies'[t][side] = seeding[i][side],
           seeding' # None => \A i \in DOMAIN seeding' : seeding'[i].to = "tie" =>
              \/ seeding # None /\ \E j \in DOMAIN seeding : seeding'[i] = seeding[j]
              \/ \E n \in KoNumbers : wcRows[n] # None /\ seeding'[i] = TieCreated(wcRows, n)
    PROVE  ShowsOnly(shown)'
<1> SUFFICES ASSUME NEW n \in KoNumbers, NEW side \in Side
             PROVE  /\ wcRows'[n] # None => wcRows'[n][side] \in {None, shown[n][side]}
                    /\ \A t \in DOMAIN wcTies' : wcTies'[t].of = n => wcTies'[t][side] \in {None, shown[n][side]}
                    /\ seeding' # None => (\A i \in DOMAIN seeding' :
                         (seeding'[i].to = "tie" /\ seeding'[i].at = n) => seeding'[i][side] \in {None, shown[n][side]})
                    /\ shown[n][side] # None => Gives(LabelOf(n, side), shown[n][side], shown)'
  BY DEF ShowsOnly
<1>1. wcRows[n] # None => wcRows[n][side] \in {None, shown[n][side]}
  BY DEF ShowsOnly
<1>2. \A t \in DOMAIN wcTies : wcTies[t].of = n => wcTies[t][side] \in {None, shown[n][side]}
  BY DEF ShowsOnly
<1>3. seeding # None => \A i \in DOMAIN seeding :
        (seeding[i].to = "tie" /\ seeding[i].at = n) => seeding[i][side] \in {None, shown[n][side]}
  BY DEF ShowsOnly
<1>4. shown[n][side] # None => Gives(LabelOf(n, side), shown[n][side], shown)
  BY DEF ShowsOnly
<1>5. wcRows'[n] # None => wcRows'[n][side] \in {None, shown[n][side]}
  BY <1>1 DEF SidesKept
<1>6. ASSUME NEW t \in DOMAIN wcTies', wcTies'[t].of = n PROVE wcTies'[t][side] \in {None, shown[n][side]}
  <2>1. CASE t \in DOMAIN wcTies /\ wcTies'[t].of = wcTies[t].of /\ wcTies'[t][side] = wcTies[t][side]
    BY <1>2, <1>6, <2>1
  <2>2. CASE /\ seeding # None
             /\ \E i \in DOMAIN seeding : /\ seeding[i].to = "tie" /\ wcTies'[t].of = seeding[i].at
                                          /\ wcTies'[t][side] = seeding[i][side]
    BY <1>3, <1>6, <2>2
  <2> QED
    BY <2>1, <2>2
<1>7. ASSUME seeding' # None, NEW i \in DOMAIN seeding', seeding'[i].to = "tie", seeding'[i].at = n
      PROVE  seeding'[i][side] \in {None, shown[n][side]}
  <2>1. CASE seeding # None /\ \E j \in DOMAIN seeding : seeding'[i] = seeding[j]
    BY <1>3, <1>7, <2>1
  <2>2. CASE \E k \in KoNumbers : wcRows[k] # None /\ seeding'[i] = TieCreated(wcRows, k)
    <3> PICK k \in KoNumbers : wcRows[k] # None /\ seeding'[i] = TieCreated(wcRows, k)
      BY <2>2
    <3>1. k = n
      BY <1>7 DEF TieCreated
    <3>2. wcRows[n] \in WcRow
      BY <3>1, CardFacts DEF WcTypeOK
    <3>3. wcRows[n]["home"] = wcRows[n].home /\ wcRows[n]["away"] = wcRows[n].away
      BY <3>2, RowSides
    <3>4. seeding'[i][side] = wcRows[n][side]
      BY <3>1, <3>3 DEF TieCreated, Side
    <3> QED
      BY <1>1, <3>1, <3>4
  <2> QED
    BY <1>7, <2>1, <2>2
<1>8. ASSUME shown[n][side] # None PROVE Gives(LabelOf(n, side), shown[n][side], shown)'
  <2>1. Extends(shown, shown)
    BY DEF Extends
  <2> QED
    BY <1>4, <1>8, <2>1, GivesStays
<1> QED
  BY <1>5, <1>6, <1>7, <1>8

LEMMA SeedTeamsStay ==
    ASSUME WcTypeOK, WriteHolds, PendingKept, seeding # None, TeamsStay
    PROVE  TeamsStay'
<1> PICK shown \in Shown : ShowsOnly(shown)
  BY DEF TeamsStay
<1>1. ResultsKept /\ SidesKept /\ TiesKept /\ WcTypeOK'
  BY DEF WriteHolds
<1>2. \A t \in DOMAIN wcTies' : wcTies'[t].of \in KoNumbers
  BY <1>1, TieSides DEF WcTypeOK
<1>3. \A t \in DOMAIN wcTies' : \A side \in Side :
         \/ t \in DOMAIN wcTies /\ wcTies'[t].of = wcTies[t].of /\ wcTies'[t][side] = wcTies[t][side]
         \/ /\ seeding # None /\ wcTies'[t].of \in KoNumbers
            /\ \E i \in DOMAIN seeding : /\ seeding[i].to = "tie" /\ wcTies'[t].of = seeding[i].at
                                         /\ wcTies'[t][side] = seeding[i][side]
  BY <1>1, <1>2 DEF TiesKept, PendingKept
<1>4. seeding' # None => \A i \in DOMAIN seeding' : seeding'[i].to = "tie" =>
         \/ seeding # None /\ \E j \in DOMAIN seeding : seeding'[i] = seeding[j]
         \/ \E n \in KoNumbers : wcRows[n] # None /\ seeding'[i] = TieCreated(wcRows, n)
  BY DEF PendingKept
<1>5. ShowsOnly(shown)'
  BY <1>1, <1>3, <1>4, ShownStays
<1> QED
  BY <1>5 DEF TeamsStay

\* The writes of a run that starts, or that is over, create no tie.
LEMMA SeedStartKeeps ==
    ASSUME WcTypeOK, GroupTeamsStand, LinksSound, SourcesSound, TeamsStay,
           wcRows' = wcRows, groups' = groups, wcTies' = wcTies,
           seeding' # None => \A i \in DOMAIN seeding' : seeding'[i].to # "tie"
    PROVE  WcTypeOK' /\ GroupTeamsStand' /\ LinksSound' /\ SourcesSound' /\ TeamsStay'
<1>1. WcFacts
  BY DEF WcFacts
<1>2. WriteHolds
  BY <1>1, NothingKeeps DEF WcTypeOK
<1> PICK shown \in Shown : ShowsOnly(shown)
  BY DEF TeamsStay
<1>3. ResultsKept /\ SidesKept /\ TiesKept
  BY <1>2 DEF WriteHolds
<1>4. ShowsOnly(shown)'
  BY <1>3, ShownStays
<1>5. TeamsStay'
  BY <1>4 DEF TeamsStay
<1> QED
  BY <1>2, <1>5 DEF WriteHolds

LEMMA SeedStartsKeeps ==
    ASSUME WcInv, SeedStarts PROVE WcInv'
<1> DEFINE U == [to : {"upsert"}, at : Numbers]
           card == Sorted(Numbers)
           s == [i \in DOMAIN card |-> [to |-> "upsert", at |-> card[i]]]
<1>0. WcTypeOK /\ GroupTeamsStand /\ LinksSound /\ SourcesSound /\ TeamsStay /\ Phase
  BY DEF WcInv
<1>1. seeding = None /\ (seeding' = s \o Rebuild \/ seeding' = Rebuild) /\ ~rebuilt'
      /\ wcRows' = wcRows /\ groups' = groups /\ wcTies' = wcTies
  BY DEF SeedStarts, structureVars
<1>2. s \in Seq(U)
  <2>1. Lists(card, Numbers) /\ Len(card) \in Nat
    BY CardFacts, SortedIs
  <2>2. DOMAIN card = 1 .. Len(card) /\ \A i \in DOMAIN card : card[i] \in Numbers
    BY <2>1 DEF Lists
  <2> HIDE DEF card
  <2>3. \A i \in DOMAIN card : s[i] \in U
    BY <2>2
  <2> HIDE DEF U
  <2> QED
    BY <2>1, <2>2, <2>3
<1>3. \E x \in Seq(U) : seeding' = x \o Rebuild
  <2> DEFINE all == Rebuild
             V == {Drop, ReadAll}
  <2>1. all \in Seq(V)
    BY DEF Rebuild, Drop, ReadAll
  <2>2. << >> \in Seq(U) /\ << >> \o all = all
    <3> HIDE DEF U, all, V
    <3> QED
      BY <2>1
  <2> HIDE DEF U, s
  <2> QED
    BY <1>1, <1>2, <2>2
<1>4. Upserting'
  BY <1>3 DEF Upserting
<1>5. seeding' # None => \A i \in DOMAIN seeding' : seeding'[i].to # "tie"
  BY <1>3, UpsertingHasNoTie
<1>6. Phase'
  BY <1>1, <1>4 DEF Phase
<1>7. WcTypeOK' /\ GroupTeamsStand' /\ LinksSound' /\ SourcesSound' /\ TeamsStay'
  BY <1>0, <1>1, <1>5, SeedStartKeeps
<1> QED
  BY <1>6, <1>7 DEF WcInv

LEMMA SeedEndsKeeps ==
    ASSUME WcInv, SeedEnds PROVE WcInv'
<1>0. WcTypeOK /\ GroupTeamsStand /\ LinksSound /\ SourcesSound /\ TeamsStay /\ Phase
  BY DEF WcInv
<1>1. seeding = <<>> /\ seeding # None /\ seeding' = None /\ rebuilt'
      /\ wcRows' = wcRows /\ groups' = groups /\ wcTies' = wcTies
  BY WorldCupAssumption DEF SeedEnds, structureVars
<1>2. WcTypeOK' /\ GroupTeamsStand' /\ LinksSound' /\ SourcesSound' /\ TeamsStay'
  BY <1>0, <1>1, SeedStartKeeps
<1>3. ~Upserting
  BY <1>1, UpsertingHasNoTie DEF Upserting
<1>4. seeding # << [to |-> "read"] >>
  <2>1. Len(<< [to |-> "read"] >>) = 1 /\ Len(<<>>) = 0
    OBVIOUS
  <2> QED
    BY <1>1, <2>1
<1>5. PICK r \in Rows, k \in Nat : Underway(r, k)
  BY <1>0, <1>1, <1>3, <1>4 DEF Phase
<1>6. CardTeams(r)
  BY <1>5, StillCard DEF Underway
<1> DEFINE all == WritesOf(r)
<1>7. Len(all) \in Nat /\ DOMAIN all = 1 .. Len(all)
  BY <1>6, WritesAre DEF LaidOut
<1>8. k \in 0 .. Len(all) /\ seeding = Left(all, k)
  BY <1>5 DEF Underway
<1>9. k = Len(all)
  <2> HIDE DEF all
  <2> QED
    BY <1>1, <1>7, <1>8, LeftTail
<1>10. StillThere(r) /\ TiesInOrder(r, Len(all)) /\ \A i \in DOMAIN all : Standing(all[i])
  BY <1>5, <1>7, <1>9 DEF Underway
<1>11. StillThere(r)' /\ TiesInOrder(r, Len(all))' /\ \A i \in DOMAIN all : Standing(all[i])'
  BY <1>1, <1>10 DEF StillThere, TiesInOrder, Standing
<1>12. Complete'
  BY <1>11 DEF Complete
<1>13. Phase'
  BY <1>1, <1>12 DEF Phase
<1> QED
  BY <1>2, <1>13 DEF WcInv

LEMMA SeedThrowsKeeps ==
    ASSUME WcInv, SeedThrows PROVE WcInv'
<1>0. WcTypeOK /\ GroupTeamsStand /\ LinksSound /\ SourcesSound /\ TeamsStay /\ Phase
  BY DEF WcInv
<1>1. seeding # None /\ seeding' = None /\ rebuilt' = rebuilt
      /\ wcRows' = wcRows /\ groups' = groups /\ wcTies' = wcTies
  BY DEF SeedThrows, structureVars
<1>2. WcTypeOK' /\ GroupTeamsStand' /\ LinksSound' /\ SourcesSound' /\ TeamsStay'
  BY <1>0, <1>1, SeedStartKeeps
<1>3. Phase'
  BY <1>0, <1>1 DEF Phase
<1> QED
  BY <1>2, <1>3 DEF WcInv

LEMMA SeedWritesKeeps ==
    ASSUME WcInv, SeedWrites PROVE WcInv'
<1>0. WcFacts /\ WcTypeOK /\ TeamsStay /\ Phase /\ seeding # None
  BY DEF WcInv, WcFacts, SeedWrites
<1>1. WriteHolds /\ Phase' /\ PendingKept
  BY <1>0, SeedWriteKeeps
<1>2. TeamsStay'
  BY <1>0, <1>1, SeedTeamsStay
<1> QED
  BY <1>1, <1>2 DEF WcInv, WriteHolds

\* A match that is played or moved.
LEMMA RobotKeeps ==
    ASSUME WcInv, NEW n \in Numbers, MatchPlays(n) \/ Moved(n) PROVE WcInv'
<1>0. WcTypeOK /\ GroupTeamsStand /\ LinksSound /\ SourcesSound /\ TeamsStay /\ Phase
  BY DEF WcInv
<1>1. /\ WcTypeOK' /\ GroupTeamsStand' /\ SameStructure
      /\ \A k \in Numbers : wcRows[k] # None =>
            /\ wcRows'[k].home = wcRows[k].home /\ wcRows'[k].away = wcRows[k].away
            /\ wcRows[k].won # None => wcRows'[k].won # None
            /\ (wcRows[k].won # None /\ k \in KoNumbers) => wcRows'[k].won = wcRows[k].won
  BY <1>0, PlayKeeps, MoveKeeps
<1>2. seeding' = seeding /\ rebuilt' = rebuilt /\ wcTies' = wcTies
  BY DEF MatchPlays, Moved, structureVars
<1>3. LinksSound' /\ SourcesSound'
  BY <1>0, <1>1, LinksStay, SourcesStay
<1>4. Phase'
  BY <1>0, <1>1, <1>2, PhaseStays
<1>5. ResultsKept
  BY <1>1 DEF SameStructure, ResultsKept
<1>6. SidesKept
  <2> SUFFICES ASSUME NEW k \in KoNumbers, wcRows'[k] # None, NEW side \in Side
               PROVE  wcRows[k] # None /\ wcRows'[k][side] = wcRows[k][side]
    BY DEF SidesKept
  <2>1. k \in Numbers /\ wcRows[k] # None
    BY <1>1, CardFacts DEF SameStructure
  <2>2. wcRows[k] \in WcRow /\ wcRows'[k] \in WcRow
    BY <1>0, <1>1, <2>1 DEF WcTypeOK
  <2>3. wcRows'[k].home = wcRows[k].home /\ wcRows'[k].away = wcRows[k].away
    BY <1>1, <2>1
  <2>4. wcRows[k]["home"] = wcRows[k].home /\ wcRows[k]["away"] = wcRows[k].away
    BY <2>2, RowSides
  <2>5. wcRows'[k]["home"] = wcRows'[k].home /\ wcRows'[k]["away"] = wcRows'[k].away
    BY <2>2, RowSides
  <2> QED
    BY <2>1, <2>3, <2>4, <2>5 DEF Side
<1>7. TiesKept
  BY <1>2 DEF TiesKept
<1> PICK shown \in Shown : ShowsOnly(shown)
  BY <1>0 DEF TeamsStay
<1>8. ShowsOnly(shown)'
  BY <1>0, <1>2, <1>5, <1>6, <1>7, ShownStays
<1>9. TeamsStay'
  BY <1>8 DEF TeamsStay
<1> QED
  BY <1>1, <1>3, <1>4, <1>9 DEF WcInv

\* What a tie resolves to on one side.
LEMMA SideResolved ==
    ASSUME WcTypeOK, NEW t \in DOMAIN wcTies, NEW side \in Side
    PROVE  TieResolved(t)[side] = IF wcTies[t][side] = None THEN Resolves(SourceOf(wcTies[t], side))
                                    ELSE wcTies[t][side]
<1>1. wcTies[t] \in WcTie /\ TieResolved(t) \in WcTie
  BY TieResolvedIs DEF WcTypeOK
<1>2. /\ wcTies[t]["home"] = wcTies[t].home /\ wcTies[t]["away"] = wcTies[t].away
      /\ TieResolved(t)["home"] = TieResolved(t).home /\ TieResolved(t)["away"] = TieResolved(t).away
  BY <1>1, TieSides
<1>3. /\ TieResolved(t).home = IF wcTies[t].home = None THEN Resolves(wcTies[t].homeSource) ELSE wcTies[t].home
      /\ TieResolved(t).away = IF wcTies[t].away = None THEN Resolves(wcTies[t].awaySource) ELSE wcTies[t].away
  BY TieResolvedIs
<1> QED
  BY <1>2, <1>3 DEF Side, SourceOf

LEMMA RowSideResolved ==
    ASSUME WcTypeOK, NEW n \in Numbers, wcRows[n] # None, NEW tie \in WcTie, NEW side \in Side
    PROVE  RowResolved(n, tie)[side] = IF tie[side] = None THEN wcRows[n][side] ELSE tie[side]
<1>1. /\ RowResolved(n, tie) \in WcRow
      /\ RowResolved(n, tie).home = IF tie.home = None THEN wcRows[n].home ELSE tie.home
      /\ RowResolved(n, tie).away = IF tie.away = None THEN wcRows[n].away ELSE tie.away
  BY RowResolvedIs
<1>2. wcRows[n] \in WcRow
  BY DEF WcTypeOK
<1>3. /\ wcRows[n]["home"] = wcRows[n].home /\ wcRows[n]["away"] = wcRows[n].away
      /\ tie["home"] = tie.home /\ tie["away"] = tie.away
      /\ RowResolved(n, tie)["home"] = RowResolved(n, tie).home
      /\ RowResolved(n, tie)["away"] = RowResolved(n, tie).away
  BY <1>1, <1>2, RowSides, TieSides
<1> QED
  BY <1>1, <1>3 DEF Side

LEMMA ResolveTeamsStay ==
    ASSUME WcTypeOK, GroupTeamsStand, LinksSound, SourcesSound, NEW t, TeamsResolved(t), TeamsStay
    PROVE  TeamsStay'
<1> PICK shown \in Shown : ShowsOnly(shown)
  BY DEF TeamsStay
<1>1. /\ WcTypeOK' /\ SameStructure
      /\ t \in DOMAIN wcTies /\ wcTies'[t] = TieResolved(t)
      /\ \A s \in DOMAIN wcTies : s # t => wcTies'[s] = wcTies[s]
      /\ \A n \in Numbers :
           /\ wcRows'[n].won = wcRows[n].won
           /\ \/ wcRows'[n] = wcRows[n]
              \/ n \in KoNumbers /\ n = wcTies[t].of /\ wcRows'[n] = RowResolved(n, TieResolved(t))
  BY ResolveKeeps
<1> PICK n0 : n0 = wcTies[t].of
  OBVIOUS
<1> PICK tie : tie = TieResolved(t)
  OBVIOUS
<1>2. tie \in WcTie /\ n0 \in KoNumbers /\ n0 \in Numbers /\ tie.of = n0
  BY <1>1, TieResolvedIs, TieSides, CardFacts DEF WcTypeOK
<1>3. \A side \in Side : tie[side] \in AllTeams \cup {None}
  BY <1>2, TieSides DEF Side
<1>4. \A n \in KoNumbers : \A side \in Side : shown[n][side] \in AllTeams \cup {None}
  BY DEF Shown
<1> DEFINE full == [n \in KoNumbers |-> [side \in Side |->
                      IF n = n0 /\ shown[n][side] = None THEN tie[side] ELSE shown[n][side]]]
<1> PICK more : more = full
  OBVIOUS
<1>5. more \in Shown
  BY <1>3, <1>4 DEF Shown
<1>6. \A n \in KoNumbers : \A side \in Side :
        more[n][side] = IF n = n0 /\ shown[n][side] = None THEN tie[side] ELSE shown[n][side]
  OBVIOUS
<1> HIDE DEF full
<1>7. Extends(shown, more)
  BY <1>6 DEF Extends
<1>8. ResultsKept
  BY <1>1 DEF SameStructure, ResultsKept
\* what the tie resolves to is given by its label
<1>9. ASSUME NEW side \in Side, tie[side] # None
      PROVE  /\ tie[side] = more[n0][side]
             /\ shown[n0][side] = None => Gives(LabelOf(n0, side), tie[side], shown)
  <2>1. tie[side] = IF wcTies[t][side] = None THEN Resolves(SourceOf(wcTies[t], side)) ELSE wcTies[t][side]
    BY <1>1, SideResolved
  <2>2. wcTies[t][side] \in {None, shown[n0][side]}
    BY <1>1, <1>2 DEF ShowsOnly
  <2>3. CASE wcTies[t][side] # None
    BY <1>2, <1>6, <2>1, <2>2, <2>3
  <2>4. CASE wcTies[t][side] = None
    <3> PICK feed : feed = SourceOf(wcTies[t], side)
      OBVIOUS
    <3>1. Resolves(feed) # None /\ Resolves(feed) = tie[side]
      BY <1>9, <2>1, <2>4
    <3>2. feed # None
      BY <3>1 DEF Resolves
    <3>3. feed \in Sources
      <4>1. wcTies[t] \in WcTie
        BY <1>1 DEF WcTypeOK
      <4>2. wcTies[t].homeSource \in Sources \cup {None} /\ wcTies[t].awaySource \in Sources \cup {None}
        BY <4>1 DEF WcTie
      <4> QED
        BY <3>2, <4>2 DEF SourceOf
    <3>4. Matches(LabelOf(n0, side), feed, wcTies)
      BY <1>1, <3>2 DEF SourcesSound
    <3>5. Gives(LabelOf(n0, side), tie[side], shown)
      BY <1>2, <3>1, <3>3, <3>4, ResolvesGives
    <3>6. shown[n0][side] # None => shown[n0][side] = tie[side]
      <4>1. shown[n0][side] # None => Gives(LabelOf(n0, side), shown[n0][side], shown)
        BY <1>2 DEF ShowsOnly
      <4> QED
        BY <3>5, <4>1, OneTeamGiven
    <3> QED
      BY <1>2, <1>6, <3>5, <3>6
  <2> QED
    BY <2>3, <2>4
<1>10. ASSUME NEW n \in KoNumbers, NEW side \in Side
       PROVE  \A team : team \in {None, shown[n][side]} => team \in {None, more[n][side]}
  BY <1>6
<1>11. ASSUME NEW n \in KoNumbers, NEW side \in Side, wcRows'[n] # None
       PROVE  wcRows'[n][side] \in {None, more[n][side]}
  <2>0. n \in Numbers /\ wcRows[n] # None
    BY <1>1, <1>11, CardFacts DEF SameStructure
  <2>1. wcRows[n][side] \in {None, shown[n][side]}
    BY <2>0 DEF ShowsOnly
  <2>2. CASE wcRows'[n] = wcRows[n]
    BY <1>10, <2>1, <2>2
  <2>3. CASE n = n0 /\ wcRows'[n] = RowResolved(n, tie)
    <3>1. wcRows'[n][side] = IF tie[side] = None THEN wcRows[n][side] ELSE tie[side]
      BY <1>2, <2>0, <2>3, RowSideResolved
    <3> QED
      BY <1>9, <1>10, <2>1, <2>3, <3>1
  <2> QED
    BY <1>1, <2>0, <2>2, <2>3
<1>12. ASSUME NEW n \in KoNumbers, NEW side \in Side, NEW s \in DOMAIN wcTies', wcTies'[s].of = n
       PROVE  wcTies'[s][side] \in {None, more[n][side]}
  <2>0. s \in DOMAIN wcTies /\ wcTies[s].of = n
    BY <1>1, <1>12 DEF SameStructure
  <2>1. CASE s = t
    <3>1. n = n0 /\ wcTies'[s] = tie
      BY <1>1, <2>0, <2>1
    <3> QED
      BY <1>9, <3>1
  <2>2. CASE s # t
    <3>1. wcTies'[s] = wcTies[s] /\ wcTies[s][side] \in {None, shown[n][side]}
      BY <1>1, <2>0, <2>2 DEF ShowsOnly
    <3> QED
      BY <1>10, <3>1
  <2> QED
    BY <2>1, <2>2
<1>13. ASSUME NEW n \in KoNumbers, NEW side \in Side, seeding' # None, NEW i \in DOMAIN seeding',
              seeding'[i].to = "tie", seeding'[i].at = n
       PROVE  seeding'[i][side] \in {None, more[n][side]}
  <2>1. seeding' = seeding
    BY DEF TeamsResolved
  <2>2. seeding[i][side] \in {None, shown[n][side]}
    BY <1>13, <2>1 DEF ShowsOnly
  <2> QED
    BY <1>10, <2>1, <2>2
<1>14. ASSUME NEW n \in KoNumbers, NEW side \in Side, more[n][side] # None
       PROVE  Gives(LabelOf(n, side), more[n][side], more)'
  <2>1. Gives(LabelOf(n, side), more[n][side], shown)
    <3>1. CASE shown[n][side] # None
      BY <1>6, <3>1 DEF ShowsOnly
    <3>2. CASE shown[n][side] = None
      <4>1. n = n0 /\ more[n][side] = tie[side]
        BY <1>6, <1>14, <3>2
      <4> QED
        BY <1>9, <1>14, <3>2, <4>1
    <3> QED
      BY <3>1, <3>2
  <2> QED
    BY <1>7, <1>8, <1>14, <2>1, GivesStays
<1>15. ShowsOnly(more)'
  BY <1>11, <1>12, <1>13, <1>14 DEF ShowsOnly
<1> QED
  BY <1>5, <1>15 DEF TeamsStay

LEMMA ResolvedKeeps ==
    ASSUME WcInv, NEW t, TeamsResolved(t) PROVE WcInv'
<1>0. WcTypeOK /\ GroupTeamsStand /\ LinksSound /\ SourcesSound /\ TeamsStay /\ Phase
  BY DEF WcInv
<1>1. WcTypeOK' /\ GroupTeamsStand' /\ SameStructure
  BY <1>0, ResolveKeeps
<1>2. seeding' = seeding /\ rebuilt' = rebuilt
  BY DEF TeamsResolved
<1>3. LinksSound' /\ SourcesSound' /\ Phase'
  BY <1>0, <1>1, <1>2, LinksStay, SourcesStay, PhaseStays
<1>4. TeamsStay'
  BY <1>0, ResolveTeamsStay
<1> QED
  BY <1>1, <1>3, <1>4 DEF WcInv

LEMMA WcInvHolds ==
    /\ WorldCupInit => WcInv
    /\ WcInv /\ [WorldCupNext]_wcVars => WcInv'
<1>1. ASSUME WorldCupInit PROVE WcInv
  <2>1. /\ wcRows = [n \in Numbers |-> None] /\ groups = <<>> /\ wcTies = <<>>
        /\ seeding = None /\ ~rebuilt
    BY <1>1 DEF WorldCupInit
  <2>2. \A n \in Numbers : wcRows[n] = None
    BY <2>1
  <2>3. WcTypeOK
    <3>1. wcRows \in [Numbers -> WcRow \cup {None}] /\ wcTies \in Seq(WcTie) /\ DOMAIN groups = {}
      BY <2>1
    <3> QED
      BY <3>1 DEF WcTypeOK
  <2>4. DOMAIN wcTies = {}
    BY <2>1
  <2>5. GroupTeamsStand /\ LinksSound /\ SourcesSound
    BY <2>2, <2>4, CardFacts DEF GroupTeamsStand, LinksSound, SourcesSound
  <2>6. TeamsStay
    <3> DEFINE shown == [n \in KoNumbers |-> [side \in Side |-> None]]
    <3>1. shown \in Shown /\ \A n \in KoNumbers : \A side \in Side : shown[n][side] = None
      BY DEF Shown
    <3> HIDE DEF shown
    <3>2. ShowsOnly(shown)
      BY <2>1, <2>2, <2>4, <3>1, CardFacts DEF ShowsOnly
    <3> QED
      BY <3>1, <3>2 DEF TeamsStay
  <2>7. Phase
    BY <2>1 DEF Phase
  <2> QED
    BY <2>3, <2>5, <2>6, <2>7 DEF WcInv
<1>2. ASSUME WcInv, [WorldCupNext]_wcVars PROVE WcInv'
  <2>1. CASE UNCHANGED wcVars
    <3>1. UNCHANGED <<wcRows, groups, wcTies, seeding, rebuilt>>
      BY <2>1 DEF wcVars
    <3>2. WcTypeOK' /\ GroupTeamsStand' /\ LinksSound' /\ SourcesSound'
      BY <1>2, <3>1 DEF WcInv, WcTypeOK, GroupTeamsStand, LinksSound, SourcesSound, Matches
    <3>3. SameStructure
      BY <3>1 DEF SameStructure
    <3>4. Phase'
      BY <1>2, <3>1, <3>3, PhaseStays DEF WcInv
    <3>5. WcTypeOK /\ TeamsStay
      BY <1>2 DEF WcInv
    <3> PICK shown \in Shown : ShowsOnly(shown)
      BY <3>5 DEF TeamsStay
    <3>6. ResultsKept /\ SidesKept /\ TiesKept
      BY <3>1 DEF ResultsKept, SidesKept, TiesKept
    <3>7. ShowsOnly(shown)'
      BY <3>1, <3>5, <3>6, ShownStays
    <3> QED
      BY <3>2, <3>4, <3>7 DEF WcInv, TeamsStay
  <2>2. CASE SeedStarts
    BY <1>2, <2>2, SeedStartsKeeps
  <2>3. CASE SeedWrites
    BY <1>2, <2>3, SeedWritesKeeps
  <2>4. CASE SeedEnds
    BY <1>2, <2>4, SeedEndsKeeps
  <2>5. CASE SeedThrows
    BY <1>2, <2>5, SeedThrowsKeeps
  <2>6. ASSUME NEW n \in Numbers, MatchPlays(n) \/ Moved(n) PROVE WcInv'
    BY <1>2, <2>6, RobotKeeps
  <2>7. ASSUME NEW t, TeamsResolved(t) PROVE WcInv'
    BY <1>2, <2>7, ResolvedKeeps
  <2> QED
    BY <1>2, <2>1, <2>2, <2>3, <2>4, <2>5, <2>6, <2>7 DEF WorldCupNext
<1> QED
  BY <1>1, <1>2

-----------------------------------------------------------------------------
(* After a completed run, all is as the card says. *)

LEMMA PairCounts ==
    ASSUME NEW a, NEW b, a # b PROVE Cardinality({a, b}) = 2
<1>1. IsFiniteSet({a}) /\ Cardinality({a}) = 1
  BY FS_Singleton
<1>2. Cardinality({a} \cup {b}) = 2
  BY <1>1, FS_AddElement
<1>3. {a} \cup {b} = {a, b}
  OBVIOUS
<1> QED
  BY <1>2, <1>3

\* Two matches of a group share a matchday: the two of the same half of a pair of places.
LEMMA TwoShareMatchday ==
    ASSUME NEW r \in Rows, CardTeams(r), \A k \in Numbers : r[k] # None, NEW n \in GroupNumbers
    PROVE  LET l == Card[n].group
           IN Cardinality({k \in OfCard(l) :
                 Matchday(PlaceOf(r, k)) = Matchday(PlaceOf(r, n))}) = 2
<1> DEFINE l == Card[n].group
           own == OwnMatches(r, l)
           s == DateOrder(r, l)
           P(k) == PlaceOf(r, k)
           i == P(n)
           d == (i - 1) \div 2
<1>1. l \in Letters /\ own = OfCard(l) /\ n \in own
  BY CardFacts DEF OwnMatches, OfCard
<1>2. /\ Len(s) = Cardinality(OfCard(l)) /\ Len(s) \in Nat
      /\ \A k \in own : P(k) \in 1 .. Len(s) /\ s[P(k)] = k
      /\ \A j \in 1 .. Len(s) : s[j] \in own /\ P(s[j]) = j
  <2>1. /\ Len(s) = Cardinality(own) /\ Len(s) \in Nat
        /\ \A k \in own : P(k) \in 1 .. Len(s) /\ s[P(k)] = k
        /\ \A j \in 1 .. Len(s) : s[j] \in own /\ P(s[j]) = j
    BY <1>1, DateOrderIs
  <2> QED
    BY <1>1, <2>1
<1>3. Len(s) \in {2, 4, 6}
  BY <1>1, <1>2, WorldCupAssumption
<1> DEFINE size == Len(s)
<1>4. i \in 1 .. size /\ size \in Nat /\ (size = 2 \/ size = 4 \/ size = 6)
  BY <1>1, <1>2, <1>3
<1> HIDE DEF own, s, P, i, size
<1>5. d \in 0 .. 2 /\ 2 * d + 1 \in 1 .. size /\ 2 * d + 2 \in 1 .. size
      /\ (i = 2 * d + 1 \/ i = 2 * d + 2)
  <2>1. i \in Int /\ 1 <= i /\ i <= size /\ i <= 6
    BY <1>4
  <2>2. (i - 1) = 2 * d \/ (i - 1) = 2 * d + 1
    BY <2>1
  <2>3. d \in Int
    BY <2>1
  <2> HIDE DEF d
  <2> QED
    BY <1>4, <2>1, <2>2, <2>3
<1>6. \A j \in 1 .. size : (j - 1) \div 2 = d <=> (j = 2 * d + 1 \/ j = 2 * d + 2)
  <2> TAKE j \in 1 .. size
  <2>1. d \in Int /\ j \in Int
    BY <1>4, <1>5
  <2> HIDE DEF d
  <2> QED
    BY <2>1
<1>7. \A j \in 1 .. size : Matchday(j) = <<"groups", (j - 1) \div 2 + 1>>
  <2> TAKE j \in 1 .. size
  <2>1. j <= 6
    BY <1>4
  <2> QED
    BY <2>1 DEF Matchday
<1>8. \A j \in 1 .. size : Matchday(j) = Matchday(i) <=> (j - 1) \div 2 = d
  <2> TAKE j \in 1 .. size
  <2> DEFINE e == (j - 1) \div 2
  <2>1. e \in Int /\ d \in Int
    BY <1>4, <1>5
  <2>2. Matchday(j) = <<"groups", e + 1>> /\ Matchday(i) = <<"groups", d + 1>>
    BY <1>4, <1>7
  <2> HIDE DEF d, e
  <2>3. <<"groups", e + 1>> = <<"groups", d + 1>> <=> e + 1 = d + 1
    OBVIOUS
  <2>4. e + 1 = d + 1 <=> e = d
    BY <2>1
  <2>5. Matchday(j) = Matchday(i) <=> e = d
    BY <2>2, <2>3, <2>4
  <2> QED
    BY <2>5 DEF e
<1> DEFINE a == s[2 * d + 1]
           b == s[2 * d + 2]
<1>9. a \in own /\ b \in own /\ P(a) = 2 * d + 1 /\ P(b) = 2 * d + 2
  BY <1>2, <1>5 DEF size
<1>10. a # b
  <2>1. 2 * d + 1 # 2 * d + 2
    BY <1>5
  <2> QED
    BY <1>9, <2>1
<1>11. \A k \in own : Matchday(P(k)) = Matchday(i) <=> k \in {a, b}
  <2> TAKE k \in own
  <2>1. P(k) \in 1 .. size /\ s[P(k)] = k
    BY <1>2 DEF size
  <2>2. Matchday(P(k)) = Matchday(i) <=> (P(k) = 2 * d + 1 \/ P(k) = 2 * d + 2)
    BY <1>6, <1>8, <2>1
  <2> QED
    BY <1>9, <2>1, <2>2
<1> HIDE DEF a, b, d
<1>12. {k \in own : Matchday(P(k)) = Matchday(i)} = {a, b}
  BY <1>9, <1>11
<1>13. {k \in OfCard(l) : Matchday(PlaceOf(r, k)) = Matchday(PlaceOf(r, n))}
         = {k \in own : Matchday(P(k)) = Matchday(i)}
  BY <1>1 DEF P, i
<1> QED
  BY <1>10, <1>12, <1>13, PairCounts

\* What a completed run leaves of the groups.
LEMMA GroupsRecovered ==
    ASSUME WcInv, Complete, \A k \in Numbers : wcRows[k] # None, NEW n \in GroupNumbers
    PROVE  /\ wcRows[n].group = Card[n].group
           /\ Cardinality({k \in GroupNumbers : wcRows[k].group = wcRows[n].group
                                                  /\ wcRows[k].round = wcRows[n].round}) = 2
           /\ {wcRows[n].home, wcRows[n].away} \subseteq groups[wcRows[n].group]
<1> PICK r \in Rows : /\ StillThere(r) /\ TiesInOrder(r, Len(WritesOf(r)))
                      /\ \A i \in DOMAIN WritesOf(r) : Standing(WritesOf(r)[i])
  BY DEF Complete
<1>1. CardTeams(r) /\ \A k \in Numbers : r[k] # None
  BY StillCard DEF StillThere
<1>2. PICK m \in Nat : LaidOut(r, m)
  BY <1>1, WritesAre
<1>3. \A w \in HangsFrom(r) : Standing(w)
  BY <1>2 DEF LaidOut
<1>4. ASSUME NEW k \in GroupNumbers
      PROVE  /\ Card[k].group \in LettersRead(r) /\ k \in OwnMatches(r, Card[k].group)
             /\ wcRows[k].group = Card[k].group /\ wcRows[k].round = Matchday(PlaceOf(r, k))
  <2>1. k \in Numbers
    BY CardFacts
  <2>2. Card[k].group \in LettersRead(r) /\ k \in OwnMatches(r, Card[k].group)
    BY <1>1, <2>1 DEF LettersRead, OwnMatches, OfCard
  <2>3. WcMatchday(r, k) \in HangsFrom(r)
    BY <2>2 DEF HangsFrom, MatchdaySet
  <2> DEFINE w == WcMatchday(r, k)
  <2>4. w.to = "matchday" /\ w.at = k /\ w.group = Card[k].group /\ w.round = Matchday(PlaceOf(r, k))
    BY DEF WcMatchday
  <2>5. Standing(w)
    BY <1>3, <2>3
  <2> HIDE DEF w
  <2> QED
    BY <2>2, <2>4, <2>5 DEF Standing
<1> DEFINE l == Card[n].group
<1>5. {k \in GroupNumbers : wcRows[k].group = wcRows[n].group /\ wcRows[k].round = wcRows[n].round}
        = {k \in OfCard(l) : Matchday(PlaceOf(r, k)) = Matchday(PlaceOf(r, n))}
  BY <1>4 DEF OfCard
<1>6. Cardinality({k \in OfCard(l) : Matchday(PlaceOf(r, k)) = Matchday(PlaceOf(r, n))}) = 2
  BY <1>1, TwoShareMatchday
<1>7. ASSUME NEW c \in {wcRows[n].home, wcRows[n].away} PROVE c \in groups[l]
  <2>1. n \in Numbers /\ r[n].home = Card[n].home /\ r[n].away = Card[n].away
        /\ wcRows[n].home = Card[n].home /\ wcRows[n].away = Card[n].away
    BY <1>1, CardFacts DEF WcInv, GroupTeamsStand, CardTeams
  <2>2. l \in Letters /\ c \in TeamsOf(l)
    BY <2>1, CardFacts, WorldCupAssumption
  <2>3. c # None
    BY <2>2, CardFacts
  <2>4. c \in TeamSet(r, l)
    <3>1. c \in {r[n].home, r[n].away} /\ n \in OwnMatches(r, l)
      BY <1>4, <2>1
    <3>2. c \in UNION {{r[k].home, r[k].away} : k \in OwnMatches(r, l)}
      BY <3>1
    <3> QED
      BY <2>3, <3>2 DEF TeamSet
  <2>5. WcClub(l, c) \in HangsFrom(r)
    BY <1>4, <2>4 DEF HangsFrom, MemberSet
  <2> DEFINE w == WcClub(l, c)
  <2>6. w.to = "club" /\ w.group = l /\ w.club = c
    BY DEF WcClub
  <2>7. Standing(w)
    BY <1>3, <2>5
  <2> HIDE DEF w
  <2> QED
    BY <2>6, <2>7 DEF Standing
<1> QED
  BY <1>4, <1>5, <1>6, <1>7

\* What a completed run leaves of the knockout: every match linked to its own tie, and to
\* no other, and every tie fed by the labels of the card.
KoRecovered(r) ==
    \A n \in KoNumbers :
       /\ wcRows[n].tie \in DOMAIN wcTies /\ wcTies[wcRows[n].tie].of = n
       /\ LinkedTo(wcRows[n].tie) = {n}
       /\ \A side \in Side : SourceOf(wcTies[wcRows[n].tie], side) = FedBy(r, n, side)

LEMMA KnockoutRecovered ==
    ASSUME WcInv, \A k \in Numbers : wcRows[k] # None, NEW r \in Rows, StillThere(r),
           \A i \in DOMAIN WritesOf(r) : Standing(WritesOf(r)[i])
    PROVE  KoRecovered(r)
<1>1. CardTeams(r) /\ \A k \in Numbers : r[k] # None
  BY StillCard DEF StillThere
<1>2. PICK m \in Nat : LaidOut(r, m)
  BY <1>1, WritesAre
<1>3. \A w \in SecondSet(r) : Standing(w)
  BY <1>2 DEF LaidOut
<1>4. \A n \in KoNumbers : n \in Numbers /\ n \in KoSet(r)
  BY <1>1, CardFacts DEF KoSet
<1>5. ASSUME NEW n \in KoNumbers
      PROVE  /\ wcRows[n].tie # None /\ wcRows[n].tie \in DOMAIN wcTies /\ wcTies[wcRows[n].tie].of = n
  <2> DEFINE w == WcLeg(n)
  <2>1. w.to = "leg" /\ w.at = n
    BY DEF WcLeg
  <2>2. Standing(w)
    <3>1. w \in SecondSet(r)
      BY <1>4 DEF SecondSet
    <3> QED
      BY <1>3, <3>1
  <2> HIDE DEF w
  <2>3. wcRows[n].tie # None
    BY <2>1, <2>2 DEF Standing
  <2> QED
    BY <1>4, <2>3 DEF WcInv, LinksSound
<1>6. ASSUME NEW n \in KoNumbers PROVE LinkedTo(wcRows[n].tie) = {n}
  <2>1. ASSUME NEW k \in LinkedTo(wcRows[n].tie) PROVE k = n
    <3>1. k \in KoNumbers /\ wcRows[k].tie = wcRows[n].tie
      BY <2>1 DEF LinkedTo
    <3> QED
      BY <1>5, <3>1
  <2>2. n \in LinkedTo(wcRows[n].tie)
    BY <1>4 DEF LinkedTo
  <2> QED
    BY <2>1, <2>2
<1>7. ASSUME NEW n \in KoNumbers, NEW side \in Side
      PROVE  SourceOf(wcTies[wcRows[n].tie], side) = FedBy(r, n, side)
  <2> DEFINE w == FeedersWrite(r, n)
  <2>1. w.to = "feeders" /\ w.at = n
    BY DEF FeedersWrite
  <2>2. Standing(w)
    <3>1. w \in SecondSet(r)
      BY <1>4 DEF SecondSet
    <3> QED
      BY <1>3, <3>1
  <2>3. FedBy(r, n, side) = IF side = "home" THEN w.homeSource ELSE w.awaySource
    BY DEF FedBy
  <2> HIDE DEF w
  <2>4. \A t \in DOMAIN wcTies : wcTies[t].of = n =>
          wcTies[t].homeSource = w.homeSource /\ wcTies[t].awaySource = w.awaySource
    BY <2>1, <2>2 DEF Standing
  <2> QED
    BY <1>5, <2>3, <2>4 DEF SourceOf
<1> QED
  BY <1>5, <1>6, <1>7 DEF KoRecovered

\* What the tie of a match resolves to is what its label says.
LEMMA ResolvesSays ==
    ASSUME WcInv, \A k \in Numbers : wcRows[k] # None, NEW r \in Rows, StillThere(r), KoRecovered(r),
           TiesInOrder(r, Len(WritesOf(r))), NEW n \in KoNumbers, NEW side \in Side
    PROVE  LET fed == FedBy(r, n, side)
           IN /\ fed \in Sources /\ Matches(LabelOf(n, side), fed, wcTies)
              /\ Resolves(fed) = Says(LabelOf(n, side))
<1> DEFINE label == LabelOf(n, side)
           tie == wcTies[wcRows[n].tie]
<1>0. WcTypeOK /\ LinksSound /\ SourcesSound
  BY DEF WcInv
<1>1. \A k \in Numbers : r[k] # None
  BY DEF StillThere
<1> PICK fed : fed = FedBy(r, n, side)
  OBVIOUS
<1>2. fed # None /\ (label.says = "third" => fed.faces # None)
  BY <1>1, FedByAll
<1>3. fed = SourceOf(tie, side) /\ tie.of = n /\ wcRows[n].tie \in DOMAIN wcTies
  BY DEF KoRecovered
<1>4. Matches(label, fed, wcTies)
  BY <1>0, <1>2, <1>3 DEF SourcesSound
<1>5. fed \in Sources
  <2>1. tie \in WcTie
    BY <1>0, <1>3 DEF WcTypeOK
  <2>2. tie.homeSource \in Sources \cup {None} /\ tie.awaySource \in Sources \cup {None}
    BY <2>1 DEF WcTie
  <2> QED
    BY <1>2, <1>3, <2>2 DEF SourceOf
<1>6. CASE label.says = "place"
  <2>1. fed.type = "place" /\ fed.group = label.group /\ fed.position = label.position
    BY <1>4, <1>6 DEF Matches
  <2>2. Resolves(fed) = IF GroupPlayed(fed.group) THEN TableOf[fed.group][fed.position] ELSE None
    BY <1>2, <2>1 DEF Resolves
  <2>3. Says(label) = IF GroupPlayed(label.group) THEN TableOf[label.group][label.position] ELSE None
    BY <1>6 DEF Says
  <2> QED
    BY <1>4, <1>5, <2>1, <2>2, <2>3
<1>7. CASE label.says = "third"
  <2>1. fed.type = "third" /\ fed.groups = label.groups /\ fed.faces # None
    BY <1>2, <1>4, <1>7 DEF Matches
  <2>2. Resolves(fed) = IF fed.faces # None /\ \A l \in Letters : GroupPlayed(l)
                          THEN TableOf[CHOOSE l \in fed.groups : TRUE][3] ELSE None
    BY <1>2, <2>1 DEF Resolves
  <2>3. Says(label) = IF \A l \in Letters : GroupPlayed(l)
                        THEN TableOf[CHOOSE l \in label.groups : TRUE][3] ELSE None
    BY <1>7 DEF Says
  <2> QED
    BY <1>4, <1>5, <2>1, <2>2, <2>3
<1>8. CASE label.says \in {"winner", "loser"}
  <2> PICK k : k = label.match
    OBVIOUS
  <2> PICK t : t = fed.tie
    OBVIOUS
  <2>1. k \in KoNumbers /\ k \in Numbers
    BY <1>8, LabelKinds, CardFacts
  <2>2. fed.type = label.says /\ t \in DOMAIN wcTies /\ wcTies[t].of = k
    BY <1>4, <1>8 DEF Matches
  <2>3. wcRows[k].tie \in DOMAIN wcTies /\ wcTies[wcRows[k].tie].of = k /\ LinkedTo(wcRows[k].tie) = {k}
    BY <2>1 DEF KoRecovered
  <2>4. wcRows[k].tie = t
    <3> PICK s : s = wcRows[k].tie
      OBVIOUS
    <3>1. \A x \in DOMAIN wcTies : wcTies[x].of = KoRead(r)[x]
      BY DEF TiesInOrder
    <3>2. \A i, j \in 1 .. Len(KoRead(r)) : KoRead(r)[i] = KoRead(r)[j] => i = j
      BY KoReadIs
    <3>3. DOMAIN wcTies = 1 .. Len(KoRead(r))
      <4>1. CardTeams(r)
        BY StillCard
      <4>2. PICK m \in Nat : LaidOut(r, m)
        BY <4>1, WritesAre
      <4> DEFINE base == TieBase(r)
                 count == Len(KoRead(r))
                 all == Len(WritesOf(r))
                 by == TiesBy(r, all)
      <4>3. base \in Nat /\ count \in Nat /\ all \in Nat /\ base + count <= all
        BY <4>2 DEF LaidOut
      <4>4. by = IF all <= base THEN 0 ELSE IF all <= base + count THEN all - base ELSE count
        BY DEF TiesBy
      <4>5. Len(wcTies) = by /\ DOMAIN wcTies = 1 .. Len(wcTies)
        BY <1>0 DEF TiesInOrder, WcTypeOK
      <4> HIDE DEF base, all, by, count
      <4>6. by = count
        BY <4>3, <4>4
      <4> QED
        BY <4>5, <4>6 DEF count
    <3>4. s \in DOMAIN wcTies /\ KoRead(r)[s] = k /\ KoRead(r)[t] = k
      BY <2>2, <2>3, <3>1
    <3> QED
      BY <2>2, <3>2, <3>3, <3>4
  <2>5. LinkedTo(t) = {k}
    BY <2>3, <2>4
  <2>6. OnlyLeg(t) = k
    BY <2>5 DEF OnlyLeg
  <2>7. Resolves(fed) = IF label.says = "winner" THEN WinnerOf(k) ELSE LoserOf(k)
    BY <1>2, <1>8, <2>2, <2>5, <2>6 DEF Resolves
  <2>8. Says(label) = IF label.says = "winner" THEN WinnerOf(k) ELSE LoserOf(k)
    BY <1>8 DEF Says
  <2> QED
    BY <1>4, <1>5, <2>7, <2>8
<1> QED
  BY <1>6, <1>7, <1>8, LabelKinds

\* Once the bracket is resolved, a match shows what its labels say.
LEMMA LabelsRecovered ==
    ASSUME WcInv, \A k \in Numbers : wcRows[k] # None, NEW r \in Rows, StillThere(r), KoRecovered(r),
           TiesInOrder(r, Len(WritesOf(r))), AllResolved, NEW n \in KoNumbers, NEW side \in Side
    PROVE  Says(LabelOf(n, side)) \in {None, wcRows[n][side]}
<1> PICK fed : fed = FedBy(r, n, side)
  OBVIOUS
<1> PICK t : t = wcRows[n].tie
  OBVIOUS
<1>0. WcTypeOK /\ LinksSound /\ SourcesSound /\ TeamsStay
  BY DEF WcInv
<1>1. fed \in Sources /\ Matches(LabelOf(n, side), fed, wcTies) /\ Resolves(fed) = Says(LabelOf(n, side))
  BY ResolvesSays
<1>2. t \in DOMAIN wcTies /\ wcTies[t].of = n /\ LinkedTo(t) = {n} /\ SourceOf(wcTies[t], side) = fed
  BY DEF KoRecovered
<1>3. TieResolved(t) = wcTies[t] /\ RowResolved(n, wcTies[t]) = wcRows[n]
  BY <1>2 DEF AllResolved
<1>4. n \in Numbers /\ wcRows[n] # None /\ wcTies[t] \in WcTie
  BY <1>0, <1>2, CardFacts DEF WcTypeOK
<1> SUFFICES ASSUME Resolves(fed) # None
             PROVE  wcRows[n][side] = Resolves(fed)
  BY <1>1
<1>5. wcTies[t][side] # None
  <2>1. wcTies[t][side] = IF wcTies[t][side] = None THEN Resolves(SourceOf(wcTies[t], side)) ELSE wcTies[t][side]
    BY <1>0, <1>2, <1>3, SideResolved
  <2> QED
    BY <1>2, <2>1
<1>6. wcRows[n][side] = wcTies[t][side]
  <2>1. wcRows[n][side] = IF wcTies[t][side] = None THEN wcRows[n][side] ELSE wcTies[t][side]
    <3>1. RowResolved(n, wcTies[t])[side]
            = IF wcTies[t][side] = None THEN wcRows[n][side] ELSE wcTies[t][side]
      BY <1>0, <1>4, RowSideResolved
    <3> QED
      BY <1>3, <3>1
  <2> QED
    BY <1>5, <2>1
<1> PICK shown \in Shown : ShowsOnly(shown)
  BY <1>0 DEF TeamsStay
<1>7. wcTies[t][side] = shown[n][side]
  BY <1>2, <1>5 DEF ShowsOnly
<1>8. Gives(LabelOf(n, side), shown[n][side], shown)
  BY <1>5, <1>7 DEF ShowsOnly
<1>9. Gives(LabelOf(n, side), Resolves(fed), shown)
  BY <1>0, <1>1, ResolvesGives
<1> QED
  BY <1>6, <1>7, <1>8, <1>9, OneTeamGiven

LEMMA InvRecovers ==
    ASSUME WcInv PROVE RebuildRecovers
<1> SUFFICES ASSUME seeding = None, rebuilt, \A n \in Numbers : wcRows[n] # None
             PROVE  /\ \A n \in GroupNumbers :
                         /\ wcRows[n].group = Card[n].group
                         /\ Cardinality({k \in GroupNumbers : wcRows[k].group = wcRows[n].group
                                                                /\ wcRows[k].round = wcRows[n].round}) = 2
                         /\ {wcRows[n].home, wcRows[n].away} \subseteq groups[wcRows[n].group]
                    /\ \A l \in DOMAIN groups : groups[l] \subseteq TeamsOf(l)
                    /\ \A n \in KoNumbers : LinkedTo(wcRows[n].tie) = {n}
                    /\ AllResolved =>
                         \A n \in KoNumbers :
                            /\ Says(Card[n].homeFrom) \in {None, wcRows[n].home}
                            /\ Says(Card[n].awayFrom) \in {None, wcRows[n].away}
  BY DEF RebuildRecovers
<1>1. Complete /\ WcTypeOK
  BY DEF WcInv, Phase
<1> PICK r \in Rows : /\ StillThere(r) /\ TiesInOrder(r, Len(WritesOf(r)))
                      /\ \A i \in DOMAIN WritesOf(r) : Standing(WritesOf(r)[i])
  BY <1>1 DEF Complete
<1>2. KoRecovered(r)
  BY KnockoutRecovered
<1>3. ASSUME AllResolved, NEW n \in KoNumbers
      PROVE  /\ Says(Card[n].homeFrom) \in {None, wcRows[n].home}
             /\ Says(Card[n].awayFrom) \in {None, wcRows[n].away}
  <2>1. \A side \in Side : Says(LabelOf(n, side)) \in {None, wcRows[n][side]}
    BY <1>2, <1>3, LabelsRecovered
  <2>2. wcRows[n] \in WcRow
    BY <1>1, CardFacts DEF WcTypeOK
  <2>3. wcRows[n]["home"] = wcRows[n].home /\ wcRows[n]["away"] = wcRows[n].away
    BY <2>2, RowSides
  <2>4. LabelOf(n, "home") = Card[n].homeFrom /\ LabelOf(n, "away") = Card[n].awayFrom
    BY DEF LabelOf
  <2> QED
    BY <2>1, <2>3, <2>4 DEF Side
<1>4. \A l \in DOMAIN groups : groups[l] \subseteq TeamsOf(l)
  BY <1>1 DEF WcTypeOK
<1>5. \A n \in KoNumbers : LinkedTo(wcRows[n].tie) = {n}
  BY <1>2 DEF KoRecovered
<1>6. \A n \in GroupNumbers :
         /\ wcRows[n].group = Card[n].group
         /\ Cardinality({k \in GroupNumbers : wcRows[k].group = wcRows[n].group
                                                /\ wcRows[k].round = wcRows[n].round}) = 2
         /\ {wcRows[n].home, wcRows[n].away} \subseteq groups[wcRows[n].group]
  BY <1>1, GroupsRecovered
<1> QED
  BY <1>3, <1>4, <1>5, <1>6

\* prisma/seed.ts and prisma/seed-wc-structure.ts: whatever the runs before it left, a run that
\* completes on all the matches leaves each in the structure, two of each group on a matchday, and
\* once the bracket is resolved every knockout match shows the teams its labels call for.
THEOREM RebuildAlwaysRecovers == WorldCupSpec => []RebuildRecovers
<1>1. WorldCupInit => WcInv
  BY WcInvHolds
<1>2. WcInv /\ [WorldCupNext]_wcVars => WcInv'
  BY WcInvHolds
<1>3. WcInv => RebuildRecovers
  BY InvRecovers
<1> QED
  BY <1>1, <1>2, <1>3, PTL DEF WorldCupSpec

=============================================================================
