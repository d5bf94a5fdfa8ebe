---------------------------- MODULE TimelinePage ----------------------------
(***************************************************************************)
(* The page of a match's timeline (matches/timeline.service.ts): the       *)
(* events the robot has stored, in the order the database returns them,    *)
(* put in the order they were played, with the two halves of each stoppage *)
(* told once.  MatchFeed has how the events are stored.                    *)
(***************************************************************************)
EXTENDS Common, SequencesExt

CONSTANT PageEvents  \* the events that may be stored: by id, [type, period, base, added,
                     \* clock, detail] with the minute displayed as base + added, the
                     \* base None without one, and the clock in minutes

ASSUME TimelineAssumption ==
    \A e \in DOMAIN PageEvents :
       /\ PageEvents[e].period \in Nat /\ PageEvents[e].base \in Nat \cup {None}
       /\ PageEvents[e].added \in 0 .. 99 /\ PageEvents[e].clock \in Nat

Ids == DOMAIN PageEvents
TypeOf(e) == PageEvents[e].type
Period(e) == PageEvents[e].period

VARIABLES
    stored, \* the rows, in the order the database returns them
    page    \* the page last served: by period, the rows shown; None before the first

pageVars == <<stored, page>>

PageInit == stored = <<>> /\ page = None

-----------------------------------------------------------------------------
(* Faulty variants, for testing the property. *)

\* the clock, which stands at 90:00 through stoppage time
ClockOrder(e) == PageEvents[e].clock * 100

-----------------------------------------------------------------------------
(* forMatch. *)

MinuteOrder(e) ==
    IF PageEvents[e].base = None THEN PageEvents[e].clock * 100
      ELSE PageEvents[e].base * 100 + PageEvents[e].added
EndLast(e) == IF TypeOf(e) = "PERIOD_END" THEN 1 ELSE 0

\* The sort keys, the first first.
SortKeys(e) == <<Period(e), EndLast(e), MinuteOrder(e), PageEvents[e].clock>>
Precedes(e, f) ==
    \E k \in DOMAIN SortKeys(e) :
       /\ SortKeys(e)[k] < SortKeys(f)[k]
       /\ \A j \in 1 .. k - 1 : SortKeys(e)[j] = SortKeys(f)[j]

\* The sort is stable: what the keys leave equal stays as the database returned it.
Ahead(rows) ==
    [i \in DOMAIN rows |->
       {j \in DOMAIN rows : Precedes(rows[j], rows[i]) \/ (~Precedes(rows[i], rows[j]) /\ j < i)}]
Ordered(rows) == [n \in DOMAIN rows |-> rows[InOrder(Ahead(rows))[n]]]

IsGeneric(detail) == detail \in {None, "Jogo paralisado"}
SameMinute(e, f) == PageEvents[e].base = PageEvents[f].base /\ PageEvents[e].added = PageEvents[f].added

Row(e) == [event |-> e, detail |-> PageEvents[e].detail]

\* the reason of a delay already shown, given another of that minute
Kept(row, e) ==
    IF IsGeneric(row.detail) /\ ~IsGeneric(PageEvents[e].detail)
      THEN [row EXCEPT !.detail = PageEvents[e].detail] ELSE row

\* A start only opens its period; a delay of a minute already shown joins its row.
Shown(rows, e) ==
    LET same == {i \in DOMAIN rows : /\ TypeOf(e) = "DELAY" /\ TypeOf(rows[i].event) = "DELAY"
                                     /\ SameMinute(rows[i].event, e)}
    IN IF TypeOf(e) = "PERIOD_START" THEN rows
         ELSE IF same = {} THEN Append(rows, Row(e))
         ELSE [rows EXCEPT ![Min(same)] = Kept(@, e)]

\* The section of a period, event by event.
RowsOf(rows, p) ==
    LET ordered == Ordered(rows)
        shown[n \in 0 .. Len(rows)] ==
          IF n = 0 THEN <<>>
            ELSE IF Period(ordered[n]) = p THEN Shown(shown[n - 1], ordered[n]) ELSE shown[n - 1]
    IN shown[Len(rows)]

\* Without any event but starts there is no page yet.
ForMatch(rows) ==
    IF \A i \in DOMAIN rows : TypeOf(rows[i]) = "PERIOD_START" THEN <<>>
      ELSE [p \in {Period(rows[i]) : i \in DOMAIN rows} |-> RowsOf(rows, p)]

Serve ==
    /\ page' = ForMatch(stored)
    /\ UNCHANGED stored

\* The database sorts by period and clock; rows equal in both come in any order.
DbOrder(rows) ==
    \A i, j \in DOMAIN rows :
       i < j => \/ Period(rows[i]) < Period(rows[j])
                \/ /\ Period(rows[i]) = Period(rows[j])
                   /\ PageEvents[rows[i]].clock <= PageEvents[rows[j]].clock

\* The robot stores an event, late or not.
EventStored ==
    /\ \E e \in Ids \ ToSet(stored), i \in 1 .. Len(stored) + 1 :
         stored' = InsertAt(stored, i, e)
    /\ DbOrder(stored')
    /\ page' = None

PageNext == Serve \/ EventStored

PageSpec == PageInit /\ [][PageNext]_pageVars

-----------------------------------------------------------------------------
(* Properties. *)

\* However late the events came and however the database broke its ties, the page
\* tells every event once and in the order of the minutes shown, with the whistle at
\* the end of its period; of the stoppages of one minute there is one row, with a
\* reason whenever one of them has one.
PageTellsTheMatch ==
    (page # None /\ page # <<>>) =>
       /\ DOMAIN page = {Period(e) : e \in ToSet(stored)}
       /\ \A p \in DOMAIN page :
            LET events == {e \in ToSet(stored) : Period(e) = p /\ TypeOf(e) # "PERIOD_START"}
                told == [i \in DOMAIN page[p] |-> page[p][i].event]
            IN /\ \A e \in events :
                    Cardinality({i \in DOMAIN told :
                       told[i] = e \/ /\ TypeOf(e) = "DELAY" /\ TypeOf(told[i]) = "DELAY"
                                      /\ SameMinute(told[i], e)}) = 1
               /\ \A i, j \in DOMAIN told :
                    i < j => \/ TypeOf(told[j]) = "PERIOD_END"
                             \/ /\ TypeOf(told[i]) # "PERIOD_END"
                                /\ None \notin {PageEvents[told[i]].base, PageEvents[told[j]].base} =>
                                     /\ PageEvents[told[i]].base <= PageEvents[told[j]].base
                                     /\ PageEvents[told[i]].base = PageEvents[told[j]].base =>
                                          PageEvents[told[i]].added <= PageEvents[told[j]].added
               /\ \A i \in DOMAIN told, e \in events :
                    (/\ TypeOf(told[i]) = "DELAY" /\ TypeOf(e) = "DELAY"
                     /\ SameMinute(told[i], e) /\ ~IsGeneric(PageEvents[e].detail)) =>
                      ~IsGeneric(page[p][i].detail)
=============================================================================
