------------------------------ MODULE PoolRuns ------------------------------
(***************************************************************************)
(* The temporadas of a pool (PoolsService.createRun, startRun, endRun):    *)
(* each is a window of time in which the matches of a season count.  Every *)
(* operation checks first and writes later, without a transaction; that    *)
(* the actor manages the pool is PoolMembers' concern, and the number and  *)
(* the label a temporada is shown with are left out.                       *)
(***************************************************************************)
EXTENDS Common

CONSTANTS
    MaxRuns,     \* bound on the temporadas of the pool
    MaxTime      \* bound on the clock

ASSUME PoolRunsAssumption ==
    /\ MaxRuns \in Nat /\ MaxTime \in Nat
    /\ None \notin Nat

Time == 0..MaxTime
Run == [id : 1..MaxRuns, status : {"DRAFT", "ACTIVE", "ENDED"},
        startAt : Time \cup {None}, endAt : Time \cup {None}]

VARIABLES
    now,       \* the server's clock
    runs,      \* the temporadas in the database
    requests,  \* the requests between a read and their write
    raced      \* history: two creations, or two requests on a temporada,
               \* overlapped

runsVars == <<now, runs, requests, raced>>

Ids == {r.id : r \in runs}
FreeId == CHOOSE i \in 1..MaxRuns : i \notin Ids
\* The key of a request tells it from any other being served.
FreeKey == CHOOSE k \in 1..MaxInFlight : \A q \in requests : q.key # k
\* Points count for the matches whose kickoff is in the window (startAt, endAt].
Covers(r, t) ==
    /\ r.startAt # None
    /\ t > r.startAt
    /\ r.endAt = None \/ t <= r.endAt

RunsInit == now = 0 /\ runs = {} /\ requests = {} /\ raced = FALSE

-----------------------------------------------------------------------------
(* Faulty variants, for testing the properties. *)

\* a temporada is taken for closed as soon as it runs
OpenIfDraft == {r \in runs : r.status = "DRAFT"}

-----------------------------------------------------------------------------
(* createRun *)

OpenRuns == {r \in runs : r.endAt = None}

\* The check that no temporada is open.
CreateChecked(start) ==
    /\ Cardinality(requests) < MaxInFlight
    /\ OpenRuns = {}
    /\ requests' = requests \cup
            {[op |-> "create", key |-> FreeKey, start |-> start]}
    /\ UNCHANGED <<now, runs, raced>>

Races(q) ==
    \E o \in requests \ {q} : \/ q.op = "create" /\ o.op = "create"
                              \/ /\ "create" \notin {q.op, o.op}
                                 /\ q.id = o.id
Witnessed(q) == raced' = (raced \/ Races(q))

Created(q) ==
    /\ q.op = "create"
    /\ Ids # 1..MaxRuns
    /\ runs' = runs \cup
         {[id |-> FreeId, endAt |-> None,
           status |-> IF q.start THEN "ACTIVE" ELSE "DRAFT",
           startAt |-> IF q.start THEN now ELSE None]}
    /\ requests' = requests \ {q}
    /\ Witnessed(q)
    /\ UNCHANGED now

-----------------------------------------------------------------------------
(* startRun and endRun *)

MayStart(r) == r.status = "DRAFT"
MayEnd(r) == r.status = "ACTIVE"

StartChecked(r) ==
    /\ Cardinality(requests) < MaxInFlight
    /\ MayStart(r)
    /\ requests' = requests \cup {[op |-> "start", key |-> FreeKey, id |-> r.id]}
    /\ UNCHANGED <<now, runs, raced>>

EndChecked(r) ==
    /\ Cardinality(requests) < MaxInFlight
    /\ MayEnd(r)
    /\ requests' = requests \cup {[op |-> "end", key |-> FreeKey, id |-> r.id]}
    /\ UNCHANGED <<now, runs, raced>>

StartedRun(r) == [r EXCEPT !.status = "ACTIVE", !.startAt = now]
EndedRun(r) == [r EXCEPT !.status = "ENDED", !.endAt = now]

Started(q) ==
    /\ q.op = "start"
    /\ runs' = {IF r.id = q.id THEN StartedRun(r) ELSE r : r \in runs}
    /\ requests' = requests \ {q}
    /\ Witnessed(q)
    /\ UNCHANGED now

Ended(q) ==
    /\ q.op = "end"
    /\ runs' = {IF r.id = q.id THEN EndedRun(r) ELSE r : r \in runs}
    /\ requests' = requests \ {q}
    /\ Witnessed(q)
    /\ UNCHANGED now

Tick ==
    /\ now < MaxTime
    /\ now' = now + 1
    /\ UNCHANGED <<runs, requests, raced>>

RunsNext ==
    \/ \E start \in BOOLEAN : CreateChecked(start)
    \/ \E r \in runs : StartChecked(r) \/ EndChecked(r)
    \/ \E q \in requests : Created(q) \/ Started(q) \/ Ended(q)
    \/ Tick

RunsSpec == RunsInit /\ [][RunsNext]_runsVars

-----------------------------------------------------------------------------
(* Properties. *)

\* Types; ids are keys; the status tells which stamps are set.
RunsTypeOK ==
    /\ now \in Time
    /\ runs \subseteq Run
    /\ raced \in BOOLEAN
    /\ \A r, q \in runs : r.id = q.id => r = q
    /\ ~raced => \A r \in runs : /\ r.status = "DRAFT" <=> r.startAt = None
                                 /\ r.status = "ENDED" <=> r.endAt # None

\* A pool has at most one open temporada, unless two creations overlap.
OneOpenRun ==
    ~raced => \A r, q \in runs : r.endAt = None /\ q.endAt = None => r = q

\* No match counts twice for the pool: the windows of its temporadas are
\* disjoint, the one that closes and the one that opens in the same instant
\* included.
WindowsDisjoint ==
    ~raced => \A t \in 0..(MaxTime + 1), r, q \in runs :
                  Covers(r, t) /\ Covers(q, t) => r = q

\* A temporada that was closed never changes again: its window is frozen, and
\* with it the matches its champion is decided by, unless two requests on it
\* overlap.
ClosedIsFrozen ==
    [][\A r \in runs : r.endAt # None /\ ~raced' => r \in runs']_runsVars

=============================================================================
