----------------------------- MODULE JobsProofs -----------------------------
(***************************************************************************)
(* The robots that run on a clock: the nightly dump, for any retention of  *)
(* a day or more and any number of nights; the client of ESPN, for any     *)
(* callers, pauses and answers; the reminders, for any users, runs and     *)
(* changes of the match; the watchdog, for any robots and threshold; the   *)
(* timeline of a match, for any events, plays and players, and its page,   *)
(* for any events stored in any order.                                     *)
(***************************************************************************)
EXTENDS Backups, EspnClient, Reminders, Monitor, MatchFeed, TimelinePage, NumberProofs,
        FiniteSetTheorems, TLAPS

-----------------------------------------------------------------------------
(* The dump.  What is deleted is measured from the night of the deletion,   *)
(* so the invariant relates that night to a dump the run stored before.     *)

LeftOfRun == {Steps, <<"put", "prune">>, <<"prune">>, <<>>}

BackupsTypeOK ==
    /\ night \in Nat
    /\ dumped \subseteq Nat
    /\ backup # None => backup \in [left : LeftOfRun, of : Nat]

\* A run deletes on the night it stored its dump, or on the next.
PruneFollowsPut ==
    Does("prune") => backup.of \in dumped /\ night <= backup.of + 1

BackupsInv == BackupsTypeOK /\ PruneFollowsPut /\ LastDumpsStand

LEMMA TailOfRun ==
    ASSUME NEW left \in LeftOfRun, left # <<>>
    PROVE  /\ Tail(left) \in LeftOfRun
           /\ Head(left) = "dump" => Tail(left) # <<>> /\ Head(Tail(left)) = "put"
           /\ Head(left) = "prune" => Tail(left) = <<>>
<1>1. CASE left = Steps
  BY <1>1 DEF Steps, LeftOfRun
<1>2. CASE left = <<"put", "prune">>
  BY <1>2 DEF LeftOfRun
<1>3. CASE left = <<"prune">>
  BY <1>3 DEF LeftOfRun
<1> QED
  BY <1>1, <1>2, <1>3 DEF LeftOfRun

\* What a step leaves of the run.
LEMMA RunProceeds ==
    ASSUME BackupsTypeOK, NEW step, Does(step), Proceeds
    PROVE  /\ backup.left \in LeftOfRun /\ backup.left # <<>> /\ Head(backup.left) = step
           /\ backup' = [left |-> Tail(backup.left), of |-> night]
           /\ backup' \in [left : LeftOfRun, of : Nat]
BY TailOfRun DEF BackupsTypeOK, Does, Proceeds

LEMMA BackupsInitInv == BackupsInit => BackupsInv
BY DEF BackupsInit, BackupsInv, BackupsTypeOK, PruneFollowsPut, LastDumpsStand, Does

LEMMA BackupsStepInv == BackupsInv /\ [BackupsNext]_backupsVars => BackupsInv'
<1> SUFFICES ASSUME BackupsInv, [BackupsNext]_backupsVars PROVE BackupsInv'
  OBVIOUS
<1> USE BackupsAssumption DEF BackupsInv
<1>1. CASE UNCHANGED backupsVars
  BY <1>1 DEF backupsVars, BackupsTypeOK, PruneFollowsPut, LastDumpsStand, Does
<1>2. CASE BackupStarts
  BY <1>2 DEF BackupStarts, BackupsTypeOK, PruneFollowsPut, LastDumpsStand, Does, LeftOfRun, Steps
<1>3. CASE Dump
  <2>1. Does("dump") /\ Proceeds /\ UNCHANGED <<night, dumps, dumped>>
    BY <1>3 DEF Dump
  <2>2. BackupsTypeOK' /\ ~Does("prune")'
    BY <2>1, RunProceeds, TailOfRun DEF BackupsTypeOK, Does
  <2> QED
    BY <2>1, <2>2 DEF PruneFollowsPut, LastDumpsStand
<1>4. CASE Put
  <2>1. backup' \in [left : LeftOfRun, of : Nat] /\ backup'.of = night /\ night' = night
    BY <1>4, RunProceeds DEF Put
  <2>2. dumped' = dumped \cup {night} /\ dumps' = dumps \cup {night}
    BY <1>4 DEF Put
  <2> QED
    BY <2>1, <2>2 DEF BackupsTypeOK, PruneFollowsPut, LastDumpsStand
<1>5. CASE Prune
  <2>1. PICK gone \in SUBSET Expired :
          dumps' = dumps \ gone /\ (Proceeds \/ backup' = None)
    BY <1>5 DEF Prune
  <2>2. night' = night /\ dumped' = dumped /\ Does("prune")
    BY <1>5 DEF Prune
  <2>3. BackupsTypeOK' /\ ~Does("prune")'
    BY <2>1, <2>2, RunProceeds, TailOfRun DEF BackupsTypeOK, Does
  <2>4. ASSUME NEW n \in dumped, \A m \in dumped : m < n + RetentionDays PROVE n \notin gone
    <3>1. backup.of < n + RetentionDays /\ night <= backup.of + 1 /\ backup.of \in Nat /\ n \in Nat
      BY <2>2, <2>4 DEF PruneFollowsPut, BackupsTypeOK, Does
    <3> QED
      BY <2>1, <3>1 DEF Expired, BackupsTypeOK
  <2>5. LastDumpsStand'
    BY <2>1, <2>2, <2>4 DEF LastDumpsStand
  <2> QED
    BY <2>3, <2>5 DEF PruneFollowsPut
<1>6. CASE BackupEnds \/ BackupFails
  BY <1>6 DEF BackupEnds, BackupFails, BackupsTypeOK, PruneFollowsPut, LastDumpsStand, Does
<1>7. CASE NightFalls
  BY <1>7 DEF NightFalls, BackupsTypeOK, PruneFollowsPut, LastDumpsStand, Does, LeftOfRun, Steps
<1> QED
  BY <1>1, <1>2, <1>3, <1>4, <1>5, <1>6, <1>7 DEF BackupsNext

\* BackupService never deletes the newest dump, nor one stored less than the
\* retention before it, however many nights in a row a dump, a deletion or the
\* process fails.
THEOREM LastDumpsAreKept == BackupsSpec => []LastDumpsStand
<1>1. BackupsInv => LastDumpsStand
  BY DEF BackupsInv
<1> QED
  BY <1>1, BackupsInitInv, BackupsStepInv, PTL DEF BackupsSpec

-----------------------------------------------------------------------------
(* The client.  While a pause is in force, whoever awaits an answer asked   *)
(* before it was armed.                                                     *)

ClientInv ==
    /\ espnClock \in Nat /\ blockedUntil \in Int /\ backoffStreak \in Nat
    /\ espnClock < blockedUntil => calling \subseteq crossing

LEMMA PauseIsInt ==
    ASSUME NEW asked \in RetryAfter, backoffStreak \in Nat
    PROVE  PauseFor(asked) \in Int
<1>1. FirstPause * 2 ^ backoffStreak \in Int
  BY EspnClientAssumption
<1> QED
  BY <1>1, EspnClientAssumption DEF PauseFor, Min2

LEMMA ClientInit == EspnInit => ClientInv
BY DEF EspnInit, ClientInv

\* What one caller does to the pause.
LEMMA CallerSteps ==
    ASSUME ClientInv, NEW c, Sends(c) \/ AnsweredOk(c) \/ RateLimited(c) \/ Failed(c),
           espnClock' = espnClock
    PROVE  /\ ClientInv'
           /\ espnClock < blockedUntil /\ blockedUntil' < blockedUntil =>
                c \in crossing /\ c \notin calling'
<1>1. CASE Sends(c)
  BY <1>1 DEF Sends, MaySend, ClientInv
<1>2. CASE AnsweredOk(c)
  BY <1>2 DEF AnsweredOk, ComesBack, ClientInv
<1>3. CASE RateLimited(c)
  BY <1>3, PauseIsInt DEF RateLimited, ClientInv
<1>4. CASE Failed(c)
  BY <1>4 DEF Failed, ComesBack, ClientInv
<1> QED
  BY <1>1, <1>2, <1>3, <1>4

LEMMA ClientStep ==
    ASSUME ClientInv, [EspnNext]_espnVars
    PROVE  /\ ClientInv'
           /\ espnClock < blockedUntil /\ blockedUntil' < blockedUntil =>
                \E c \in crossing : c \notin calling'
<1>1. CASE UNCHANGED clientVars /\ (espnClock' = espnClock \/ espnClock' = espnClock + 1)
  BY <1>1 DEF clientVars, ClientInv
<1>2. ASSUME NEW c, Sends(c) \/ AnsweredOk(c) \/ RateLimited(c) \/ Failed(c), espnClock' = espnClock
      PROVE  /\ ClientInv'
             /\ espnClock < blockedUntil /\ blockedUntil' < blockedUntil =>
                  \E d \in crossing : d \notin calling'
  BY <1>2, CallerSteps
<1>3. CASE UNCHANGED espnVars
  BY <1>1, <1>3 DEF espnVars, clientVars
<1> QED
  BY <1>1, <1>2, <1>3
  DEF EspnNext, CallerMoves, OddsStarts, OddsFetches, OddsAnswered, OddsApplied, OddsEnd, ClockMoves

\* noteRateLimit's pause is lifted, or shortened, only by the answer to a call
\* that had been sent before the pause was armed: getJson sends none while it is
\* in force.
THEOREM PauseIsKept == EspnSpec => PauseStands
<1>1. ClientInv /\ [EspnNext]_espnVars =>
        [(espnClock < blockedUntil /\ blockedUntil' < blockedUntil) =>
           \E c \in crossing : c \notin calling']_espnVars
  BY ClientStep
<1>2. ClientInv /\ [EspnNext]_espnVars => ClientInv'
  BY ClientStep
<1> QED
  BY ClientInit, <1>1, <1>2, PTL DEF EspnSpec, PauseStands

-----------------------------------------------------------------------------
(* The reminders.  A run that has read who is missing pushes to them later;  *)
(* as long as no other runs, nobody it holds has been pushed to meanwhile.   *)

ReadsState == [pc : {"reads"}, type : 1..4, late : BOOLEAN]
HoldsState == [pc : {"commits", "pushes"}, type : 1..4, late : BOOLEAN, users : SUBSET Fans]
PassState == {Off} \cup ReadsState \cup HoldsState

\* The run p is about to write, or to push, the type watched to u.
Holds(p, pc, u) ==
    pass[p].pc = pc /\ Types[pass[p].type] = watched /\ u \in pass[p].users

RemindersTypes ==
    /\ pass \in [Passes -> PassState]
    /\ pushed \in [Fans -> Nat]
    /\ overlapped \in BOOLEAN
    /\ follows \subseteq Fans \X {"team", "match"} /\ bettors \subseteq Fans
    /\ watched \in Type

AloneInv ==
    /\ \A p, q \in Passes : pass[p] # Off /\ pass[q] # Off => p = q
    /\ \A u \in Fans : pushed[u] = 0 \/ (pushed[u] = 1 /\ <<u, watched>> \in rows)
    /\ \A p \in Passes, u \in Fans :
         /\ Holds(p, "commits", u) => <<u, watched>> \notin rows
         /\ Holds(p, "pushes", u) => <<u, watched>> \in rows /\ pushed[u] = 0

OnceInv == RemindersTypes /\ (~overlapped => AloneInv)

LEMMA OnwardIs ==
    ASSUME NEW i \in 1..4, NEW b \in BOOLEAN
    PROVE  \/ Onward(i) = Off
           \/ Onward(i) # Off /\ [Onward(i) EXCEPT !.late = b] \in ReadsState
<1>1. CASE i = 4
  BY <1>1 DEF Onward, Types
<1>2. CASE i # 4
  <2>1. Onward(i) = [pc |-> "reads", type |-> i + 1, late |-> FALSE]
    BY <1>2 DEF Onward, Types
  <2> QED
    BY <1>2, <2>1 DEF ReadsState, Off
<1> QED
  BY <1>1, <1>2

\* A run that goes on holds who it is to hold next.
LEMMA StepsTo ==
    ASSUME RemindersTypes, NEW p \in Passes, NEW next, Step(p, next),
           NEW state \in PassState,
           state = IF next = Off THEN Off ELSE [next EXCEPT !.late = pass[p].late]
    PROVE  /\ pass' \in [Passes -> PassState] /\ pass'[p] = state
           /\ \A q \in Passes \ {p} : pass'[q] = pass[q]
BY DEF RemindersTypes, Step

LEMMA OnceInit == RemindersInit => OnceInv
<1> SUFFICES ASSUME RemindersInit PROVE OnceInv
  OBVIOUS
<1>1. overlapped \in BOOLEAN
  BY Zenon DEF RemindersInit
<1>2. /\ pass \in [Passes -> PassState] /\ pushed \in [Fans -> Nat]
      /\ \A p \in Passes : pass[p].pc = "off" /\ pass[p] = Off
      /\ \A u \in Fans : pushed[u] = 0
      /\ follows \subseteq Fans \X {"team", "match"} /\ bettors \subseteq Fans
      /\ watched \in Type
  BY DEF RemindersInit, PassState, Off
<1> QED
  BY <1>1, <1>2 DEF OnceInv, RemindersTypes, AloneInv, Holds

\* Nothing is written or pushed, and whoever is held was held.
LEMMA OnceUntouched ==
    ASSUME OnceInv, pass' \in [Passes -> PassState], UNCHANGED <<rows, watched, pushed, overlapped>>,
           follows' \subseteq Fans \X {"team", "match"}, bettors' = bettors,
           \A p \in Passes : pass'[p] # Off => pass[p] # Off,
           \A p \in Passes, u \in Fans, pc \in {"commits", "pushes"} :
             Holds(p, pc, u)' => Holds(p, pc, u)
    PROVE  OnceInv'
BY DEF OnceInv, RemindersTypes, AloneInv

LEMMA StartOnce ==
    ASSUME OnceInv, NEW p \in Passes, Start(p)
    PROVE  OnceInv'
<1>1. /\ pass' = [pass EXCEPT ![p] = [pc |-> "reads", type |-> 1, late |-> FALSE]]
      /\ UNCHANGED <<rows, watched, pushed, follows, bettors>>
  BY DEF Start
<1>2. overlapped' \in BOOLEAN /\ (~overlapped' => ~overlapped /\ Running = {})
  BY Zenon DEF Start
<1>3. /\ pass' \in [Passes -> PassState] /\ pass'[p].pc = "reads"
      /\ \A q \in Passes \ {p} : pass'[q] = pass[q]
  BY <1>1 DEF OnceInv, RemindersTypes, PassState, ReadsState
<1>4. ~overlapped' => AloneInv'
  BY <1>1, <1>2, <1>3 DEF OnceInv, AloneInv, Holds, Running
<1> QED
  BY <1>1, <1>2, <1>3, <1>4 DEF OnceInv, RemindersTypes

\* What a run in progress is.
LEMMA PassShapes ==
    ASSUME RemindersTypes, NEW p \in Passes, pass[p].pc # "off"
    PROVE  /\ pass[p] # Off /\ pass[p].type \in 1..4 /\ pass[p].late \in BOOLEAN
           /\ pass[p].pc = "reads" => pass[p] \in ReadsState
           /\ pass[p].pc \in {"commits", "pushes"} => pass[p] \in HoldsState
BY DEF RemindersTypes, PassState, ReadsState, HoldsState, Off

\* A run goes on to its next type, or is over: it holds nobody.
LEMMA GoesOnward ==
    ASSUME RemindersTypes, NEW p \in Passes, pass[p].pc # "off",
           Step(p, Onward(pass[p].type))
    PROVE  /\ pass' \in [Passes -> PassState] /\ pass'[p].pc \in {"off", "reads"}
           /\ \A q \in Passes \ {p} : pass'[q] = pass[q]
<1>1. pass[p].type \in 1..4 /\ pass[p].late \in BOOLEAN
  BY PassShapes
<1> PICK state : state = IF Onward(pass[p].type) = Off THEN Off
                         ELSE [Onward(pass[p].type) EXCEPT !.late = pass[p].late]
  OBVIOUS
<1>2. state \in PassState /\ state.pc \in {"off", "reads"}
  BY <1>1, OnwardIs DEF PassState, ReadsState, Off
<1>3. pass' = [pass EXCEPT ![p] = state]
  BY DEF Step
<1> QED
  BY <1>2, <1>3 DEF RemindersTypes

LEMMA ReadsOnce ==
    ASSUME OnceInv, NEW p \in Passes, Reads(p)
    PROVE  OnceInv'
<1>0. /\ RemindersTypes /\ pass[p].pc = "reads" /\ pass[p].type \in 1..4
      /\ pass[p] # Off /\ pass[p].late \in BOOLEAN
  BY PassShapes DEF OnceInv, Reads
<1>1. UNCHANGED <<rows, watched, pushed, overlapped, follows, bettors>>
  BY DEF Reads
<1>2. CASE Step(p, Onward(pass[p].type))
  <2>1. /\ pass' \in [Passes -> PassState] /\ pass'[p].pc \in {"off", "reads"}
        /\ \A q \in Passes \ {p} : pass'[q] = pass[q]
    BY <1>0, <1>2, GoesOnward
  <2> QED
    BY <1>0, <1>1, <2>1, OnceUntouched DEF Holds, RemindersTypes
<1>3. ASSUME NEW owing \in SUBSET Fans,
             \A u \in owing : <<u, Types[pass[p].type]>> \notin rows,
             Step(p, [pc |-> "commits", type |-> pass[p].type, late |-> FALSE, users |-> owing])
      PROVE  OnceInv'
  <2> PICK state : state = [pc |-> "commits", type |-> pass[p].type, late |-> pass[p].late,
                            users |-> owing]
    OBVIOUS
  <2>1. state \in PassState
    BY <1>0 DEF PassState, HoldsState
  <2>2. [pc |-> "commits", type |-> pass[p].type, late |-> FALSE, users |-> owing] # Off
    BY DEF Off
  <2>3. /\ pass' \in [Passes -> PassState] /\ pass'[p] = state
        /\ \A q \in Passes \ {p} : pass'[q] = pass[q]
    <3> PICK next : next = [pc |-> "commits", type |-> pass[p].type, late |-> FALSE, users |-> owing]
      OBVIOUS
    <3>1. state = IF next = Off THEN Off ELSE [next EXCEPT !.late = pass[p].late]
      BY <2>2
    <3>2. Step(p, next)
      BY <1>3
    <3> QED
      BY <1>0, <2>1, <3>1, <3>2, StepsTo
  <2>4. ASSUME ~overlapped PROVE AloneInv'
    <3>1. AloneInv
      BY <2>4 DEF OnceInv
    <3>2. \A q \in Passes \ {p} : pass[q] = Off
      BY <1>0, <3>1 DEF AloneInv
    <3>3. \A q \in Passes \ {p}, u \in Fans : ~Holds(q, "commits", u)' /\ ~Holds(q, "pushes", u)'
      BY <2>3, <3>2 DEF Holds, Off
    <3>4. \A u \in Fans : ~Holds(p, "pushes", u)' /\ (Holds(p, "commits", u)' => <<u, watched>> \notin rows)
      BY <1>1, <1>3, <2>3 DEF Holds
    <3> QED
      BY <1>1, <2>3, <3>1, <3>2, <3>3, <3>4 DEF AloneInv
  <2> QED
    BY <1>0, <1>1, <2>3, <2>4 DEF OnceInv, RemindersTypes
<1>4. PICK owing : /\ owing = Fresh(Types[pass[p].type], Addressed(Types[pass[p].type], match, minute))
                   /\ Step(p, IF owing = {} THEN Onward(pass[p].type)
                              ELSE [pc |-> "commits", type |-> pass[p].type, late |-> FALSE,
                                    users |-> owing])
  BY DEF Reads
<1>5. \A u \in owing : <<u, Types[pass[p].type]>> \notin rows
  BY <1>4 DEF Fresh
<1>6. owing \in SUBSET Fans
  BY <1>0, <1>4 DEF Fresh, Addressed, Audience, RemindersTypes
<1> QED
  BY <1>2, <1>3, <1>4, <1>5, <1>6

LEMMA CommitsOnce ==
    ASSUME OnceInv, NEW p \in Passes, Commits(p)
    PROVE  OnceInv'
<1>0. /\ RemindersTypes /\ pass[p] \in HoldsState /\ pass[p].pc = "commits" /\ pass[p] # Off
      /\ pass[p].late \in BOOLEAN
  BY PassShapes DEF OnceInv, Commits
<1>1. /\ UNCHANGED <<watched, pushed, overlapped, follows, bettors>>
      /\ rows' = rows \cup {<<u, Types[pass[p].type]>> : u \in pass[p].users}
      /\ Step(p, [pass[p] EXCEPT !.pc = "pushes"])
  BY DEF Commits
<1> PICK next : next = [pass[p] EXCEPT !.pc = "pushes"]
  OBVIOUS
<1>2. next \in HoldsState /\ next # Off /\ [next EXCEPT !.late = pass[p].late] = next
  BY <1>0 DEF HoldsState, Off
<1>3. /\ pass' \in [Passes -> PassState] /\ pass'[p] = next
      /\ \A q \in Passes \ {p} : pass'[q] = pass[q]
  <2>1. next = IF next = Off THEN Off ELSE [next EXCEPT !.late = pass[p].late]
    BY <1>2
  <2> QED
    BY <1>0, <1>1, <1>2, <2>1, StepsTo DEF PassState
<1>4. next.type = pass[p].type /\ next.users = pass[p].users /\ next.pc = "pushes"
  BY <1>0 DEF HoldsState
<1>5. ASSUME ~overlapped PROVE AloneInv'
  <2>1. AloneInv
    BY <1>5 DEF OnceInv
  <2>2. \A q \in Passes \ {p} : pass[q] = Off
    BY <1>0, <2>1 DEF AloneInv
  <2>3. \A q \in Passes \ {p}, u \in Fans : ~Holds(q, "commits", u)' /\ ~Holds(q, "pushes", u)'
    BY <1>3, <2>2 DEF Holds, Off
  <2>4. ASSUME NEW u \in Fans
        PROVE  /\ ~Holds(p, "commits", u)'
               /\ Holds(p, "pushes", u)' => <<u, watched>> \in rows' /\ pushed[u] = 0
    <3>1. ~Holds(p, "commits", u)'
      BY <1>3, <1>4 DEF Holds
    <3>2. ASSUME Holds(p, "pushes", u)' PROVE <<u, watched>> \in rows' /\ pushed[u] = 0
      <4>1. Holds(p, "commits", u)
        BY <1>0, <1>1, <1>3, <1>4, <3>2 DEF Holds
      <4>2. <<u, watched>> \notin rows
        BY <2>1, <4>1 DEF AloneInv
      <4> QED
        BY <1>1, <2>1, <4>1, <4>2 DEF AloneInv, Holds
    <3> QED
      BY <3>1, <3>2
  <2> QED
    BY <1>1, <1>3, <2>1, <2>2, <2>3, <2>4 DEF AloneInv
<1> QED
  BY <1>0, <1>1, <1>3, <1>5 DEF OnceInv, RemindersTypes

LEMMA PushesOnce ==
    ASSUME OnceInv, NEW p \in Passes, Pushes(p)
    PROVE  OnceInv'
<1>0. /\ RemindersTypes /\ pass[p].pc = "pushes" /\ pass[p] # Off
  BY PassShapes DEF OnceInv, Pushes
<1>1. /\ UNCHANGED <<rows, watched, overlapped, follows, bettors>>
      /\ Step(p, Onward(pass[p].type))
      /\ \A u \in Fans : pushed'[u] = IF Holds(p, "pushes", u) THEN pushed[u] + 1 ELSE pushed[u]
      /\ pushed' \in [Fans -> Nat]
  BY <1>0 DEF Pushes, Holds, RemindersTypes
<1>2. /\ pass' \in [Passes -> PassState] /\ pass'[p].pc \in {"off", "reads"}
      /\ \A q \in Passes \ {p} : pass'[q] = pass[q]
  BY <1>0, <1>1, GoesOnward
<1>3. ASSUME ~overlapped PROVE AloneInv'
  <2>1. AloneInv
    BY <1>3 DEF OnceInv
  <2>2. \A q \in Passes \ {p} : pass[q] = Off
    BY <1>0, <2>1 DEF AloneInv
  <2>3. \A q \in Passes, u \in Fans : ~Holds(q, "commits", u)' /\ ~Holds(q, "pushes", u)'
    BY <1>2, <2>2 DEF Holds, Off
  <2>4. \A u \in Fans : pushed'[u] = 0 \/ (pushed'[u] = 1 /\ <<u, watched>> \in rows)
    BY <1>1, <2>1 DEF AloneInv
  <2> QED
    BY <1>1, <1>2, <2>1, <2>2, <2>3, <2>4 DEF AloneInv
<1> QED
  BY <1>0, <1>1, <1>2, <1>3 DEF OnceInv, RemindersTypes

LEMMA MinuteOnce == ASSUME OnceInv, Minute PROVE OnceInv'
<1>1. /\ UNCHANGED <<rows, watched, pushed, overlapped, follows, bettors>>
      /\ pass' = [p \in Passes |-> IF pass[p] = Off THEN Off ELSE [pass[p] EXCEPT !.late = TRUE]]
  BY DEF Minute
<1>2. ASSUME NEW p \in Passes
      PROVE  /\ pass'[p] \in PassState /\ (pass'[p] # Off => pass[p] # Off)
             /\ \A u \in Fans, pc \in {"commits", "pushes"} : Holds(p, pc, u)' => Holds(p, pc, u)
  <2>1. pass[p] \in PassState
    BY DEF OnceInv, RemindersTypes
  <2>2. CASE pass[p] = Off
    BY <1>1, <2>2 DEF PassState, Holds, Off
  <2>3. CASE pass[p] # Off /\ pass[p] \in ReadsState
    BY <1>1, <2>3 DEF PassState, ReadsState, Holds
  <2>4. CASE pass[p] # Off /\ pass[p] \in HoldsState
    BY <1>1, <2>4 DEF PassState, HoldsState, Holds
  <2> QED
    BY <2>1, <2>2, <2>3, <2>4 DEF PassState
<1>3. pass' \in [Passes -> PassState]
  BY <1>1, <1>2
<1> QED
  BY <1>1, <1>2, <1>3, OnceUntouched DEF OnceInv, RemindersTypes

LEMMA OnceStep == OnceInv /\ [RemindersNext]_remindersVars => OnceInv'
<1> SUFFICES ASSUME OnceInv, [RemindersNext]_remindersVars PROVE OnceInv'
  OBVIOUS
<1>0. /\ pass \in [Passes -> PassState] /\ bettors \subseteq Fans
      /\ follows \subseteq Fans \X {"team", "match"}
  BY DEF OnceInv, RemindersTypes
<1>1. CASE UNCHANGED <<pass, rows, watched, pushed, overlapped, follows, bettors>>
  BY <1>0, <1>1, OnceUntouched DEF Holds
<1>2. CASE FollowChanges
  <2>1. /\ UNCHANGED <<pass, rows, watched, pushed, overlapped, bettors>>
        /\ follows' \subseteq Fans \X {"team", "match"}
    BY <1>0, <1>2 DEF FollowChanges
  <2> QED
    BY <1>0, <2>1, OnceUntouched DEF Holds
<1>3. CASE RemindersCrash
  <2>1. /\ UNCHANGED <<rows, watched, pushed, overlapped, follows, bettors>>
        /\ pass' = [p \in Passes |-> Off]
    BY <1>3 DEF RemindersCrash
  <2> QED
    BY <1>0, <2>1, OnceUntouched DEF Holds, Off, PassState
<1>4. ASSUME NEW p \in Passes, Throws(p) PROVE OnceInv'
  <2>1. /\ UNCHANGED <<rows, watched, pushed, overlapped, follows, bettors>>
        /\ pass' = [pass EXCEPT ![p] = Off] /\ pass[p] # Off
    BY <1>4, PassShapes DEF Throws, Off
  <2> QED
    BY <1>0, <2>1, OnceUntouched DEF Holds, Off, PassState
<1>5. CASE MatchChanges
  BY <1>1, <1>5 DEF MatchChanges
<1>6. CASE UNCHANGED remindersVars
  BY <1>1, <1>6 DEF remindersVars
<1> QED
  BY <1>2, <1>3, <1>4, <1>5, <1>6, StartOnce, ReadsOnce, CommitsOnce, PushesOnce, MinuteOnce
  DEF RemindersNext

\* Runs of ReminderService that do not overlap send a notification to a user's
\* devices once at most: whoever a run pushes to has just been written his row,
\* and nobody with a row is missing again.
THEOREM PushedOnceAtMost == RemindersSpec => []PushedOnce
<1>1. OnceInv => PushedOnce
  <2>1. SUFFICES ASSUME OnceInv, NEW u \in Fans, ~overlapped PROVE ~(pushed[u] > 1)
    BY DEF PushedOnce
  <2>2. pushed[u] = 0 \/ pushed[u] = 1
    BY <2>1 DEF OnceInv, AloneInv
  <2> QED
    BY <2>2
<1> QED
  BY <1>1, OnceInit, OnceStep, PTL DEF RemindersSpec

-----------------------------------------------------------------------------
(* Nobody is missed.  Whoever is promised a notification and has none yet is *)
(* still ahead of a run: of one of this minute, or, if he was promised it    *)
(* the minute before too, of one that began then and ends before the next.   *)

MatchRow == [status : {"SCHEDULED", "LIVE", "FINISHED", "POSTPONED"}, kickoff : Nat, changes : Nat]

EntitledTypes ==
    /\ minute \in Nat /\ match \in MatchRow /\ fired \in BOOLEAN
    /\ entitled \in [Fans -> -1..2]

\* Run p is still to look for, or to write, the type watched for u.
Yet(p, u) ==
    \E i \in 1..4 :
      /\ Types[i] = watched
      /\ \/ pass[p].pc = "reads" /\ pass[p].type <= i
         \/ pass[p].pc \in {"commits", "pushes"} /\ pass[p].type < i
         \/ pass[p].pc = "commits" /\ pass[p].type = i /\ u \in pass[p].users

RowsAreSent ==
    \A u \in Fans : <<u, watched>> \in rows =>
        \/ pushed[u] > 0
        \/ crashed
        \/ \E p \in Passes : Holds(p, "pushes", u)

\* What is owed to a user without the row.
Owed(u) ==
    /\ entitled[u] # 2
    /\ (entitled[u] = 1 /\ Promised(u, watched)) => \E p \in Passes : Yet(p, u) /\ pass[p].late = TRUE
    /\ (entitled[u] = 0 /\ fired = TRUE /\ Promised(u, watched)) =>
          \E p \in Passes : Yet(p, u) /\ pass[p].late = FALSE

OwedIsDue == \A u \in Fans : <<u, watched>> \notin rows => Owed(u)

MissedInv == OnceInv /\ EntitledTypes /\ RowsAreSent /\ OwedIsDue

\* Whom the class comment promises a notification is whom a run addresses.
LEMMA PromisedIsAddressed ==
    ASSUME EntitledTypes, NEW u \in Fans, NEW t, Promised(u, t)
    PROVE  u \in Addressed(t, match, minute)
<1> USE RemindersAssumption
<1>1. match.kickoff \in Nat /\ minute \in Nat
  BY DEF EntitledTypes, MatchRow
<1>2. \A kind : <<u, kind>> \in follows => u \in {f[1] : f \in follows}
  OBVIOUS
<1>3. CASE t = "MATCH_REMINDER_1D"
  BY <1>1, <1>2, <1>3 DEF Promised, Addressed, Selected, Audience
<1>4. CASE t = "MATCH_REMINDER_1H"
  BY <1>1, <1>2, <1>4 DEF Promised, Addressed, Selected, Audience
<1>5. CASE t = "MATCH_STARTED"
  BY <1>1, <1>2, <1>5 DEF Promised, Addressed, Selected, Audience
<1>6. CASE t = "MATCH_FINISHED"
  BY <1>1, <1>6 DEF Promised, Addressed, Selected, Audience
<1> QED
  BY <1>3, <1>4, <1>5, <1>6 DEF Promised

\* Where a run stands after its type.
LEMMA OnwardDoes ==
    ASSUME RemindersTypes, NEW p \in Passes, pass[p].pc # "off",
           Step(p, Onward(pass[p].type))
    PROVE  pass'[p] = IF pass[p].type = 4 THEN Off
                      ELSE [pc |-> "reads", type |-> pass[p].type + 1, late |-> pass[p].late]
<1>1. pass[p].type \in 1..4 /\ pass[p].late \in BOOLEAN
  BY PassShapes
<1>2. Onward(pass[p].type) = IF pass[p].type = 4 THEN Off
                             ELSE [pc |-> "reads", type |-> pass[p].type + 1, late |-> FALSE]
  BY DEF Onward, Types
<1>3. CASE pass[p].type = 4
  BY <1>2, <1>3 DEF Step, RemindersTypes
<1>4. CASE pass[p].type # 4
  <2>1. Onward(pass[p].type) # Off
    BY <1>2, <1>4 DEF Off
  <2>2. [Onward(pass[p].type) EXCEPT !.late = pass[p].late]
          = [pc |-> "reads", type |-> pass[p].type + 1, late |-> pass[p].late]
    BY <1>2, <1>4
  <2>3. pass'[p] = [Onward(pass[p].type) EXCEPT !.late = pass[p].late]
    BY <2>1 DEF Step, RemindersTypes
  <2> QED
    BY <1>4, <2>2, <2>3
<1> QED
  BY <1>3, <1>4

\* A run goes on past its type: whoever was still ahead of it is still.
LEMMA YetOnward ==
    ASSUME RemindersTypes, NEW p \in Passes, pass[p].pc \in {"reads", "pushes"},
           Step(p, Onward(pass[p].type)), watched' = watched,
           NEW u \in Fans, Yet(p, u), pass[p].pc = "reads" => Types[pass[p].type] # watched
    PROVE  Yet(p, u)' /\ pass'[p].late = pass[p].late
<1>1. pass[p].type \in 1..4
  BY PassShapes
<1>2. PICK i \in 1..4 : /\ Types[i] = watched
                        /\ \/ pass[p].pc = "reads" /\ pass[p].type <= i
                           \/ pass[p].pc \in {"commits", "pushes"} /\ pass[p].type < i
  BY DEF Yet
<1>3. pass[p].type < i
  BY <1>1, <1>2
<1>4. pass'[p] = [pc |-> "reads", type |-> pass[p].type + 1, late |-> pass[p].late]
  BY <1>1, <1>3, OnwardDoes
<1>5. pass'[p].pc = "reads" /\ pass'[p].type <= i /\ pass'[p].late = pass[p].late
  BY <1>1, <1>3, <1>4
<1> QED
  BY <1>2, <1>5 DEF Yet

\* A step that leaves what is promised as it is, and every run ahead of those it
\* was ahead of, owes nobody more.
LEMMA OwedKept ==
    ASSUME MissedInv, UNCHANGED <<minute, match, follows, bettors, watched, entitled, fired>>,
           rows \subseteq rows',
           \A p \in Passes, u \in Fans :
             (<<u, watched>> \notin rows' /\ Promised(u, watched) /\ Yet(p, u)) =>
                Yet(p, u)' /\ pass'[p].late = pass[p].late
    PROVE  EntitledTypes' /\ OwedIsDue'
<1>1. EntitledTypes'
  BY DEF MissedInv, EntitledTypes
<1>2. ASSUME NEW u \in Fans, <<u, watched'>> \notin rows' PROVE Owed(u)'
  <2>1. Owed(u) /\ <<u, watched>> \notin rows'
    BY <1>2 DEF MissedInv, OwedIsDue
  <2>2. Promised(u, watched)' <=> Promised(u, watched)
    BY DEF Promised
  <2> QED
    BY <2>1, <2>2 DEF Owed
<1> QED
  BY <1>1, <1>2 DEF OwedIsDue

LEMMA ReadsMissNobody ==
    ASSUME MissedInv, NEW p \in Passes, Reads(p)
    PROVE  EntitledTypes' /\ OwedIsDue' /\ RowsAreSent'
<1>0. /\ RemindersTypes /\ pass[p].pc = "reads" /\ pass[p].type \in 1..4
      /\ pass[p] # Off /\ pass[p].late \in BOOLEAN
  BY PassShapes DEF MissedInv, OnceInv, Reads
<1>1. /\ UNCHANGED <<minute, match, follows, bettors, fired, rows, watched, pushed, entitled,
                     overlapped, crashed>>
      /\ \A q \in Passes \ {p} : pass'[q] = pass[q]
  BY <1>0 DEF Reads, Step, RemindersTypes
<1>2. PICK owing : /\ owing = Fresh(Types[pass[p].type], Addressed(Types[pass[p].type], match, minute))
                   /\ Step(p, IF owing = {} THEN Onward(pass[p].type)
                              ELSE [pc |-> "commits", type |-> pass[p].type, late |-> FALSE,
                                    users |-> owing])
  BY DEF Reads
<1>3. ASSUME NEW u \in Fans, <<u, watched>> \notin rows', Promised(u, watched), Yet(p, u)
      PROVE  Yet(p, u)' /\ pass'[p].late = pass[p].late
  <2>1. u \in Addressed(watched, match, minute)
    BY <1>3, PromisedIsAddressed DEF MissedInv
  <2>2. Types[pass[p].type] = watched => u \in owing
    BY <1>1, <1>2, <1>3, <2>1 DEF Fresh
  <2>3. CASE owing = {}
    BY <1>0, <1>1, <1>2, <1>3, <2>2, <2>3, YetOnward
  <2>4. CASE owing # {}
    <3>1. Step(p, [pc |-> "commits", type |-> pass[p].type, late |-> FALSE, users |-> owing])
      BY <1>2, <2>4
    <3>2. pass'[p] = [pc |-> "commits", type |-> pass[p].type, late |-> pass[p].late, users |-> owing]
      BY <1>0, <3>1 DEF Step, RemindersTypes, Off
    <3>3. /\ pass'[p].pc = "commits" /\ pass'[p].type = pass[p].type /\ pass'[p].users = owing
          /\ pass'[p].late = pass[p].late
      BY <3>2
    <3>4. PICK i \in 1..4 : Types[i] = watched /\ pass[p].type <= i
      BY <1>0, <1>3 DEF Yet
    <3>5. pass[p].type < i \/ (pass[p].type = i /\ u \in owing)
      BY <1>0, <2>2, <3>4
    <3> QED
      BY <1>1, <3>3, <3>4, <3>5 DEF Yet
  <2> QED
    BY <2>3, <2>4
<1>4. \A q \in Passes \ {p}, u \in Fans : Yet(q, u) => Yet(q, u)' /\ pass'[q].late = pass[q].late
  BY <1>1 DEF Yet
<1>5. EntitledTypes' /\ OwedIsDue'
  BY <1>1, <1>3, <1>4, OwedKept
<1>6. \A q \in Passes, u \in Fans : Holds(q, "pushes", u) => Holds(q, "pushes", u)'
  BY <1>0, <1>1 DEF Holds
<1> QED
  BY <1>1, <1>5, <1>6 DEF MissedInv, RowsAreSent

LEMMA CommitsMissNobody ==
    ASSUME MissedInv, NEW p \in Passes, Commits(p)
    PROVE  EntitledTypes' /\ OwedIsDue' /\ RowsAreSent'
<1>0. /\ RemindersTypes /\ pass[p] \in HoldsState /\ pass[p].pc = "commits" /\ pass[p] # Off
      /\ pass[p].type \in 1..4
  BY PassShapes DEF MissedInv, OnceInv, Commits
<1>1. /\ UNCHANGED <<minute, match, follows, bettors, fired, watched, pushed, entitled,
                     overlapped, crashed>>
      /\ rows' = rows \cup {<<u, Types[pass[p].type]>> : u \in pass[p].users}
      /\ Step(p, [pass[p] EXCEPT !.pc = "pushes"])
  BY DEF Commits
<1>2. PICK next : next = [pass[p] EXCEPT !.pc = "pushes"]
  OBVIOUS
<1>3. /\ next # Off /\ [next EXCEPT !.late = pass[p].late] = next /\ next.pc = "pushes"
      /\ next.type = pass[p].type /\ next.users = pass[p].users /\ next.late = pass[p].late
  BY <1>0, <1>2 DEF HoldsState, Off
<1>4. pass'[p] = next /\ \A q \in Passes \ {p} : pass'[q] = pass[q]
  BY <1>0, <1>1, <1>2, <1>3 DEF Step, RemindersTypes
<1>5. ASSUME NEW u \in Fans, <<u, watched>> \notin rows', Yet(p, u)
      PROVE  Yet(p, u)' /\ pass'[p].late = pass[p].late
  <2>1. PICK i \in 1..4 : /\ Types[i] = watched
                          /\ pass[p].type < i \/ (pass[p].type = i /\ u \in pass[p].users)
    BY <1>0, <1>5 DEF Yet
  <2>2. pass[p].type < i
    BY <1>1, <1>5, <2>1
  <2> QED
    BY <1>1, <1>3, <1>4, <2>1, <2>2 DEF Yet
<1>6. \A q \in Passes \ {p}, u \in Fans : Yet(q, u) => Yet(q, u)' /\ pass'[q].late = pass[q].late
  BY <1>1, <1>4 DEF Yet
<1>7. EntitledTypes' /\ OwedIsDue'
  BY <1>1, <1>5, <1>6, OwedKept
<1>8. ASSUME NEW u \in Fans, <<u, watched'>> \in rows'
      PROVE  pushed'[u] > 0 \/ crashed' \/ \E q \in Passes : Holds(q, "pushes", u)'
  <2>1. CASE <<u, watched>> \in rows
    <3>1. \A q \in Passes : Holds(q, "pushes", u) => Holds(q, "pushes", u)'
      BY <1>0, <1>1, <1>4 DEF Holds
    <3> QED
      BY <1>1, <2>1, <3>1 DEF MissedInv, RowsAreSent
  <2>2. CASE <<u, watched>> \notin rows
    <3>1. u \in pass[p].users /\ watched = Types[pass[p].type]
      BY <1>1, <1>8, <2>2
    <3> QED
      BY <1>1, <1>3, <1>4, <3>1 DEF Holds
  <2> QED
    BY <2>1, <2>2
<1> QED
  BY <1>7, <1>8 DEF RowsAreSent

LEMMA PushesMissNobody ==
    ASSUME MissedInv, NEW p \in Passes, Pushes(p)
    PROVE  EntitledTypes' /\ OwedIsDue' /\ RowsAreSent'
<1>0. /\ RemindersTypes /\ pass[p].pc = "pushes" /\ pass[p] # Off /\ pass[p].type \in 1..4
  BY PassShapes DEF MissedInv, OnceInv, Pushes
<1>1. /\ UNCHANGED <<minute, match, follows, bettors, fired, rows, watched, entitled,
                     overlapped, crashed>>
      /\ Step(p, Onward(pass[p].type))
      /\ \A u \in Fans : pushed'[u] = IF Holds(p, "pushes", u) THEN pushed[u] + 1 ELSE pushed[u]
      /\ \A q \in Passes \ {p} : pass'[q] = pass[q]
  BY <1>0 DEF Pushes, Holds, RemindersTypes, Step
<1>2. \A u \in Fans : Yet(p, u) => Yet(p, u)' /\ pass'[p].late = pass[p].late
  BY <1>0, <1>1, YetOnward
<1>3. \A q \in Passes \ {p}, u \in Fans : Yet(q, u) => Yet(q, u)' /\ pass'[q].late = pass[q].late
  BY <1>1 DEF Yet
<1>4. EntitledTypes' /\ OwedIsDue'
  BY <1>1, <1>2, <1>3, OwedKept
<1>5. ASSUME NEW u \in Fans, <<u, watched'>> \in rows'
      PROVE  pushed'[u] > 0 \/ crashed' \/ \E q \in Passes : Holds(q, "pushes", u)'
  <2>1. pushed[u] \in Nat
    BY <1>0 DEF RemindersTypes
  <2>2. CASE Holds(p, "pushes", u)
    BY <1>1, <2>1, <2>2
  <2>3. CASE ~Holds(p, "pushes", u)
    <3>1. \A q \in Passes : Holds(q, "pushes", u) => Holds(q, "pushes", u)'
      BY <1>1, <2>3 DEF Holds
    <3> QED
      BY <1>1, <1>5, <2>3, <3>1 DEF MissedInv, RowsAreSent
  <2> QED
    BY <2>2, <2>3
<1> QED
  BY <1>4, <1>5 DEF RowsAreSent

LEMMA StartMissesNobody ==
    ASSUME MissedInv, NEW p \in Passes, Start(p)
    PROVE  EntitledTypes' /\ OwedIsDue' /\ RowsAreSent'
<1>1. /\ pass[p] = Off /\ fired' = TRUE
      /\ pass' = [pass EXCEPT ![p] = [pc |-> "reads", type |-> 1, late |-> FALSE]]
      /\ UNCHANGED <<minute, match, follows, bettors, rows, watched, pushed, entitled, crashed>>
  BY DEF Start
<1>2. /\ pass'[p].pc = "reads" /\ pass'[p].type = 1 /\ pass'[p].late = FALSE
      /\ \A q \in Passes \ {p} : pass'[q] = pass[q]
  BY <1>1 DEF MissedInv, OnceInv, RemindersTypes
<1>3. \A u \in Fans : ~Yet(p, u) /\ ~Holds(p, "pushes", u)
  BY <1>1 DEF Yet, Holds, Off
<1>4. ASSUME NEW u \in Fans PROVE Yet(p, u)'
  <2>1. watched \in Type
    BY DEF MissedInv, OnceInv, RemindersTypes
  <2>2. PICK i \in 1..4 : Types[i] = watched
    BY <2>1 DEF Type, Types
  <2> QED
    BY <1>1, <1>2, <2>2 DEF Yet
<1>5. EntitledTypes'
  BY <1>1 DEF MissedInv, EntitledTypes
<1>6. ASSUME NEW u \in Fans, <<u, watched'>> \notin rows' PROVE Owed(u)'
  <2>1. Owed(u)
    BY <1>1, <1>6 DEF MissedInv, OwedIsDue
  <2>2. Promised(u, watched)' <=> Promised(u, watched)
    BY <1>1 DEF Promised
  <2>3. \A q \in Passes \ {p} : Yet(q, u) => Yet(q, u)' /\ pass'[q].late = pass[q].late
    BY <1>1, <1>2 DEF Yet
  <2> QED
    BY <1>1, <1>2, <1>3, <1>4, <2>1, <2>2, <2>3 DEF Owed
<1>7. \A q \in Passes, u \in Fans : Holds(q, "pushes", u) => Holds(q, "pushes", u)'
  BY <1>1, <1>2, <1>3 DEF Holds
<1>8. RowsAreSent'
  BY <1>1, <1>7 DEF MissedInv, RowsAreSent
<1> QED
  BY <1>5, <1>6, <1>8 DEF OwedIsDue

\* The next minute: the runs that were of the one before are over.
LEMMA MinuteMissesNobody ==
    ASSUME MissedInv, Minute
    PROVE  EntitledTypes' /\ OwedIsDue' /\ RowsAreSent'
<1>1. /\ minute' = minute + 1 /\ fired' = FALSE
      /\ pass' = [p \in Passes |-> IF pass[p] = Off THEN Off ELSE [pass[p] EXCEPT !.late = TRUE]]
      /\ entitled' = [u \in Fans |->
                        IF ~Promised(u, watched) THEN 0
                        ELSE IF entitled[u] < 2 THEN entitled[u] + 1 ELSE 2]
      /\ UNCHANGED <<match, follows, bettors, rows, watched, pushed, overlapped, crashed>>
  BY DEF Minute
<1>2. /\ pass \in [Passes -> PassState] /\ entitled \in [Fans -> -1..2] /\ minute \in Nat
      /\ fired \in BOOLEAN
  BY DEF MissedInv, OnceInv, RemindersTypes, EntitledTypes
<1>3. fired = TRUE
  BY <1>2, Zenon DEF Minute
<1>4. ASSUME NEW p \in Passes, pass[p] # Off
      PROVE  /\ pass[p].late = FALSE /\ pass'[p].late = TRUE /\ pass'[p].pc = pass[p].pc
             /\ pass'[p].type = pass[p].type
             /\ pass[p].pc \in {"commits", "pushes"} => pass'[p].users = pass[p].users
  <2>1. pass[p] \in ReadsState \cup HoldsState
    BY <1>2, <1>4 DEF PassState
  <2>2. pass[p].late \in BOOLEAN
    BY <2>1 DEF ReadsState, HoldsState
  <2>3. ~pass[p].late
    BY <1>4, Zenon DEF Minute, Running
  <2>4. pass[p].late = FALSE
    BY <2>2, <2>3, Zenon
  <2>5. pass'[p] = [pass[p] EXCEPT !.late = TRUE]
    BY <1>1, <1>4
  <2>6. CASE pass[p] \in ReadsState
    BY <2>4, <2>5, <2>6 DEF ReadsState
  <2>7. CASE pass[p] \in HoldsState
    BY <2>4, <2>5, <2>7 DEF HoldsState
  <2> QED
    BY <2>1, <2>6, <2>7
<1>5. \A p \in Passes, u \in Fans : Yet(p, u) \/ Holds(p, "pushes", u) => pass[p] # Off
  BY DEF Yet, Holds, Off
<1>6. ASSUME NEW u \in Fans, <<u, watched'>> \notin rows' PROVE Owed(u)'
  <2>1. Owed(u) /\ entitled[u] \in -1..2
    BY <1>1, <1>2, <1>6 DEF MissedInv, OwedIsDue
  <2>2. Promised(u, watched) => entitled[u] # 1
    BY <1>4, <1>5, <2>1 DEF Owed
  <2>3. entitled'[u] # 2
    BY <1>1, <2>1, <2>2 DEF Owed
  <2>4. ASSUME entitled'[u] = 1 PROVE \E p \in Passes : Yet(p, u)' /\ pass'[p].late = TRUE
    <3>1. entitled[u] = 0 /\ Promised(u, watched)
      BY <1>1, <2>1, <2>4
    <3>2. PICK p \in Passes : Yet(p, u)
      BY <1>3, <2>1, <3>1 DEF Owed
    <3>3. Yet(p, u)'
      BY <1>1, <1>4, <1>5, <3>2 DEF Yet
    <3> QED
      BY <1>4, <1>5, <3>2, <3>3
  <2> QED
    BY <1>1, <2>3, <2>4 DEF Owed
<1>7. EntitledTypes'
  <2>1. entitled' \in [Fans -> -1..2]
    BY <1>1, <1>2
  <2>2. minute' \in Nat /\ match' \in MatchRow
    BY <1>1, <1>2 DEF MissedInv, EntitledTypes
  <2>3. fired' \in BOOLEAN
    BY <1>1
  <2> QED
    BY <2>1, <2>2, <2>3, Zenon DEF EntitledTypes
<1>8. \A p \in Passes, u \in Fans : Holds(p, "pushes", u) => Holds(p, "pushes", u)'
  BY <1>1, <1>4, <1>5 DEF Holds
<1>9. RowsAreSent'
  BY <1>1, <1>8 DEF MissedInv, RowsAreSent
<1> QED
  BY <1>6, <1>7, <1>9 DEF OwedIsDue

\* Nobody is owed anything in a minute that is not a whole one.
LEMMA ForgottenOwesNobody ==
    ASSUME MissedInv, NEW users \in SUBSET Fans, Forgotten(users),
           UNCHANGED <<minute, fired, rows, watched>>, match' \in MatchRow,
           \A u \in Fans \ users : (Promised(u, watched)' <=> Promised(u, watched)),
           users = Fans \/ pass' = pass
    PROVE  EntitledTypes' /\ OwedIsDue'
<1>1. /\ entitled' \in [Fans -> -1..2]
      /\ \A u \in users : entitled'[u] = -1
      /\ \A u \in Fans \ users : entitled'[u] = entitled[u]
  BY DEF MissedInv, EntitledTypes, Forgotten
<1>2. EntitledTypes'
  BY <1>1 DEF MissedInv, EntitledTypes
<1>3. ASSUME NEW u \in Fans, <<u, watched'>> \notin rows' PROVE Owed(u)'
  <2>1. CASE u \in users
    BY <1>1, <2>1 DEF Owed
  <2>2. CASE u \notin users
    <3>1. Owed(u) /\ pass' = pass
      BY <1>3, <2>2 DEF MissedInv, OwedIsDue
    <3> QED
      BY <1>1, <2>2, <3>1 DEF Owed, Yet
  <2> QED
    BY <2>1, <2>2
<1> QED
  BY <1>2, <1>3 DEF OwedIsDue

LEMMA MissedBegins == RemindersInit => MissedInv
<1> SUFFICES ASSUME RemindersInit PROVE MissedInv
  OBVIOUS
<1>1. fired \in BOOLEAN /\ fired = FALSE
  BY DEF RemindersInit
<1>2. EntitledTypes
  <2>1. match \in MatchRow
    <3>1. match \in [status : {"SCHEDULED", "LIVE"}, kickoff : KickoffTimes, changes : {0}]
      BY DEF RemindersInit
    <3>2. KickoffTimes \subseteq Nat
      BY RemindersAssumption
    <3>3. /\ match = [status |-> match.status, kickoff |-> match.kickoff, changes |-> match.changes]
          /\ match.status \in {"SCHEDULED", "LIVE"} /\ match.kickoff \in KickoffTimes
          /\ match.changes = 0
      BY <3>1
    <3>4. match.kickoff \in Nat
      BY <3>2, <3>3
    <3> HIDE <3>1
    <3> QED
      BY <3>3, <3>4 DEF MatchRow
  <2>2. minute \in Nat /\ entitled \in [Fans -> -1..2]
    BY DEF RemindersInit
  <2> QED
    BY <1>1, <2>1, <2>2, Zenon DEF EntitledTypes
<1>3. RowsAreSent /\ OwedIsDue
  BY <1>1 DEF RemindersInit, RowsAreSent, OwedIsDue, Owed
<1> QED
  BY <1>2, <1>3, OnceInit DEF MissedInv

LEMMA MissedKept == MissedInv /\ [RemindersNext]_remindersVars => MissedInv'
<1> SUFFICES ASSUME MissedInv, [RemindersNext]_remindersVars PROVE MissedInv'
  OBVIOUS
<1>0. OnceInv'
  BY OnceStep DEF MissedInv
<1> SUFFICES EntitledTypes' /\ OwedIsDue' /\ RowsAreSent'
  BY <1>0 DEF MissedInv
<1>1. CASE FollowChanges
  <2>1. PICK u \in Fans, kind \in {"team", "match"} :
          /\ follows' = IF <<u, kind>> \in follows THEN follows \ {<<u, kind>>}
                        ELSE follows \cup {<<u, kind>>}
          /\ Forgotten({u}) /\ match' = [match EXCEPT !.changes = @ + 1]
          /\ UNCHANGED <<minute, bettors, pass, fired, rows, watched, pushed, overlapped, crashed>>
    BY <1>1 DEF FollowChanges
  <2>2. match' \in MatchRow /\ match'.status = match.status /\ match'.kickoff = match.kickoff
    BY <2>1 DEF MissedInv, EntitledTypes, MatchRow
  <2>3. \A v \in Fans \ {u} : \A k : <<v, k>> \in follows' <=> <<v, k>> \in follows
    BY <2>1
  <2>4. \A v \in Fans \ {u} : (Promised(v, watched)' <=> Promised(v, watched))
    BY <2>1, <2>2, <2>3 DEF Promised
  <2>5. EntitledTypes' /\ OwedIsDue'
    BY <2>1, <2>2, <2>4, ForgottenOwesNobody
  <2> QED
    BY <2>1, <2>5 DEF MissedInv, RowsAreSent, Holds
<1>2. CASE MatchChanges
  <2>1. /\ match' \in MatchRow /\ Forgotten(Fans)
        /\ UNCHANGED <<minute, follows, bettors, pass, fired, rows, watched, pushed, overlapped, crashed>>
    BY <1>2, RemindersAssumption DEF MatchChanges, MatchRow, MissedInv, EntitledTypes
  <2>2. EntitledTypes' /\ OwedIsDue'
    BY <2>1, ForgottenOwesNobody
  <2> QED
    BY <2>1, <2>2 DEF MissedInv, RowsAreSent, Holds
<1>3. CASE RemindersCrash
  <2>1. /\ Forgotten(Fans) /\ crashed' = TRUE
        /\ UNCHANGED <<minute, match, follows, bettors, fired, rows, watched, pushed, overlapped>>
    BY <1>3 DEF RemindersCrash
  <2>2. match' \in MatchRow
    BY <2>1 DEF MissedInv, EntitledTypes
  <2>3. EntitledTypes' /\ OwedIsDue'
    BY <2>1, <2>2, ForgottenOwesNobody
  <2> QED
    BY <2>1, <2>3 DEF RowsAreSent
<1>4. ASSUME NEW p \in Passes, Throws(p) PROVE EntitledTypes' /\ OwedIsDue' /\ RowsAreSent'
  <2>1. /\ pass[p].pc \in {"reads", "commits"} /\ pass' = [pass EXCEPT ![p] = Off] /\ Forgotten(Fans)
        /\ UNCHANGED <<minute, match, follows, bettors, fired, rows, watched, pushed,
                       overlapped, crashed>>
    BY <1>4 DEF Throws
  <2>2. match' \in MatchRow
    BY <2>1 DEF MissedInv, EntitledTypes
  <2>3. EntitledTypes' /\ OwedIsDue'
    BY <2>1, <2>2, ForgottenOwesNobody
  <2>4. \A q \in Passes, u \in Fans : Holds(q, "pushes", u) => Holds(q, "pushes", u)'
    BY <2>1 DEF Holds, MissedInv, OnceInv, RemindersTypes
  <2> QED
    BY <2>1, <2>3, <2>4 DEF MissedInv, RowsAreSent
<1>5. CASE UNCHANGED remindersVars
  BY <1>5 DEF remindersVars, MissedInv, EntitledTypes, OwedIsDue, Owed, Yet, Promised, RowsAreSent, Holds
<1> QED
  BY <1>1, <1>2, <1>3, <1>4, <1>5, StartMissesNobody, ReadsMissNobody, CommitsMissNobody,
     PushesMissNobody, MinuteMissesNobody DEF RemindersNext

\* Whoever has been promised a notification for two whole minutes has it, and it
\* was pushed, or a run is about to, unless the process died in between: for any
\* users, runs, windows and changes.
THEOREM NobodyIsEverMissed == RemindersSpec => []NobodyIsMissed
<1>1. ASSUME MissedInv PROVE NobodyIsMissed
  <2>1. \A u \in Fans : entitled[u] = 2 => <<u, watched>> \in rows
    BY <1>1 DEF MissedInv, OwedIsDue, Owed
  <2>2. \A u \in Fans : <<u, watched>> \in rows =>
            \/ pushed[u] > 0
            \/ crashed
            \/ \E p \in Passes : /\ pass[p].pc = "pushes" /\ Types[pass[p].type] = watched
                                 /\ u \in pass[p].users
    BY <1>1 DEF MissedInv, RowsAreSent, Holds
  <2> QED
    BY <2>1, <2>2 DEF NobodyIsMissed
<1> QED
  BY <1>1, MissedBegins, MissedKept, PTL DEF RemindersSpec
-----------------------------------------------------------------------------
(* The watchdog.  With a bank that answers, the age of a beat is the shorter *)
(* of the robot's silence and of the bank's calm; a robot not flagged has    *)
(* been silent for no longer than the runs since have let it.                *)

BeatState == [age : -1..Longest, stuck : BOOLEAN]

MonitorTypes ==
    /\ beat \in [Robots -> BeatState]
    /\ quiet \in [Robots -> 0..Longest] /\ calm \in 0..Longest
    /\ probe \in {"idle", "waiting", "done"}
    /\ dbDown \in BOOLEAN

Shorter(m, n) == IF m < n THEN m ELSE n

\* The age of the beat of a robot, once it is registered.
AgeStands(r) ==
    beat[r] # Unregistered =>
        /\ beat[r].age >= 0
        /\ dbDown = FALSE => beat[r].age = Shorter(quiet[r], calm)
        /\ (dbDown = FALSE /\ beat[r].stuck = FALSE) =>
              beat[r].age <= IF probe = "done" THEN Stale ELSE Stale + 1

MonitorInv ==
    /\ MonitorTypes
    /\ dbDown = TRUE => calm = 0
    /\ \A r \in Robots : AgeStands(r)

\* An alarm raised by a step, as AlarmsAreTrue has it.
AlarmIsTrue(r) ==
    /\ beat'[r].stuck /\ ~beat[r].stuck => quiet[r] > Stale /\ calm > Stale
    /\ (beat[r] # Unregistered /\ quiet[r] = Longest /\ calm = Longest) => beat[r].stuck

LEMMA LongestIs == Longest \in Nat /\ Longest = Stale + 3 /\ Stale \in Nat
BY MonitorAssumption DEF Longest

LEMMA LaterIs ==
    ASSUME NEW m \in 0..Longest, NEW n \in 0..Longest
    PROVE  /\ Later(n) \in 0..Longest /\ Later(n) <= n + 1
           /\ Later(Shorter(m, n)) = Shorter(Later(m), Later(n))
BY LongestIs DEF Later, Shorter

\* A beat of age and flag that are its own.
LEMMA BeatIs ==
    ASSUME MonitorTypes, NEW r \in Robots
    PROVE  /\ beat[r].age \in -1..Longest /\ beat[r].stuck \in BOOLEAN
           /\ beat[r] = [age |-> beat[r].age, stuck |-> beat[r].stuck]
           /\ quiet[r] \in 0..Longest /\ calm \in 0..Longest
BY DEF MonitorTypes, BeatState

\* Whoever is silent for the longest time is flagged.
LEMMA LongSilenceIsFlagged ==
    ASSUME MonitorInv, NEW r \in Robots,
           beat[r] # Unregistered, quiet[r] = Longest, calm = Longest
    PROVE  beat[r].stuck = TRUE
<1>1. dbDown = FALSE
  <2>1. dbDown \in BOOLEAN /\ calm # 0
    BY LongestIs DEF MonitorInv, MonitorTypes
  <2> QED
    BY <2>1, Zenon DEF MonitorInv
<1>2. beat[r].age = Longest /\ beat[r].stuck \in BOOLEAN
  BY <1>1, BeatIs, LongestIs DEF MonitorInv, AgeStands, Shorter
<1>3. ASSUME beat[r].stuck = FALSE PROVE FALSE
  <2>1. beat[r].age <= IF probe = "done" THEN Stale ELSE Stale + 1
    BY <1>1, <1>3 DEF MonitorInv, AgeStands
  <2>2. Longest = Stale + 3 /\ Stale \in Nat
    BY LongestIs
  <2> QED
    BY <1>2, <2>1, <2>2
<1> QED
  BY <1>2, <1>3

\* A step that flags nobody raises no false alarm.
LEMMA NoNewFlag ==
    ASSUME MonitorInv, NEW r \in Robots, beat'[r].stuck = FALSE \/ beat'[r].stuck = beat[r].stuck
    PROVE  AlarmIsTrue(r)
<1>1. beat[r].stuck \in BOOLEAN
  BY BeatIs DEF MonitorInv
<1>2. ~(beat'[r].stuck /\ ~beat[r].stuck)
  BY <1>1, Zenon
<1>3. (beat[r] # Unregistered /\ quiet[r] = Longest /\ calm = Longest) => beat[r].stuck
  BY LongSilenceIsFlagged
<1> QED
  BY <1>2, <1>3 DEF AlarmIsTrue

LEMMA BeatStep ==
    ASSUME MonitorInv, NEW r \in Robots, Beat(r)
    PROVE  MonitorInv' /\ \A q \in Robots : AlarmIsTrue(q)
<1>1. /\ beat' = [beat EXCEPT ![r] = [age |-> 0, stuck |-> FALSE]]
      /\ quiet' = [quiet EXCEPT ![r] = 0]
      /\ UNCHANGED <<dbDown, probe, calm>>
  BY DEF Beat
<1>2. MonitorTypes
  BY DEF MonitorInv
<1>3. /\ beat'[r] = [age |-> 0, stuck |-> FALSE] /\ quiet'[r] = 0
      /\ \A q \in Robots \ {r} : beat'[q] = beat[q] /\ quiet'[q] = quiet[q]
  BY <1>1, <1>2 DEF MonitorTypes
<1>4. MonitorTypes'
  BY <1>1, <1>2, LongestIs DEF MonitorTypes, BeatState
<1>5. AgeStands(r)'
  BY <1>2, <1>3, <1>1, LongestIs DEF AgeStands, Shorter, MonitorTypes
<1>6. \A q \in Robots \ {r} : AgeStands(q)'
  BY <1>1, <1>3 DEF MonitorInv, AgeStands
<1>7. ASSUME NEW q \in Robots PROVE beat'[q].stuck = FALSE \/ beat'[q].stuck = beat[q].stuck
  <2>1. CASE q = r
    BY <1>3, <2>1
  <2>2. CASE q # r
    BY <1>3, <2>2
  <2> QED
    BY <2>1, <2>2
<1> QED
  BY <1>1, <1>4, <1>5, <1>6, <1>7, NoNewFlag DEF MonitorInv

LEMMA ProbeAnswersStep ==
    ASSUME MonitorInv, ProbeAnswers
    PROVE  MonitorInv' /\ \A q \in Robots : AlarmIsTrue(q)
<1> PICK seen : seen = IF dbDown THEN Renewed(beat) ELSE beat
  OBVIOUS
<1>1. /\ beat' = [r \in Robots |-> [seen[r] EXCEPT !.stuck = @ \/ r \in Silent(seen)]]
      /\ dbDown' = FALSE /\ probe' = "done" /\ UNCHANGED <<quiet, calm>>
  BY DEF ProbeAnswers
<1>2. MonitorTypes
  BY DEF MonitorInv
<1>0. ASSUME NEW r \in Robots
      PROVE  /\ beat[r].age \in -1..Longest /\ beat[r].stuck \in BOOLEAN
             /\ beat[r] = [age |-> beat[r].age, stuck |-> beat[r].stuck]
  BY <1>2, BeatIs
<1>20. ASSUME NEW r \in Robots
      PROVE  /\ quiet[r] \in 0..Longest /\ calm \in 0..Longest
             /\ Shorter(quiet[r], calm) \in 0..Longest
             /\ (calm = 0) => Shorter(quiet[r], calm) = 0
  <2>1. quiet[r] \in 0..Longest /\ calm \in 0..Longest
    BY <1>2 DEF MonitorTypes
  <2> QED
    BY <2>1, LongestIs DEF Shorter
<1>3. ASSUME NEW r \in Robots
      PROVE  /\ seen[r].age \in -1..Longest /\ seen[r].stuck = beat[r].stuck
             /\ seen[r] = [age |-> seen[r].age, stuck |-> seen[r].stuck]
             /\ seen[r] = Unregistered <=> beat[r] = Unregistered
             /\ beat[r] # Unregistered => seen[r].age = Shorter(quiet[r], calm)
  <2>0. MonitorTypes /\ dbDown \in BOOLEAN /\ beat[r].age \in -1..Longest
    BY <1>2, BeatIs DEF MonitorTypes
  <2>1. CASE dbDown = FALSE
    <3>1. seen = beat
      BY <2>1
    <3> QED
      BY <2>0, <2>1, <3>1, BeatIs DEF MonitorInv, AgeStands
  <2>2. CASE dbDown = TRUE
    <3>1. seen[r] = IF beat[r] = Unregistered THEN beat[r] ELSE [beat[r] EXCEPT !.age = 0]
      BY <2>2 DEF Renewed
    <3>2. calm = 0
      BY <2>2 DEF MonitorInv
    <3>3. CASE beat[r] = Unregistered
      BY <2>0, <3>1, <3>3, BeatIs
    <3>4. CASE beat[r] # Unregistered
      <4>1. seen[r] = [age |-> 0, stuck |-> beat[r].stuck]
        <5>1. seen[r] = [beat[r] EXCEPT !.age = 0]
          BY <3>1, <3>4
        <5>2. beat[r] = [age |-> beat[r].age, stuck |-> beat[r].stuck]
          BY <1>0
        <5> QED
          BY <5>1, <5>2
      <4>2. seen[r].age = 0 /\ seen[r].stuck = beat[r].stuck /\ seen[r] # Unregistered
        BY <4>1 DEF Unregistered
      <4>3. Shorter(quiet[r], calm) = 0
        BY <1>20, <3>2
      <4> QED
        BY <3>4, <4>1, <4>2, <4>3, LongestIs
    <3> QED
      BY <3>3, <3>4
  <2> QED
    BY <2>0, <2>1, <2>2
<1>4. ASSUME NEW r \in Robots
      PROVE  /\ beat'[r] = [age |-> seen[r].age, stuck |-> seen[r].stuck \/ r \in Silent(seen)]
             /\ beat'[r].age = seen[r].age /\ beat'[r].stuck = (seen[r].stuck \/ r \in Silent(seen))
  <2>1. beat'[r] = [seen[r] EXCEPT !.stuck = @ \/ r \in Silent(seen)]
    BY <1>1, <1>4
  <2> PICK flag : flag = (seen[r].stuck \/ r \in Silent(seen))
    OBVIOUS
  <2>2. beat'[r] = [seen[r] EXCEPT !.stuck = flag]
    BY <2>1, Zenon
  <2>3. seen[r] = [age |-> seen[r].age, stuck |-> seen[r].stuck]
    BY <1>3
  <2>4. beat'[r] = [age |-> seen[r].age, stuck |-> flag]
    BY <2>2, <2>3
  <2>5. beat'[r].age = seen[r].age /\ beat'[r].stuck = flag
    BY <2>4
  <2> QED
    BY <2>4, <2>5, Zenon
<1>21. \A r \in Robots : beat'[r].age = seen[r].age
  BY <1>4, Zenon
<1>5. ASSUME NEW r \in Robots
      PROVE  /\ beat'[r].stuck \in BOOLEAN
             /\ beat[r].stuck = TRUE => beat'[r].stuck = TRUE
             /\ beat'[r].stuck = FALSE => r \notin Silent(seen) /\ seen[r].stuck = FALSE
             /\ (beat'[r].stuck /\ ~beat[r].stuck) => r \in Silent(seen)
  <2>1. seen[r].stuck \in BOOLEAN /\ seen[r].stuck = beat[r].stuck
    BY <1>2, <1>3, BeatIs
  <2> QED
    BY <1>4, <2>1, Zenon
<1>6. ASSUME NEW r \in Robots
      PROVE  r \in Silent(seen) <=> /\ seen[r] # Unregistered /\ seen[r].stuck = FALSE
                                    /\ seen[r].age > Stale
  <2>1. seen[r].stuck \in BOOLEAN
    BY <1>2, <1>3, BeatIs
  <2> QED
    BY <2>1, Zenon DEF Silent
<1>7. ASSUME NEW r \in Robots
      PROVE  /\ beat'[r] = [age |-> seen[r].age, stuck |-> beat'[r].stuck]
             /\ beat'[r] \in BeatState
  <2>1. beat'[r] = [age |-> seen[r].age, stuck |-> beat'[r].stuck]
    BY <1>4, Zenon
  <2>2. beat'[r].stuck \in BOOLEAN /\ seen[r].age \in -1..Longest
    BY <1>3, <1>5
  <2> QED
    BY <2>1, <2>2 DEF BeatState
<1>8. MonitorTypes'
  <2>1. beat' \in [Robots -> BeatState]
    BY <1>1, <1>7
  <2> QED
    BY <1>1, <1>2, <2>1 DEF MonitorTypes
<1>9. ASSUME NEW r \in Robots PROVE AgeStands(r)'
  <2>1. CASE beat[r] = Unregistered
    <3>1. seen[r] = Unregistered
      BY <1>3, <2>1
    <3>2. beat'[r].stuck = FALSE
      <4>1. seen[r].stuck = FALSE
        BY <3>1 DEF Unregistered
      <4>2. r \notin Silent(seen)
        BY <1>6, <3>1
      <4> QED
        BY <1>4, <4>1, <4>2, Zenon
    <3>3. beat'[r] = Unregistered
      <4>1. beat'[r] = [age |-> seen[r].age, stuck |-> beat'[r].stuck] /\ seen[r].age = -1
        BY <1>7, <3>1 DEF Unregistered
      <4> QED
        BY <3>2, <4>1 DEF Unregistered
    <3> QED
      BY <3>3 DEF AgeStands, Unregistered
  <2>2. CASE beat[r] # Unregistered
    <3>1. beat'[r].age = Shorter(quiet[r], calm) /\ beat'[r].age >= 0
      <4>1. beat'[r].age = Shorter(quiet[r], calm)
        BY <1>3, <1>21, <2>2
      <4>2. Shorter(quiet[r], calm) \in 0..Longest /\ Longest \in Nat
        BY <1>20, LongestIs
      <4> QED
        BY <4>1, <4>2
    <3>2. ASSUME beat'[r].stuck = FALSE PROVE beat'[r].age <= Stale
      <4>1. r \notin Silent(seen) /\ seen[r].stuck = FALSE /\ seen[r] # Unregistered
        BY <1>3, <1>5, <2>2, <3>2
      <4>2. ~(seen[r].age > Stale)
        BY <1>6, <4>1
      <4>3. seen[r].age \in Int /\ beat'[r].age = seen[r].age /\ Stale \in Nat
        <5>1. seen[r].age \in -1..Longest
          BY <1>3
        <5> QED
          BY <1>21, <5>1, LongestIs
      <4> QED
        BY <4>2, <4>3
    <3> QED
      BY <1>1, <3>1, <3>2 DEF AgeStands
  <2> QED
    BY <2>1, <2>2
<1>10. ASSUME NEW r \in Robots PROVE AlarmIsTrue(r)
  <2>1. ASSUME beat'[r].stuck /\ ~beat[r].stuck PROVE quiet[r] > Stale /\ calm > Stale
    <3>1. r \in Silent(seen)
      BY <1>5, <2>1, Zenon
    <3>2. seen[r].age > Stale /\ seen[r].age = Shorter(quiet[r], calm)
      BY <1>3, <1>6, <3>1
    <3>3. quiet[r] \in Int /\ calm \in Int /\ Stale \in Int
      BY <1>20, LongestIs
    <3> QED
      BY <3>2, <3>3 DEF Shorter
  <2>2. (beat[r] # Unregistered /\ quiet[r] = Longest /\ calm = Longest) => beat[r].stuck
    BY LongSilenceIsFlagged
  <2> QED
    BY <2>1, <2>2, Zenon DEF AlarmIsTrue
<1> QED
  BY <1>1, <1>8, <1>9, <1>10 DEF MonitorInv

LEMMA ProbeFailsStep ==
    ASSUME MonitorInv, ProbeFails \/ WatchdogStarts
    PROVE  MonitorInv' /\ \A q \in Robots : AlarmIsTrue(q)
<1>1. beat' = beat /\ quiet' = quiet /\ probe' \in {"idle", "waiting", "done"}
  BY DEF ProbeFails, WatchdogStarts
<1>2. \/ dbDown' = TRUE /\ calm' = 0
      \/ dbDown' = dbDown /\ calm' = calm /\ probe # "done" /\ probe' # "done"
  BY DEF ProbeFails, WatchdogStarts
<1>3. dbDown' \in BOOLEAN /\ calm' \in 0..Longest
  <2>1. dbDown \in BOOLEAN /\ calm \in 0..Longest /\ 0 \in 0..Longest
    BY LongestIs DEF MonitorInv, MonitorTypes
  <2> QED
    BY <1>2, <2>1, Zenon
<1>4. MonitorTypes'
  BY <1>1, <1>3 DEF MonitorInv, MonitorTypes
<1>5. \A r \in Robots : AgeStands(r)'
  BY <1>1, <1>2 DEF MonitorInv, AgeStands
<1>6. \A r \in Robots : beat'[r].stuck = beat[r].stuck
  BY <1>1
<1> QED
  BY <1>2, <1>4, <1>5, <1>6, NoNewFlag DEF MonitorInv

LEMMA PeriodStep ==
    ASSUME MonitorInv, PeriodPasses
    PROVE  MonitorInv' /\ \A q \in Robots : AlarmIsTrue(q)
<1>1. /\ probe = "done" /\ probe' = "idle" /\ dbDown' = dbDown
      /\ beat' = [r \in Robots |-> IF beat[r] = Unregistered THEN beat[r]
                                   ELSE [beat[r] EXCEPT !.age = Later(@)]]
      /\ quiet' = [r \in Robots |-> Later(quiet[r])]
      /\ calm' = IF dbDown THEN 0 ELSE Later(calm)
  BY DEF PeriodPasses
<1>2. MonitorTypes /\ dbDown \in BOOLEAN /\ calm \in 0..Longest
  BY DEF MonitorInv, MonitorTypes
<1>3. /\ dbDown = FALSE => calm' = Later(calm)
      /\ dbDown = TRUE => calm' = 0
  BY <1>1
<1>4. calm' \in 0..Longest
  BY <1>2, <1>3, LaterIs, LongestIs
<1>5. ASSUME NEW r \in Robots
      PROVE  /\ beat'[r] \in BeatState /\ beat'[r].stuck = beat[r].stuck
             /\ quiet'[r] = Later(quiet[r]) /\ quiet'[r] \in 0..Longest
             /\ AgeStands(r)'
  <2>0. /\ beat[r].age \in -1..Longest /\ beat[r].stuck \in BOOLEAN
        /\ beat[r] = [age |-> beat[r].age, stuck |-> beat[r].stuck] /\ quiet[r] \in 0..Longest
    BY <1>2, BeatIs
  <2>1. quiet'[r] = Later(quiet[r]) /\ quiet'[r] \in 0..Longest
    BY <1>1, <2>0, LaterIs
  <2>2. CASE beat[r] = Unregistered
    <3>1. beat'[r] = beat[r]
      BY <1>1, <2>2
    <3> QED
      BY <2>0, <2>1, <2>2, <3>1 DEF BeatState, AgeStands
  <2>3. CASE beat[r] # Unregistered
    <3>1. beat'[r] = [age |-> Later(beat[r].age), stuck |-> beat[r].stuck]
      BY <1>1, <2>0, <2>3
    <3>2. beat'[r].age = Later(beat[r].age) /\ beat'[r].stuck = beat[r].stuck
      BY <3>1
    <3>3. beat[r].age \in 0..Longest
      BY <2>0, <2>3, LongestIs DEF MonitorInv, AgeStands
    <3>4. Later(beat[r].age) \in 0..Longest /\ Later(beat[r].age) <= beat[r].age + 1
      BY <3>3, LaterIs
    <3>5. dbDown = FALSE => beat'[r].age = Shorter(quiet'[r], calm')
      BY <1>2, <1>3, <2>0, <2>1, <2>3, <3>2, LaterIs DEF MonitorInv, AgeStands
    <3>6. (dbDown = FALSE /\ beat'[r].stuck = FALSE) => beat'[r].age <= Stale + 1
      BY <1>1, <2>3, <3>2, <3>3, <3>4, LongestIs DEF MonitorInv, AgeStands
    <3>7. AgeStands(r)'
      BY <1>1, <3>2, <3>4, <3>5, <3>6 DEF AgeStands
    <3> QED
      BY <2>0, <2>1, <3>1, <3>2, <3>4, <3>7 DEF BeatState
  <2> QED
    BY <2>2, <2>3
<1>6. MonitorTypes'
  <2>1. beat' \in [Robots -> BeatState] /\ quiet' \in [Robots -> 0..Longest]
    BY <1>1, <1>5
  <2> QED
    BY <1>1, <1>2, <1>4, <2>1 DEF MonitorTypes
<1>7. \A r \in Robots : beat'[r].stuck = beat[r].stuck
  BY <1>5
<1> QED
  BY <1>1, <1>3, <1>5, <1>6, <1>7, NoNewFlag DEF MonitorInv

LEMMA MonitorBegins == MonitorInit => MonitorInv
<1> SUFFICES ASSUME MonitorInit PROVE MonitorInv
  OBVIOUS
<1>1. dbDown = FALSE /\ beat = [r \in Robots |-> Unregistered]
  BY DEF MonitorInit
<1>2. Unregistered \in BeatState
  BY LongestIs DEF Unregistered, BeatState
<1>3. MonitorTypes
  <2>1. beat \in [Robots -> BeatState] /\ quiet \in [Robots -> 0..Longest] /\ calm \in 0..Longest
    <3>1. quiet = [r \in Robots |-> 0] /\ calm = Longest
      BY DEF MonitorInit
    <3>2. 0 \in 0..Longest /\ Longest \in 0..Longest
      BY LongestIs
    <3> QED
      BY <1>1, <1>2, <3>1, <3>2
  <2>2. probe \in {"idle", "waiting", "done"}
    BY DEF MonitorInit
  <2>3. dbDown \in BOOLEAN
    BY <1>1
  <2> QED
    BY <2>1, <2>2, <2>3, Zenon DEF MonitorTypes
<1>4. \A r \in Robots : AgeStands(r)
  BY <1>1 DEF AgeStands
<1> QED
  BY <1>1, <1>3, <1>4 DEF MonitorInv

LEMMA MonitorStep ==
    ASSUME MonitorInv, [MonitorNext]_monitorVars
    PROVE  MonitorInv' /\ [\A r \in Robots : AlarmIsTrue(r)]_monitorVars
<1>1. CASE UNCHANGED monitorVars
  BY <1>1 DEF monitorVars, MonitorInv, MonitorTypes, AgeStands
<1> QED
  BY <1>1, BeatStep, ProbeAnswersStep, ProbeFailsStep, PeriodStep DEF MonitorNext

\* An alarm is true, whatever the threshold: the robot has been silent for longer,
\* all of it with a bank that answers; and it is raised in time.
THEOREM AlarmsAreAlwaysTrue == MonitorSpec => AlarmsAreTrue
<1>1. MonitorInv /\ [MonitorNext]_monitorVars =>
        [\A r \in Robots :
           /\ beat'[r].stuck /\ ~beat[r].stuck => quiet[r] > Stale /\ calm > Stale
           /\ (beat[r] # Unregistered /\ quiet[r] = Longest /\ calm = Longest)
                 => beat[r].stuck]_monitorVars
  BY MonitorStep DEF AlarmIsTrue
<1>2. MonitorInv /\ [MonitorNext]_monitorVars => MonitorInv'
  BY MonitorStep
<1> QED
  BY <1>1, <1>2, MonitorBegins, PTL DEF MonitorSpec, AlarmsAreTrue
-----------------------------------------------------------------------------
(* The timeline of a match.  A pass works on what it fetched; what it has    *)
(* written and not told yet it still holds as news.                          *)

FeedTypes ==
    /\ feed \in Listing
    /\ copying # None => copying \in Copying
    /\ lineup \in [Squad -> Versioned]
    /\ DOMAIN prose = LineIds

FeedFlags == /\ fresh \in BOOLEAN /\ silent \in BOOLEAN /\ unsignalled \in BOOLEAN
             /\ announced \in BOOLEAN /\ unannounced \in BOOLEAN

\* The words kept of a line that tells a play are those of this match.
PlaysAreOurs ==
    \A l \in LineIds : l[1] = "cmt" => prose[l] \in {None, [of |-> "this", reads |-> "this"]}

Twins == {<<"cmt", k>> : k \in {s \in KeyIds : KeyKind[s] = "var"}}

EventsFollow(full, kept) ==
    /\ Parsed(full) \ Twins \subseteq kept
    /\ full.keys # {} => KeptKeys(kept) \cap Revised = full.keys \cap Revised

WordsFollow(full, words) == words \cap full.keys = full.revised \cap full.keys

ProseFollows(full) ==
    /\ boxscore = full.stats
    /\ \A n \in ServedLines(full) : Plays[n].id # None => KeptOfThis(n)

CopiedSoFar ==
    /\ (copying # None /\ copying.at \in {"prose", "signal"}) =>
          EventsFollow(copying.full, timeline) /\ WordsFollow(copying.full, revised)
    /\ (copying # None /\ copying.at = "signal") => ProseFollows(copying.full)

FollowsInv == FeedTypes /\ PlaysAreOurs /\ CopiedSoFar

\* What the pages, and the followers, are still to be told.
PagesAreTold ==
    \/ unsignalled \/ silent \/ fresh
    \/ /\ copying # None
       /\ \/ copying.at \in {"events", "prose", "signal"} /\ copying.newLineup
          \/ copying.at \in {"prose", "signal"} /\ copying.newRows
FollowersAreTold ==
    \/ Listed(lineup) = {} \/ announced \/ unannounced
    \/ copying # None /\ copying.at \in {"events", "prose", "signal"} /\ copying.appeared

LEMMA TwoMax ==
    ASSUME NEW a \in Int, NEW b \in Int
    PROVE  Max({a, b}) \in {a, b} /\ Max({a, b}) >= a /\ Max({a, b}) >= b
<1>1. \E x \in {a, b} : \A y \in {a, b} : x >= y
  <2>1. CASE a >= b
    BY <2>1
  <2>2. CASE b >= a
    BY <2>2
  <2> QED
    BY <2>1, <2>2
<1> QED
  BY <1>1 DEF Max

\* The lines served are lines there are.
LEMMA ServedAreLines ==
    ASSUME NEW full \in Listing
    PROVE  ServedLines(full) \subseteq DOMAIN Plays /\ \A n \in ServedLines(full) : n < Len(Plays) + 1
<1>1. Len(Plays) \in Nat /\ DOMAIN Plays = 1..Len(Plays) /\ Window \in Nat
  BY MatchFeedAssumption
<1>2. full.told \in 0..Len(Plays)
  BY DEF Listing
<1> DEFINE last == full.told - Window + 1
<1>3. last \in Int
  BY <1>1, <1>2
<1> HIDE DEF last
<1>4. Max({1, last}) \in {1, last} /\ Max({1, last}) >= 1
  BY <1>3, TwoMax
<1>5. Max({1, last}) \in Int
  BY <1>3, <1>4
<1> USE DEF last
<1> QED
  BY <1>1, <1>2, <1>4, <1>5 DEF ServedLines

\* Where a pass goes on, whatever it holds.
LEMMA CopyingMoves ==
    ASSUME copying \in Copying, NEW at \in Stages, copying' = [copying EXCEPT !.at = at]
    PROVE  /\ copying' \in Copying /\ copying' # None /\ copying'.at = at
           /\ copying'.full = copying.full
           /\ copying'.newLineup = copying.newLineup /\ copying'.newRows = copying.newRows
           /\ copying'.appeared = copying.appeared
<1>1. copying' \in Copying
  BY DEF Copying
<1>2. copying' # None
  BY <1>1, MatchFeedAssumption
<1>3. copying'.at = at /\ copying'.full = copying.full
  BY DEF Copying
<1>4. /\ copying'.newLineup = copying.newLineup /\ copying'.newRows = copying.newRows
      /\ copying'.appeared = copying.appeared
  BY DEF Copying
<1> QED
  BY <1>1, <1>2, <1>3, <1>4

-----------------------------------------------------------------------------
(* The timeline is what the pass read.                                       *)

\* What ESPN's own list says of goals and reviews is what is kept of them, and all
\* that was read is kept, but for the twin of a notice withdrawn.
LEMMA EventsWritten ==
    ASSUME NEW full \in Listing, NEW kept, NEW upserted, upserted = kept \cup Parsed(full),
           NEW gone, gone = IF Parsed(full) = {} THEN {} ELSE upserted \cap Retracted(full, upserted)
    PROVE  EventsFollow(full, upserted \ gone)
<1> DEFINE stale == Outdated(full, KeptKeys(upserted))
<1>0. full.keys \subseteq KeyIds
  BY DEF Listing
<1>1. Retracted(full, upserted) \subseteq KeyRows(stale) \cup Twins
  BY DEF Retracted, Outdated, KeptKeys, Twins
<1>2. KeyRows(stale) \subseteq Retracted(full, upserted)
  BY DEF Retracted
<1>3. KeyRows(stale) \cap Parsed(full) = {}
  <2>1. \A k \in stale : k \notin full.keys
    BY DEF Outdated
  <2>2. \A k \in stale : <<"key", k>> \notin KeyRows(full.keys)
    BY <2>1 DEF KeyRows
  <2>3. \A k : <<"key", k>> \notin PlayRows(ParsedPlays(full))
    BY DEF PlayRows
  <2> HIDE DEF stale
  <2> QED
    BY <2>2, <2>3 DEF KeyRows, Parsed
<1>4. gone \subseteq KeyRows(stale) \cup Twins
  BY <1>1
<1>5. Parsed(full) \ Twins \subseteq upserted \ gone
  BY <1>3, <1>4
<1>6. ASSUME full.keys # {} PROVE KeptKeys(upserted \ gone) \cap Revised = full.keys \cap Revised
  <2>1. Parsed(full) # {} /\ \A k \in full.keys : <<"key", k>> \in Parsed(full)
    BY <1>6 DEF Parsed, KeyRows
  <2>2. gone = upserted \cap Retracted(full, upserted)
    BY <2>1
  <2>3. ASSUME NEW k \in KeptKeys(upserted \ gone) \cap Revised PROVE k \in full.keys
    <3>1. k \in KeyIds /\ <<"key", k>> \in upserted /\ <<"key", k>> \notin gone /\ KeyKind[k] # "card"
      BY <2>3 DEF KeptKeys, Revised
    <3>2. k \notin full.keys => k \in stale
      BY <1>6, <3>1 DEF Outdated, KeptKeys
    <3>3. k \in stale => <<"key", k>> \in gone
      BY <1>2, <2>2, <3>1 DEF KeyRows
    <3> QED
      BY <3>1, <3>2, <3>3
  <2>4. ASSUME NEW k \in full.keys PROVE k \in KeptKeys(upserted \ gone)
    <3>1. <<"key", k>> \in Parsed(full) /\ k \in KeyIds
      BY <1>0, <2>1, <2>4
    <3>2. <<"key", k>> \notin Twins
      BY DEF Twins
    <3> QED
      BY <1>5, <3>1, <3>2 DEF KeptKeys
  <2> QED
    BY <2>3, <2>4
<1> QED
  BY <1>5, <1>6 DEF EventsFollow

\* A key event that was read is kept in the words it was read in.
LEMMA WordsWritten ==
    ASSUME NEW full \in Listing, NEW kept, EventsFollow(full, kept), NEW words,
           words = Worded(full, Parsed(full)) \cap KeptKeys(kept)
    PROVE  WordsFollow(full, words)
<1>1. ASSUME NEW k \in full.keys
      PROVE  k \in KeptKeys(Parsed(full)) /\ k \in KeptKeys(kept)
  <2>1. k \in KeyIds
    BY DEF Listing
  <2>2. <<"key", k>> \in Parsed(full) /\ <<"key", k>> \notin Twins
    BY DEF Parsed, KeyRows, Twins
  <2> QED
    BY <2>1, <2>2 DEF EventsFollow, KeptKeys
<1> QED
  BY <1>1 DEF WordsFollow, Worded

\* A row that tells a play of this match tells it in its words, when written.
LEMMA ProseWritten ==
    ASSUME DOMAIN prose = LineIds, PlaysAreOurs, NEW ids, NEW match_ \in {"this", "other"},
           match_ = "other" => \A l \in ids : l[1] = "seq",
           prose' = Upserted(prose, ids, match_)
    PROVE  /\ DOMAIN prose' = LineIds /\ PlaysAreOurs'
           /\ \A l \in LineIds : (l \in ids /\ l[1] = "cmt") =>
                prose'[l] = [of |-> "this", reads |-> "this"]
<1> DEFINE ours == [of |-> "this", reads |-> "this"]
<1>1. prose' = [l \in LineIds |-> IF l \notin ids THEN prose[l]
                      ELSE IF prose[l] = None THEN [of |-> match_, reads |-> match_]
                      ELSE [prose[l] EXCEPT !.reads = match_]]
  BY DEF Upserted
<1>2. DOMAIN prose' = LineIds
  BY <1>1
<1>3. ASSUME NEW l \in LineIds, l[1] = "cmt"
      PROVE  prose'[l] \in {None, ours} /\ (l \in ids => prose'[l] = ours)
  <2>1. prose[l] \in {None, ours}
    BY <1>3 DEF PlaysAreOurs
  <2>2. CASE l \notin ids
    BY <1>1, <2>1, <2>2
  <2>3. CASE l \in ids
    <3>1. match_ = "this"
      BY <1>3, <2>3
    <3>2. [ours EXCEPT !.reads = "this"] = ours
      OBVIOUS
    <3> QED
      BY <1>1, <2>1, <2>3, <3>1, <3>2
  <2> QED
    BY <2>2, <2>3
<1> QED
  BY <1>2, <1>3 DEF PlaysAreOurs

LEMMA FetchFollows ==
    ASSUME FollowsInv, Fetch
    PROVE  FollowsInv'
<1>1. PICK keys \in {feed.keys, {}} :
        copying' = [at |-> "lineup", full |-> [feed EXCEPT !.keys = keys],
                    newLineup |-> FALSE, appeared |-> FALSE, newRows |-> FALSE]
  BY DEF Fetch
<1>2. UNCHANGED <<feed, timeline, revised, lineup, boxscore, prose>>
  BY DEF Fetch
<1>3. [feed EXCEPT !.keys = keys] \in Listing
  BY DEF FollowsInv, FeedTypes, Listing
<1>4. copying' \in Copying /\ copying'.at = "lineup"
  BY <1>1, <1>3 DEF Copying, Stages
<1> QED
  BY <1>2, <1>4 DEF FollowsInv, FeedTypes, PlaysAreOurs, CopiedSoFar

\* Nothing but the feed, or the rows of another match, is written between passes.
LEMMA BetweenPasses ==
    ASSUME FollowsInv, FeedMoves \/ OtherMatchIsCopied
    PROVE  FollowsInv'
<1>1. copying = None /\ UNCHANGED <<timeline, revised, lineup, boxscore, copying>>
  BY DEF FeedMoves, OtherMatchIsCopied
<1>2. CASE FeedMoves
  <2>1. feed' \in Listing
    <3>1. feed \in Listing /\ Len(Plays) \in Nat
      BY MatchFeedAssumption DEF FollowsInv, FeedTypes
    <3>2. ASSUME NEW k \in KeyIds, feed' = [feed EXCEPT !.keys = IF k \in @ THEN @ \ {k} ELSE @ \cup {k}]
          PROVE  feed' \in Listing
      BY <3>1, <3>2 DEF Listing
    <3>3. CASE feed.told < Len(Plays) /\ feed' = [feed EXCEPT !.told = @ + 1, !.stats = 1 - @]
      <4>1. /\ feed.keys \in SUBSET KeyIds /\ feed.revised \in SUBSET KeyIds
            /\ feed.roster \in [Squad -> Versioned]
            /\ feed.told \in 0 .. Len(Plays) /\ feed.stats \in {0, 1}
        BY <3>1 DEF Listing
      <4>2. feed.told + 1 \in 0 .. Len(Plays) /\ 1 - feed.stats \in {0, 1}
        BY <3>1, <3>3, <4>1
      <4>3. feed = [keys |-> feed.keys, revised |-> feed.revised, told |-> feed.told, stats |-> feed.stats,
                    roster |-> feed.roster]
        BY <3>1 DEF Listing
      <4>4. feed' = [keys |-> feed.keys, revised |-> feed.revised, told |-> feed.told + 1, stats |-> 1 - feed.stats,
                     roster |-> feed.roster]
        BY <3>3, <4>3
      <4> QED
        BY <4>1, <4>2, <4>4 DEF Listing
    <3>5. ASSUME NEW k \in feed.keys \cap Revisable, feed' = [feed EXCEPT !.revised = @ \cup {k}]
          PROVE  feed' \in Listing
      BY <3>1, <3>5 DEF Listing
    <3>4. ASSUME NEW p \in Squad, NEW v \in Versioned, feed' = [feed EXCEPT !.roster[p] = v]
          PROVE  feed' \in Listing
      BY <3>1, <3>4 DEF Listing
    <3> QED
      BY <1>2, <3>2, <3>3, <3>4, <3>5 DEF FeedMoves
  <2>2. prose' = prose
    BY <1>2 DEF FeedMoves
  <2> QED
    BY <1>1, <2>1, <2>2 DEF FollowsInv, FeedTypes, PlaysAreOurs, CopiedSoFar
<1>3. CASE OtherMatchIsCopied
  <2>1. PICK n \in {k \in DOMAIN Plays : Plays[k].id = None} :
          prose' = Upserted(prose, {LineId(n)}, "other")
    BY <1>3 DEF OtherMatchIsCopied
  <2>2. LineId(n)[1] = "seq"
    BY DEF LineId
  <2>3. DOMAIN prose' = LineIds /\ PlaysAreOurs'
    BY <2>1, <2>2, ProseWritten DEF FollowsInv, FeedTypes
  <2>4. feed' = feed
    BY <1>3 DEF OtherMatchIsCopied
  <2> QED
    BY <1>1, <2>3, <2>4 DEF FollowsInv, FeedTypes, CopiedSoFar
<1> QED
  BY <1>2, <1>3

\* The line-up's step, whole or cut.
LEMMA LineupWritten ==
    ASSUME FeedTypes, WriteLineup
    PROVE  /\ copying # None /\ copying \in Copying /\ copying.at = "lineup"
           /\ lineup' \in [Squad -> Versioned]
           /\ UNCHANGED <<feed, timeline, revised, boxscore, prose, announced>>
           /\ \/ copying' = None
              \/ /\ copying' \in Copying /\ copying' # None /\ copying'.at = "events"
                 /\ copying'.full = copying.full
<1> DEFINE sheet == copying.full.roster
           After(done) == [p \in Squad |-> IF p \in done THEN sheet[p] ELSE lineup[p]]
<1>1. /\ copying # None /\ copying.at = "lineup"
      /\ UNCHANGED <<feed, timeline, revised, boxscore, prose, announced>>
  BY DEF WriteLineup
<1>2. copying \in Copying /\ lineup \in [Squad -> Versioned]
  BY <1>1 DEF FeedTypes
<1>3. sheet \in [Squad -> Versioned]
  BY <1>2 DEF Copying, Listing
<1>4. \A done : After(done) \in [Squad -> Versioned]
  BY <1>2, <1>3
<1>5. \/ \E done : lineup' = After(done) /\ copying' = None
      \/ /\ lineup' = After(Listed(sheet))
         /\ \E l \in BOOLEAN, a \in BOOLEAN :
              copying' = [copying EXCEPT !.at = "events", !.newLineup = l, !.appeared = a]
  <2>1. CASE \E done \in SUBSET Listed(sheet) :
               /\ lineup' = After(done)
               /\ Cut(lineup' # lineup, Listed(lineup) = {} /\ done # {})
    BY <2>1 DEF Cut
  <2>2. CASE /\ lineup' = After(Listed(sheet))
             /\ copying' = [copying EXCEPT !.at = "events",
                                     !.newLineup = /\ Listed(sheet) # {}
                                                   /\ Signature(sheet) # Signature(lineup),
                                     !.appeared = Appeared(Listed(lineup), Listed(sheet))]
    <3>1. (Listed(sheet) # {} /\ Signature(sheet) # Signature(lineup)) \in BOOLEAN
      OBVIOUS
    <3>2. Appeared(Listed(lineup), Listed(sheet)) \in BOOLEAN
      BY DEF Appeared
    <3> HIDE DEF sheet
    <3> QED
      BY <2>2, <3>1, <3>2, Zenon
  <2> QED
    BY <2>1, <2>2 DEF WriteLineup
<1>6. ASSUME NEW l \in BOOLEAN, NEW a \in BOOLEAN,
             copying' = [copying EXCEPT !.at = "events", !.newLineup = l, !.appeared = a]
      PROVE  /\ copying' \in Copying /\ copying' # None /\ copying'.at = "events"
             /\ copying'.full = copying.full
  <2>1. copying' \in Copying
    BY <1>2, <1>6 DEF Copying, Stages
  <2>2. copying' # None
    BY <2>1, MatchFeedAssumption
  <2>3. copying'.at = "events" /\ copying'.full = copying.full
    BY <1>2, <1>6 DEF Copying
  <2> QED
    BY <2>1, <2>2, <2>3
<1> HIDE DEF sheet, After
<1> QED
  BY <1>1, <1>2, <1>4, <1>5, <1>6

\* The events' step, whole or cut.
LEMMA EventsStep ==
    ASSUME FeedTypes, WriteEvents
    PROVE  /\ copying # None /\ copying \in Copying /\ copying.at = "events"
           /\ UNCHANGED <<feed, lineup, boxscore, prose, announced>>
           /\ \/ copying' = None
              \/ /\ copying' \in Copying /\ copying' # None /\ copying'.at = "prose"
                 /\ copying'.full = copying.full /\ EventsFollow(copying.full, timeline')
                 /\ WordsFollow(copying.full, revised')
<1>1. /\ copying # None /\ copying.at = "events"
      /\ UNCHANGED <<feed, lineup, boxscore, prose, announced>>
  BY DEF WriteEvents
<1>2. copying \in Copying /\ copying.full \in Listing
  BY <1>1 DEF FeedTypes, Copying
<1> PICK parsed, upserted, gone :
      /\ parsed = Parsed(copying.full) /\ upserted = timeline \cup parsed
      /\ gone = IF parsed = {} THEN {} ELSE upserted \cap Retracted(copying.full, upserted)
  OBVIOUS
<1>3. \/ copying' = None
      \/ /\ timeline' = upserted \ gone
         /\ revised' = Worded(copying.full, parsed) \cap KeptKeys(timeline')
         /\ copying' = [copying EXCEPT !.at = "prose", !.newRows = News(parsed \ timeline, gone)]
  BY DEF WriteEvents, Cut
<1>4. ASSUME timeline' = upserted \ gone,
             revised' = Worded(copying.full, parsed) \cap KeptKeys(timeline'),
             copying' = [copying EXCEPT !.at = "prose", !.newRows = News(parsed \ timeline, gone)]
      PROVE  /\ copying' \in Copying /\ copying' # None /\ copying'.at = "prose"
             /\ copying'.full = copying.full /\ EventsFollow(copying.full, timeline')
             /\ WordsFollow(copying.full, revised')
  <2>1. News(parsed \ timeline, gone) \in BOOLEAN
    BY DEF News
  <2> PICK news_ \in BOOLEAN : news_ = News(parsed \ timeline, gone)
    BY <2>1, Zenon
  <2>2. copying' = [copying EXCEPT !.at = "prose", !.newRows = news_]
    BY <1>4, Zenon
  <2>3. copying' \in Copying
    BY <1>2, <2>2 DEF Copying, Stages
  <2>4. copying' # None
    BY <2>3, MatchFeedAssumption
  <2>5. copying'.at = "prose" /\ copying'.full = copying.full
    BY <1>2, <2>2 DEF Copying
  <2>6. EventsFollow(copying.full, upserted \ gone)
    BY <1>2, EventsWritten
  <2>7. WordsFollow(copying.full, revised')
    BY <1>2, <1>4, <2>6, WordsWritten
  <2> QED
    BY <1>4, <2>3, <2>4, <2>5, <2>6, <2>7
<1> QED
  BY <1>1, <1>2, <1>3, <1>4

\* The prose's step, whole or cut.
LEMMA ProseStep ==
    ASSUME FeedTypes, PlaysAreOurs, WriteProse
    PROVE  /\ copying # None /\ copying \in Copying /\ copying.at = "prose"
           /\ UNCHANGED <<feed, timeline, revised, lineup, announced>>
           /\ DOMAIN prose' = LineIds /\ PlaysAreOurs'
           /\ \/ copying' = None
              \/ copying' = [copying EXCEPT !.at = "signal"] /\ ProseFollows(copying.full)'
<1> DEFINE full == copying.full
           SoFar(n) == {LineId(k) : k \in {j \in ServedLines(full) : j < n}}
           Kept_(n) == Upserted(prose, SoFar(n), "this")
<1>1. /\ copying # None /\ copying.at = "prose" /\ UNCHANGED <<feed, timeline, revised, lineup, announced>>
  BY DEF WriteProse
<1>2. copying \in Copying /\ full \in Listing /\ DOMAIN prose = LineIds
  BY <1>1 DEF FeedTypes, Copying
<1>3. \/ /\ boxscore' = KeptStats(full) /\ prose' = Kept_(Len(Plays) + 1)
         /\ copying' = [copying EXCEPT !.at = "signal"]
      \/ copying' = None /\ (prose' = prose \/ \E n \in ServedLines(full) : prose' = Kept_(n))
  BY DEF WriteProse, Cut
<1>4. ASSUME NEW n, prose' = Kept_(n)
      PROVE  /\ DOMAIN prose' = LineIds /\ PlaysAreOurs'
             /\ \A l \in LineIds : (l \in SoFar(n) /\ l[1] = "cmt") =>
                  prose'[l] = [of |-> "this", reads |-> "this"]
  <2> HIDE DEF SoFar
  <2> QED
    BY <1>2, <1>4, ProseWritten
<1>5. ASSUME boxscore' = KeptStats(full), prose' = Kept_(Len(Plays) + 1),
             copying' = [copying EXCEPT !.at = "signal"]
      PROVE  ProseFollows(full)'
  <2>1. copying'.full = full
    BY <1>2, <1>5 DEF Copying
  <2>2. ASSUME NEW n \in ServedLines(full), Plays[n].id # None PROVE KeptOfThis(n)'
    <3>1. n \in DOMAIN Plays /\ n < Len(Plays) + 1
      BY <1>2, <2>2, ServedAreLines
    <3>2. LineId(n) \in LineIds /\ LineId(n)[1] = "cmt" /\ LineId(n) \in SoFar(Len(Plays) + 1)
      BY <2>2, <3>1 DEF LineId, LineIds
    <3> HIDE DEF SoFar, full
    <3>3. prose'[LineId(n)] = [of |-> "this", reads |-> "this"]
      BY <1>4, <1>5, <3>2
    <3> QED
      BY <3>3 DEF KeptOfThis, LineId
  <2>3. boxscore' = full.stats
    BY <1>5 DEF KeptStats
  <2>4. ServedLines(full)' = ServedLines(full)
    BY <2>1 DEF ServedLines
  <2> QED
    BY <2>1, <2>2, <2>3, <2>4 DEF ProseFollows
<1>6. prose' = prose => DOMAIN prose' = LineIds /\ PlaysAreOurs'
  BY <1>2 DEF PlaysAreOurs
<1> HIDE DEF full, Kept_
<1>7. DOMAIN prose' = LineIds /\ PlaysAreOurs'
  BY <1>3, <1>4, <1>6
<1> QED
  BY <1>1, <1>2, <1>3, <1>5, <1>7 DEF full

LEMMA FollowsKept == FollowsInv /\ [MatchFeedNext]_matchFeedVars => FollowsInv'
<1> SUFFICES ASSUME FollowsInv, [MatchFeedNext]_matchFeedVars PROVE FollowsInv'
  OBVIOUS
<1>0. FeedTypes /\ PlaysAreOurs
  BY DEF FollowsInv
<1>1. CASE WriteLineup
  <2>1. PlaysAreOurs'
    BY <1>0, <1>1, LineupWritten DEF PlaysAreOurs
  <2> QED
    BY <1>0, <1>1, <2>1, LineupWritten DEF FollowsInv, FeedTypes, CopiedSoFar
<1>2. CASE WriteEvents
  <2>1. PlaysAreOurs'
    BY <1>0, <1>2, EventsStep DEF PlaysAreOurs
  <2> QED
    BY <1>0, <1>2, <2>1, EventsStep DEF FollowsInv, FeedTypes, CopiedSoFar
<1>3. CASE WriteProse
  <2>1. /\ copying # None /\ copying \in Copying /\ copying.at = "prose"
        /\ UNCHANGED <<feed, timeline, revised, lineup, announced>>
        /\ DOMAIN prose' = LineIds /\ PlaysAreOurs'
    BY <1>0, <1>3, ProseStep
  <2>2. CASE copying' = None
    BY <1>0, <2>1, <2>2 DEF FollowsInv, FeedTypes, CopiedSoFar
  <2>3. CASE copying' = [copying EXCEPT !.at = "signal"] /\ ProseFollows(copying.full)'
    <3>1. /\ copying' \in Copying /\ copying' # None /\ copying'.at = "signal"
          /\ copying'.full = copying.full
      BY <2>1, <2>3, CopyingMoves DEF Stages
    <3>2. EventsFollow(copying'.full, timeline') /\ WordsFollow(copying'.full, revised')
      BY <2>1, <3>1 DEF FollowsInv, CopiedSoFar
    <3>3. ProseFollows(copying.full)'
      BY <2>3
    <3> QED
      BY <1>0, <2>1, <3>1, <3>2, <3>3 DEF FollowsInv, FeedTypes, CopiedSoFar
  <2> QED
    BY <1>0, <1>3, <2>2, <2>3, ProseStep
<1>4. CASE Signal
  <2>1. copying' = None /\ UNCHANGED <<feed, timeline, revised, lineup, boxscore, prose>>
    BY <1>4 DEF Signal
  <2> QED
    BY <1>0, <2>1 DEF FollowsInv, FeedTypes, PlaysAreOurs, CopiedSoFar
<1>5. CASE UNCHANGED matchFeedVars
  BY <1>5 DEF matchFeedVars, FollowsInv, FeedTypes, PlaysAreOurs, CopiedSoFar, ProseFollows, KeptOfThis
<1> QED
  BY <1>1, <1>2, <1>3, <1>4, <1>5, FetchFollows, BetweenPasses DEF MatchFeedNext

LEMMA FollowsBegins == MatchFeedInit => FollowsInv
<1> SUFFICES ASSUME MatchFeedInit PROVE FollowsInv
  OBVIOUS
<1>1. feed \in Listing
  <2>1. 0 \in 0..Len(Plays)
    BY MatchFeedAssumption
  <2> QED
    BY <2>1 DEF MatchFeedInit, Listing, NoSheet, Versioned
<1>2. copying = None /\ lineup \in [Squad -> Versioned] /\ prose = [l \in LineIds |-> None]
  BY DEF MatchFeedInit, NoSheet, Versioned
<1> QED
  BY <1>1, <1>2 DEF FollowsInv, FeedTypes, PlaysAreOurs, CopiedSoFar

\* Whatever earlier passes left half done, a pass that wrote everything leaves in
\* the timeline what it read, for any events, plays and window.
THEOREM TimelineAlwaysFollows == MatchFeedSpec => []TimelineFollows
<1>1. FollowsInv => TimelineFollows
  BY DEF FollowsInv, CopiedSoFar, TimelineFollows, AllWritten, EventsFollow, WordsFollow,
     ProseFollows, Twins
<1> QED
  BY <1>1, FollowsBegins, FollowsKept, PTL DEF MatchFeedSpec
-----------------------------------------------------------------------------
(* The pages and the followers of a match.  What was written and not told yet *)
(* the pass still holds as news; a pass that is cut says so.                  *)

\* A cut pass owes what it did not tell.
LEMMA CutOwes ==
    ASSUME NEW wrote \in BOOLEAN, NEW appeared \in BOOLEAN, FeedFlags, Cut(wrote, appeared)
    PROVE  /\ copying' = None
           /\ fresh' \in BOOLEAN /\ unsignalled' \in BOOLEAN /\ unannounced' \in BOOLEAN
           /\ unsignalled' \/ fresh'
           /\ (appeared \/ unannounced) => unannounced'
  BY DEF Cut, FeedFlags

\* What the line-up's step changes it holds as news.
LEMMA LineupIsNews ==
    ASSUME FeedTypes, FeedFlags, WriteLineup, copying' # None
    PROVE  /\ lineup' # lineup => copying'.newLineup = TRUE \/ silent' = TRUE
           /\ lineup' = lineup => fresh' = fresh
           /\ silent' \in BOOLEAN /\ (silent => silent')
           /\ fresh' \in BOOLEAN
           /\ Listed(lineup) = {} /\ Listed(lineup') # {} => copying'.appeared = TRUE
           /\ UNCHANGED <<unsignalled, unannounced>>
<1>1. copying \in Copying /\ copying # None /\ lineup \in [Squad -> Versioned]
  BY LineupWritten DEF FeedTypes
<1> PICK sheet : sheet = copying.full.roster
  OBVIOUS
<1> DEFINE named == Listed(sheet)
           After == [p \in Squad |-> IF p \in named THEN sheet[p] ELSE lineup[p]]
<1>2. sheet \in [Squad -> Versioned]
  BY <1>1 DEF Copying, Listing
<1>3. /\ lineup' = After
      /\ fresh' = (fresh /\ lineup' = lineup)
      /\ copying' = [copying EXCEPT !.at = "events",
                                    !.newLineup = named # {} /\ Signature(sheet) # Signature(lineup),
                                    !.appeared = Appeared(Listed(lineup), named)]
      /\ silent' = (silent \/ (lineup' # lineup /\ Signature(lineup') = Signature(lineup)))
      /\ UNCHANGED <<unsignalled, unannounced>>
  BY DEF WriteLineup, Cut
<1>4. lineup' # lineup => \/ named # {} /\ Signature(sheet) # Signature(lineup)
                          \/ Signature(lineup') = Signature(lineup)
  <2> SUFFICES ASSUME lineup' # lineup, Signature(lineup') # Signature(lineup)
               PROVE  named # {} /\ Signature(sheet) # Signature(lineup)
    OBVIOUS
  <2>1. PICK p \in Squad : Signature(lineup')[p] # Signature(lineup)[p]
    BY DEF Signature
  <2>2. p \in named /\ lineup'[p] = sheet[p]
    BY <1>1, <1>3, <2>1 DEF Signature
  <2>3. Signature(sheet)[p] # Signature(lineup)[p]
    BY <2>1, <2>2 DEF Signature
  <2> QED
    BY <2>2, <2>3
<1>5. Listed(lineup) = {} /\ Listed(lineup') # {} => named # {}
  BY <1>1, <1>2, <1>3 DEF Listed
<1> PICK l \in BOOLEAN : l = (named # {} /\ Signature(sheet) # Signature(lineup))
  OBVIOUS
<1> PICK a \in BOOLEAN : a = Appeared(Listed(lineup), named)
  BY DEF Appeared
<1> HIDE DEF named, After
<1>6. copying' = [copying EXCEPT !.at = "events", !.newLineup = l, !.appeared = a]
  BY <1>3, Zenon
<1>7. copying'.newLineup = l /\ copying'.appeared = a
  BY <1>1, <1>6 DEF Copying
<1>8. lineup' # lineup => l = TRUE \/ silent' = TRUE
  <2>1. lineup' # lineup => l = TRUE \/ Signature(lineup') = Signature(lineup)
    BY <1>4, Zenon
  <2>2. lineup' # lineup /\ Signature(lineup') = Signature(lineup) => silent' = TRUE
    BY <1>3, Zenon
  <2> QED
    BY <2>1, <2>2, Zenon
<1>9. Listed(lineup) = {} /\ Listed(lineup') # {} => a = TRUE
  BY <1>5, Zenon DEF Appeared
<1>10. /\ fresh' \in BOOLEAN /\ (lineup' = lineup => fresh' = fresh)
       /\ silent' \in BOOLEAN /\ (silent => silent')
  BY <1>3 DEF FeedFlags
<1> QED
  BY <1>3, <1>7, <1>8, <1>9, <1>10

\* What the events' step changes it holds as news, beside what the pass held.
LEMMA EventsAreNews ==
    ASSUME FeedTypes, FeedFlags, WriteEvents, copying' # None
    PROVE  /\ timeline' # timeline => copying'.newRows = TRUE
           /\ timeline' = timeline => fresh' = fresh \/ silent' = TRUE
           /\ silent' \in BOOLEAN /\ (silent => silent')
           /\ fresh' \in BOOLEAN
           /\ copying'.newLineup = copying.newLineup /\ copying'.appeared = copying.appeared
           /\ UNCHANGED <<unsignalled, unannounced>>
<1>1. copying \in Copying
  BY EventsStep
<1> PICK parsed, upserted, gone :
      /\ parsed = Parsed(copying.full) /\ upserted = timeline \cup parsed
      /\ gone = IF parsed = {} THEN {} ELSE upserted \cap Retracted(copying.full, upserted)
  OBVIOUS
<1>2. /\ timeline' = upserted \ gone
      /\ fresh' = (fresh /\ timeline' = timeline /\ revised' = revised)
      /\ silent' = (silent \/ (timeline' = timeline /\ revised' # revised))
      /\ copying' = [copying EXCEPT !.at = "prose", !.newRows = News(parsed \ timeline, gone)]
      /\ UNCHANGED <<unsignalled, unannounced>>
  BY DEF WriteEvents, Cut
<1>3. timeline' # timeline => News(parsed \ timeline, gone)
  BY <1>2 DEF News
<1> PICK n \in BOOLEAN : n = News(parsed \ timeline, gone)
  BY DEF News
<1>4. copying' = [copying EXCEPT !.at = "prose", !.newRows = n]
  BY <1>2, Zenon
<1>5. copying'.newRows = n /\ copying'.newLineup = copying.newLineup
      /\ copying'.appeared = copying.appeared
  BY <1>1, <1>4 DEF Copying
<1>6. timeline' # timeline => n = TRUE
  BY <1>3, Zenon
<1>7. /\ fresh' \in BOOLEAN /\ (timeline' = timeline => fresh' = fresh \/ silent' = TRUE)
      /\ silent' \in BOOLEAN /\ (silent => silent')
  BY <1>2 DEF FeedFlags
<1> QED
  BY <1>2, <1>5, <1>6, <1>7

LEMMA LineupTells ==
    ASSUME FeedTypes, FeedFlags, PagesAreTold, FollowersAreTold, WriteLineup
    PROVE  (FeedFlags /\ PagesAreTold /\ FollowersAreTold)'
<1>1. copying # None /\ copying \in Copying /\ copying.at = "lineup" /\ announced' = announced
  BY LineupWritten
<1>2. (unsignalled \/ silent \/ fresh) /\ (Listed(lineup) = {} \/ announced \/ unannounced)
  BY <1>1 DEF PagesAreTold, FollowersAreTold
<1>3. CASE copying' # None
  <2>1. copying'.at = "events"
    BY <1>3, LineupWritten
  <2> QED
    BY <1>1, <1>2, <1>3, <2>1, LineupIsNews DEF FeedFlags, PagesAreTold, FollowersAreTold
<1>4. CASE copying' = None
  <2>1. copying.full.roster \in [Squad -> Versioned] /\ lineup \in [Squad -> Versioned]
    BY <1>1 DEF Copying, Listing, FeedTypes
  <2>2. PICK done \in SUBSET Listed(copying.full.roster) :
          /\ lineup' = [p \in Squad |-> IF p \in done THEN copying.full.roster[p] ELSE lineup[p]]
          /\ Cut(lineup' # lineup, Listed(lineup) = {} /\ done # {})
          /\ silent' = silent
    <3>1. ASSUME NEW l \in BOOLEAN, NEW a \in BOOLEAN
          PROVE  [copying EXCEPT !.at = "events", !.newLineup = l, !.appeared = a] # None
      <4>1. [copying EXCEPT !.at = "events", !.newLineup = l, !.appeared = a] \in Copying
        BY <1>1 DEF Copying, Stages
      <4> QED
        BY <4>1, MatchFeedAssumption
    <3> PICK named : named = Listed(copying.full.roster)
      OBVIOUS
    <3>2. (named # {} /\ Signature(copying.full.roster) # Signature(lineup)) \in BOOLEAN
      OBVIOUS
    <3>3. Appeared(Listed(lineup), named) \in BOOLEAN
      BY DEF Appeared
    <3>4. copying' # [copying EXCEPT !.at = "events",
                                     !.newLineup = /\ named # {}
                                                   /\ Signature(copying.full.roster) # Signature(lineup),
                                     !.appeared = Appeared(Listed(lineup), named)]
      BY <1>4, <3>1, <3>2, <3>3, Zenon
    <3> QED
      BY <3>4 DEF WriteLineup
  <2>3. Listed(lineup) = {} /\ Listed(lineup') # {} => done # {}
    BY <2>1, <2>2 DEF Listed
  <2>4. /\ fresh' \in BOOLEAN /\ unsignalled' \in BOOLEAN /\ unannounced' \in BOOLEAN
        /\ unsignalled' \/ fresh'
        /\ ((Listed(lineup) = {} /\ done # {}) \/ unannounced) => unannounced'
    BY <2>2, CutOwes
  <2> QED
    BY <1>1, <1>2, <1>4, <2>2, <2>3, <2>4 DEF FeedFlags, PagesAreTold, FollowersAreTold
<1> QED
  BY <1>3, <1>4
LEMMA EventsTell ==
    ASSUME FeedTypes, FeedFlags, PagesAreTold, FollowersAreTold, WriteEvents
    PROVE  (FeedFlags /\ PagesAreTold /\ FollowersAreTold)'
<1>1. /\ copying # None /\ copying \in Copying /\ copying.at = "events"
      /\ announced' = announced /\ lineup' = lineup
  BY EventsStep
<1>2. /\ unsignalled \/ silent \/ fresh \/ copying.newLineup
      /\ Listed(lineup) = {} \/ announced \/ unannounced \/ copying.appeared
  BY <1>1 DEF PagesAreTold, FollowersAreTold
<1>3. copying.newLineup \in BOOLEAN /\ copying.appeared \in BOOLEAN
  BY <1>1 DEF Copying
<1>4. Listed(lineup') = Listed(lineup)
  BY <1>1
<1>5. CASE copying' # None
  <2>1. copying'.at = "prose"
    BY <1>5, EventsStep
  <2>2. /\ timeline' # timeline => copying'.newRows = TRUE
        /\ timeline' = timeline => fresh' = fresh \/ silent' = TRUE
        /\ silent' \in BOOLEAN /\ (silent => silent')
        /\ fresh' \in BOOLEAN
        /\ copying'.newLineup = copying.newLineup /\ copying'.appeared = copying.appeared
        /\ UNCHANGED <<unsignalled, unannounced>>
    BY <1>5, EventsAreNews
  <2> QED
    BY <1>1, <1>2, <1>3, <1>4, <1>5, <2>1, <2>2 DEF FeedFlags, PagesAreTold, FollowersAreTold
<1>6. CASE copying' = None
  <2>1. (\E wrote \in BOOLEAN : Cut(wrote, copying.appeared)) /\ silent' = silent
    <3>1. ASSUME NEW parsed, NEW gone
          PROVE  [copying EXCEPT !.at = "prose", !.newRows = News(parsed, gone)] # None
      <4> PICK n \in BOOLEAN : n = News(parsed, gone)
        BY DEF News
      <4>1. [copying EXCEPT !.at = "prose", !.newRows = n] \in Copying
        BY <1>1 DEF Copying, Stages
      <4>2. [copying EXCEPT !.at = "prose", !.newRows = n] # None
        BY <4>1, MatchFeedAssumption
      <4> QED
        BY <4>2, Zenon
    <3> PICK parsed, gone :
          /\ parsed = Parsed(copying.full)
          /\ gone = IF parsed = {} THEN {}
                    ELSE (timeline \cup parsed) \cap Retracted(copying.full, timeline \cup parsed)
      OBVIOUS
    <3>2. copying' # [copying EXCEPT !.at = "prose", !.newRows = News(parsed \ timeline, gone)]
      BY <1>6, <3>1, Zenon
    <3>3. \E wrote : wrote \in BOOLEAN /\ wrote = (timeline' # timeline \/ revised' # revised)
      OBVIOUS
    <3> QED
      BY <3>2, <3>3 DEF WriteEvents
  <2>2. /\ fresh' \in BOOLEAN /\ unsignalled' \in BOOLEAN /\ unannounced' \in BOOLEAN
        /\ unsignalled' \/ fresh'
        /\ (copying.appeared \/ unannounced) => unannounced'
    BY <1>3, <2>1, CutOwes
  <2> QED
    BY <1>1, <1>2, <1>4, <1>6, <2>1, <2>2 DEF FeedFlags, PagesAreTold, FollowersAreTold
<1> QED
  BY <1>5, <1>6

LEMMA ProseTells ==
    ASSUME FeedTypes, FeedFlags, PlaysAreOurs, PagesAreTold, FollowersAreTold, WriteProse
    PROVE  (FeedFlags /\ PagesAreTold /\ FollowersAreTold)'
<1>1. /\ copying # None /\ copying \in Copying /\ copying.at = "prose"
      /\ announced' = announced /\ Listed(lineup') = Listed(lineup) /\ silent' = silent
  BY ProseStep DEF WriteProse
<1>2. /\ unsignalled \/ silent \/ fresh \/ copying.newLineup \/ copying.newRows
      /\ Listed(lineup) = {} \/ announced \/ unannounced \/ copying.appeared
  BY <1>1 DEF PagesAreTold, FollowersAreTold
<1>3. copying.newLineup \in BOOLEAN /\ copying.newRows \in BOOLEAN /\ copying.appeared \in BOOLEAN
  BY <1>1 DEF Copying
<1>4. \/ copying' = [copying EXCEPT !.at = "signal"] /\ UNCHANGED <<fresh, silent, unsignalled, unannounced>>
      \/ Cut(FALSE, copying.appeared)
  BY DEF WriteProse
<1>5. CASE copying' = [copying EXCEPT !.at = "signal"] /\ UNCHANGED <<fresh, silent, unsignalled, unannounced>>
  <2>1. /\ copying' # None /\ copying'.at = "signal"
        /\ copying'.newLineup = copying.newLineup /\ copying'.newRows = copying.newRows
        /\ copying'.appeared = copying.appeared
    <3>1. copying' = [copying EXCEPT !.at = "signal"] /\ "signal" \in Stages
      BY <1>5 DEF Stages
    <3> QED
      BY <1>1, <3>1, CopyingMoves
  <2> QED
    BY <1>1, <1>2, <1>3, <1>5, <2>1 DEF FeedFlags, PagesAreTold, FollowersAreTold
<1>6. CASE Cut(FALSE, copying.appeared)
  <2>1. /\ copying' = None
        /\ fresh' \in BOOLEAN /\ unsignalled' \in BOOLEAN /\ unannounced' \in BOOLEAN
        /\ unsignalled' \/ fresh'
        /\ (copying.appeared \/ unannounced) => unannounced'
    BY <1>3, <1>6, CutOwes
  <2> QED
    BY <1>1, <1>2, <2>1 DEF FeedFlags, PagesAreTold, FollowersAreTold
<1> QED
  BY <1>4, <1>5, <1>6

LEMMA SignalTells ==
    ASSUME FeedTypes, FeedFlags, PagesAreTold, FollowersAreTold, Signal
    PROVE  (FeedFlags /\ PagesAreTold /\ FollowersAreTold)'
<1>1. /\ copying # None /\ copying \in Copying /\ copying.at = "signal" /\ copying' = None
      /\ Listed(lineup') = Listed(lineup)
  BY DEF Signal, FeedTypes
<1>2. /\ unsignalled \/ silent \/ fresh \/ copying.newLineup \/ copying.newRows
      /\ Listed(lineup) = {} \/ announced \/ unannounced \/ copying.appeared
  BY <1>1 DEF PagesAreTold, FollowersAreTold
<1>3. copying.newLineup \in BOOLEAN /\ copying.newRows \in BOOLEAN /\ copying.appeared \in BOOLEAN
  BY <1>1 DEF Copying
<1> PICK told \in BOOLEAN : told = (copying.newLineup \/ copying.newRows)
  OBVIOUS
<1>4. fresh' = (fresh \/ told) /\ silent' = (silent /\ ~told) /\ unsignalled' = (unsignalled /\ ~told)
  BY DEF Signal
<1>5. /\ fresh' \in BOOLEAN /\ silent' \in BOOLEAN /\ unsignalled' \in BOOLEAN
      /\ unsignalled' \/ silent' \/ fresh'
  BY <1>2, <1>4 DEF FeedFlags
<1>6. PICK sent \in BOOLEAN :
        /\ announced' = (announced \/ sent)
        /\ unannounced' = (unannounced \/ (copying.appeared /\ ~sent))
  <2>1. Alerted(copying.appeared) \subseteq BOOLEAN
    BY DEF Alerted
  <2> QED
    BY <2>1 DEF Signal
<1>7. announced' \in BOOLEAN /\ unannounced' \in BOOLEAN
      /\ (Listed(lineup) = {} \/ announced' \/ unannounced')
  BY <1>2, <1>3, <1>6 DEF FeedFlags
<1> QED
  BY <1>1, <1>5, <1>7 DEF FeedFlags, PagesAreTold, FollowersAreTold

\* What a pass has written is told, is still held as news, or was lost with a pass.
ToldInv == FollowsInv /\ FeedFlags /\ PagesAreTold /\ FollowersAreTold

LEMMA ToldKept == ToldInv /\ [MatchFeedNext]_matchFeedVars => ToldInv'
<1> SUFFICES ASSUME ToldInv, [MatchFeedNext]_matchFeedVars
             PROVE  (FeedFlags /\ PagesAreTold /\ FollowersAreTold)'
  BY FollowsKept DEF ToldInv
<1>1. FeedTypes /\ FeedFlags /\ PlaysAreOurs /\ PagesAreTold /\ FollowersAreTold
  BY DEF ToldInv, FollowsInv
<1>2. CASE FeedMoves \/ OtherMatchIsCopied \/ UNCHANGED matchFeedVars
  <2>1. UNCHANGED <<lineup, copying, fresh, announced, silent, unsignalled, unannounced>>
    BY <1>2 DEF FeedMoves, OtherMatchIsCopied, matchFeedVars
  <2>2. Listed(lineup') = Listed(lineup)
    BY <2>1
  <2> QED
    BY <1>1, <2>1, <2>2 DEF FeedFlags, PagesAreTold, FollowersAreTold
<1>3. CASE Fetch
  <2>1. copying = None /\ UNCHANGED <<lineup, fresh, announced, silent, unsignalled, unannounced>>
    BY <1>3 DEF Fetch
  <2>2. (unsignalled \/ silent \/ fresh) /\ (Listed(lineup) = {} \/ announced \/ unannounced)
    BY <1>1, <2>1 DEF PagesAreTold, FollowersAreTold
  <2>3. Listed(lineup') = Listed(lineup)
    BY <2>1
  <2> QED
    BY <1>1, <2>1, <2>2, <2>3 DEF FeedFlags, PagesAreTold, FollowersAreTold
<1>4. CASE WriteLineup
  BY <1>1, <1>4, LineupTells
<1>5. CASE WriteEvents
  BY <1>1, <1>5, EventsTell
<1>6. CASE WriteProse
  BY <1>1, <1>6, ProseTells
<1>7. CASE Signal
  BY <1>1, <1>7, SignalTells
<1> QED
  BY <1>2, <1>3, <1>4, <1>5, <1>6, <1>7 DEF MatchFeedNext

LEMMA ToldBegins == MatchFeedInit => ToldInv
<1> SUFFICES ASSUME MatchFeedInit PROVE FeedFlags /\ PagesAreTold /\ FollowersAreTold
  BY FollowsBegins DEF ToldInv
<1>1. Listed(lineup) = {}
  BY DEF MatchFeedInit, NoSheet, Listed
<1> QED
  BY <1>1 DEF MatchFeedInit, FeedFlags, PagesAreTold, FollowersAreTold

\* Between passes the pages show what is kept, and the followers know of the
\* line-up, unless a cut pass or a failed alert says otherwise.
THEOREM PagesAlwaysFollow == MatchFeedSpec => []PagesFollow
<1>1. ToldInv => PagesFollow
  BY DEF ToldInv, FeedFlags, PagesAreTold, FollowersAreTold, PagesFollow
<1> QED
  BY <1>1, ToldBegins, ToldKept, PTL DEF MatchFeedSpec
-----------------------------------------------------------------------------
(* The page of a timeline.  First the order its events are put in.          *)

LEMMA KeysAre ==
    ASSUME NEW e \in Ids
    PROVE  /\ Period(e) \in Nat /\ EndLast(e) \in {0, 1} /\ MinuteOrder(e) \in Nat
           /\ PageEvents[e].clock \in Nat /\ PageEvents[e].added \in 0 .. 99
           /\ PageEvents[e].base = None \/ PageEvents[e].base \in Nat
BY TimelineAssumption DEF TimelineAssumption, Ids, Period, EndLast, MinuteOrder

LEMMA PrecedesIs ==
    ASSUME NEW e, NEW f
    PROVE  Precedes(e, f) <=>
             \/ Period(e) < Period(f)
             \/ /\ Period(e) = Period(f)
                /\ \/ EndLast(e) < EndLast(f)
                   \/ /\ EndLast(e) = EndLast(f)
                      /\ \/ MinuteOrder(e) < MinuteOrder(f)
                         \/ /\ MinuteOrder(e) = MinuteOrder(f)
                            /\ PageEvents[e].clock < PageEvents[f].clock
<1> DEFINE K == SortKeys(e)
           L == SortKeys(f)
           At(k) == K[k] < L[k] /\ \A j \in 1 .. k - 1 : K[j] = L[j]
<1>1. /\ K[1] = Period(e) /\ K[2] = EndLast(e) /\ K[3] = MinuteOrder(e) /\ K[4] = PageEvents[e].clock
      /\ L[1] = Period(f) /\ L[2] = EndLast(f) /\ L[3] = MinuteOrder(f) /\ L[4] = PageEvents[f].clock
      /\ DOMAIN K = 1 .. 4
  BY DEF SortKeys
<1> HIDE DEF K, L
<1>2. /\ At(1) <=> K[1] < L[1]
      /\ At(2) <=> K[1] = L[1] /\ K[2] < L[2]
      /\ At(3) <=> K[1] = L[1] /\ K[2] = L[2] /\ K[3] < L[3]
      /\ At(4) <=> K[1] = L[1] /\ K[2] = L[2] /\ K[3] = L[3] /\ K[4] < L[4]
  OBVIOUS
<1>3. Precedes(e, f) <=> \E k \in 1 .. 4 : At(k)
  BY <1>1 DEF Precedes, K, L
<1> HIDE DEF At
<1>4. Precedes(e, f) <=> At(1) \/ At(2) \/ At(3) \/ At(4)
  <2>1. \A k \in 1 .. 4 : k = 1 \/ k = 2 \/ k = 3 \/ k = 4
    OBVIOUS
  <2> QED
    BY <1>3, <2>1
<1> QED
  BY <1>1, <1>2, <1>4

LEMMA KeysOrder ==
    /\ \A e \in Ids : ~Precedes(e, e)
    /\ \A e, f, g \in Ids : Precedes(e, f) /\ Precedes(f, g) => Precedes(e, g)
    /\ \A e, f, g \in Ids : ~Precedes(f, e) /\ ~Precedes(g, f) => ~Precedes(g, e)
<1>1. \A e \in Ids : Period(e) \in Nat /\ EndLast(e) \in {0, 1} /\ MinuteOrder(e) \in Nat /\ PageEvents[e].clock \in Nat
  BY KeysAre
<1>2. \A e \in Ids : ~Precedes(e, e)
  BY <1>1, PrecedesIs
<1>3. \A e, f, g \in Ids : Precedes(e, f) /\ Precedes(f, g) => Precedes(e, g)
  <2> TAKE e, f, g \in Ids
  <2> QED
    BY <1>1, PrecedesIs
<1>4. \A e, f, g \in Ids : ~Precedes(f, e) /\ ~Precedes(g, f) => ~Precedes(g, e)
  <2> TAKE e, f, g \in Ids
  <2> QED
    BY <1>1, PrecedesIs
<1> QED
  BY <1>2, <1>3, <1>4

\* The sort returns every event, and none before one that precedes it.
LEMMA OrderedIs ==
    ASSUME NEW list \in Seq(Ids), \A i, j \in DOMAIN list : list[i] = list[j] => i = j
    PROVE  LET o == Ordered(list)
           IN /\ DOMAIN o = 1 .. Len(list) /\ Len(list) \in Nat
              /\ \A n \in 1 .. Len(list) : o[n] \in Ids /\ o[n] \in {list[i] : i \in DOMAIN list}
              /\ \A i \in DOMAIN list : \E n \in 1 .. Len(list) : o[n] = list[i]
              /\ \A m, n \in 1 .. Len(list) : o[m] = o[n] => m = n
              /\ \A m, n \in 1 .. Len(list) : m < n => ~Precedes(o[n], o[m])
<1> DEFINE D == DOMAIN list
           ahead == Ahead(list)
           s == InOrder(ahead)
           o == Ordered(list)
<1>1. D = 1 .. Len(list) /\ Len(list) \in Nat /\ \A i \in D : list[i] \in Ids /\ i \in Nat
  OBVIOUS
<1>2. DOMAIN ahead = D /\ \A i, j \in D : j \in ahead[i] <=> (\/ Precedes(list[j], list[i])
                                                              \/ ~Precedes(list[i], list[j]) /\ j < i)
  BY DEF Ahead
<1>3. \A i \in D : ahead[i] \subseteq D
  BY DEF Ahead
<1>4. DOMAIN o = D /\ \A n \in D : o[n] = list[s[n]]
  BY DEF Ordered
<1> HIDE DEF ahead, D, o
<1>5. Orders(ahead)
  <2>1. IsFiniteSet(D) /\ Cardinality(D) = Len(list)
    BY <1>1, FS_Interval
  <2>2. ASSUME NEW n \in D PROVE n \notin ahead[n] /\ \A m \in ahead[n] : ahead[m] \subseteq ahead[n]
    <3>1. n \notin ahead[n]
      BY <1>1, <1>2, KeysOrder
    <3>2. ASSUME NEW m \in D, NEW k \in D, m \in ahead[n], k \in ahead[m] PROVE k \in ahead[n]
      <4>1. /\ list[k] \in Ids /\ list[m] \in Ids /\ list[n] \in Ids
            /\ k \in Nat /\ m \in Nat /\ n \in Nat
        BY <1>1, <2>2, <3>2
      <4>2. /\ Precedes(list[m], list[n]) \/ (~Precedes(list[n], list[m]) /\ m < n)
            /\ Precedes(list[k], list[m]) \/ (~Precedes(list[m], list[k]) /\ k < m)
        BY <1>2, <2>2, <3>2
      <4>3. \/ Precedes(list[k], list[n])
            \/ ~Precedes(list[n], list[k]) /\ k < n
        <5>1. CASE Precedes(list[k], list[n])
          BY <5>1
        <5>2. CASE ~Precedes(list[k], list[n])
          <6>1. ~Precedes(list[n], list[k]) /\ m < n /\ k < m
            BY <4>1, <4>2, <5>2, KeysOrder
          <6> QED
            BY <4>1, <6>1
        <5> QED
          BY <5>1, <5>2
      <4> QED
        BY <1>2, <2>2, <3>2, <4>3
    <3> QED
      BY <1>3, <2>2, <3>1, <3>2
  <2>3. \A m, n \in D : m = n \/ m \in ahead[n] \/ n \in ahead[m]
    BY <1>1, <1>2
  <2> QED
    BY <1>2, <1>3, <2>1, <2>2, <2>3 DEF Orders
<1>6. Cardinality(D) = Len(list)
  BY <1>1, FS_Interval
<1>7. /\ s \in [1 .. Len(list) -> D]
      /\ \A n \in D : /\ Cardinality(ahead[n]) + 1 \in 1 .. Len(list)
                      /\ s[Cardinality(ahead[n]) + 1] = n
      /\ \A i, j \in 1 .. Len(list) : i < j <=> s[i] \in ahead[s[j]]
  BY <1>2, <1>5, <1>6, InOrderIs
<1> HIDE DEF s
<1>8. \A n \in 1 .. Len(list) : s[n] \in D /\ o[n] = list[s[n]]
  BY <1>1, <1>4, <1>7
<1>9. \A i \in D : \E n \in 1 .. Len(list) : o[n] = list[i]
  BY <1>7, <1>8
<1>10. ASSUME NEW m \in 1 .. Len(list), NEW n \in 1 .. Len(list), o[m] = o[n] PROVE m = n
  <2>1. s[m] = s[n] /\ s[m] \in D /\ s[n] \in D
    BY <1>8, <1>10 DEF D
  <2>2. s[m] \notin ahead[s[n]]
    BY <1>2, <1>5, <2>1 DEF Orders
  <2>3. ~(m < n) /\ ~(n < m)
    BY <1>7, <2>1, <2>2
  <2> QED
    BY <1>1, <2>3
<1>11. ASSUME NEW m \in 1 .. Len(list), NEW n \in 1 .. Len(list), m < n PROVE ~Precedes(o[n], o[m])
  <2>1. s[m] \in ahead[s[n]] /\ s[m] \in D /\ s[n] \in D
    BY <1>7, <1>8, <1>11
  <2>2. Precedes(list[s[m]], list[s[n]]) \/ ~Precedes(list[s[n]], list[s[m]])
    BY <1>2, <2>1
  <2>3. list[s[m]] \in Ids /\ list[s[n]] \in Ids
    BY <1>1, <2>1
  <2>4. ~Precedes(list[s[n]], list[s[m]])
    BY <2>2, <2>3, KeysOrder
  <2> QED
    BY <1>8, <2>4
<1> QED
  BY <1>1, <1>4, <1>8, <1>9, <1>10, <1>11 DEF o, D

-----------------------------------------------------------------------------
(* The sections. *)

\* The row tells the event.
Tells(row, e) ==
    row.event = e \/ (TypeOf(e) = "DELAY" /\ TypeOf(row.event) = "DELAY" /\ SameMinute(row.event, e))

Seen(o, n, p) == {o[k] : k \in {l \in 1 .. n : Period(o[l]) = p /\ TypeOf(o[l]) # "PERIOD_START"}}

PageRows(events) == [event : events, detail : {PageEvents[e].detail : e \in Ids}]

\* What the section of a period is once some events are seen.
Section(list, seen) ==
    /\ list \in Seq(PageRows(seen))
    /\ \A e \in seen : \E i \in DOMAIN list : Tells(list[i], e)
    /\ \A e \in seen, i, j \in DOMAIN list : Tells(list[i], e) /\ Tells(list[j], e) => i = j
    /\ \A i, j \in DOMAIN list : i < j => ~Precedes(list[j].event, list[i].event)
    /\ \A e \in seen, i \in DOMAIN list :
         (TypeOf(e) = "DELAY" /\ Tells(list[i], e) /\ ~IsGeneric(PageEvents[e].detail)) =>
            ~IsGeneric(list[i].detail)

Same(list, e) ==
    {i \in DOMAIN list : TypeOf(e) = "DELAY" /\ TypeOf(list[i].event) = "DELAY" /\ SameMinute(list[i].event, e)}

LEMMA ShownIs ==
    ASSUME NEW list, NEW e, TypeOf(e) # "PERIOD_START"
    PROVE  Shown(list, e) = IF Same(list, e) = {} THEN Append(list, Row(e))
                              ELSE [list EXCEPT ![Min(Same(list, e))] = Kept(@, e)]
BY DEF Shown, Same

LEMMA AppendTells ==
    ASSUME NEW seen, seen \subseteq Ids, NEW list, Section(list, seen),
           NEW e \in Ids, e \notin seen, \A f \in seen : ~Precedes(e, f), Same(list, e) = {}
    PROVE  Section(Append(list, Row(e)), seen \cup {e})
<1> DEFINE new == Append(list, Row(e))
           n == Len(list)
<1>1. list \in Seq(PageRows(seen)) /\ n \in Nat /\ DOMAIN list = 1 .. n
  BY DEF Section
<1>2. \A i \in DOMAIN list : list[i] \in PageRows(seen) /\ list[i].event \in seen
  <2>1. \A i \in DOMAIN list : list[i] \in PageRows(seen)
    BY <1>1
  <2> QED
    BY <2>1 DEF PageRows
<1>3. /\ Row(e) \in PageRows(seen \cup {e}) /\ Row(e).event = e /\ Row(e).detail = PageEvents[e].detail
  BY DEF Row, PageRows
<1>4. PageRows(seen) \subseteq PageRows(seen \cup {e})
  BY DEF PageRows
<1>5. list \in Seq(PageRows(seen \cup {e}))
  <2> DEFINE A == PageRows(seen)
             B == PageRows(seen \cup {e})
  <2>1. list \in Seq(A) /\ A \subseteq B
    BY <1>1, <1>4
  <2> HIDE DEF A, B
  <2>2. list \in Seq(B)
    BY <2>1
  <2> QED
    BY <2>2 DEF B
<1>6. /\ new \in Seq(PageRows(seen \cup {e})) /\ DOMAIN new = 1 .. n + 1
      /\ new[n + 1] = Row(e) /\ \A i \in DOMAIN list : new[i] = list[i]
  BY <1>1, <1>3, <1>5
<1>7. \A i \in DOMAIN new : (i \in DOMAIN list /\ i < n + 1) \/ i = n + 1
  BY <1>1, <1>6
<1> HIDE DEF new, n
<1>8. \A i \in DOMAIN list : ~Tells(list[i], e)
  BY <1>2 DEF Tells, Same
<1>9. ASSUME NEW f \in seen PROVE ~Tells(Row(e), f)
  <2> SUFFICES ASSUME Tells(Row(e), f) PROVE FALSE
    OBVIOUS
  <2>1. TypeOf(f) = "DELAY" /\ TypeOf(e) = "DELAY" /\ SameMinute(e, f)
    BY <1>3, <1>9 DEF Tells
  <2>2. PICK i \in DOMAIN list : Tells(list[i], f)
    BY DEF Section
  <2>3. TypeOf(list[i].event) = "DELAY" /\ SameMinute(list[i].event, e)
    BY <2>1, <2>2 DEF Tells, SameMinute
  <2> QED
    BY <2>1, <2>3 DEF Same
<1>10. Tells(Row(e), e)
  BY <1>3 DEF Tells
<1>11. ASSUME NEW f \in seen \cup {e} PROVE \E i \in DOMAIN new : Tells(new[i], f)
  <2>1. CASE f \in seen
    BY <1>1, <1>6, <2>1 DEF Section
  <2>2. CASE f = e
    BY <1>1, <1>6, <1>10, <2>2
  <2> QED
    BY <2>1, <2>2
<1>12. ASSUME NEW f \in seen \cup {e}, NEW i \in DOMAIN new, Tells(new[i], f)
       PROVE  (f \in seen /\ i \in DOMAIN list) \/ (f = e /\ i = n + 1)
  BY <1>6, <1>7, <1>8, <1>9, <1>12
<1>13. \A f \in seen \cup {e}, i, j \in DOMAIN new : Tells(new[i], f) /\ Tells(new[j], f) => i = j
  <2> TAKE f \in seen \cup {e}, i, j \in DOMAIN new
  <2> SUFFICES ASSUME Tells(new[i], f), Tells(new[j], f) PROVE i = j
    OBVIOUS
  <2>1. CASE f \in seen
    <3>1. i \in DOMAIN list /\ j \in DOMAIN list
      BY <1>12, <2>1
    <3> QED
      BY <1>6, <2>1, <3>1 DEF Section
  <2>2. CASE f = e
    BY <1>12, <2>2
  <2> QED
    BY <2>1, <2>2
<1>14. ASSUME NEW i \in DOMAIN new, NEW j \in DOMAIN new, i < j PROVE ~Precedes(new[j].event, new[i].event)
  <2>1. i \in DOMAIN list /\ new[i] = list[i]
    BY <1>1, <1>6, <1>7, <1>14
  <2>2. CASE j \in DOMAIN list
    BY <1>6, <1>14, <2>1, <2>2 DEF Section
  <2>3. CASE j = n + 1
    BY <1>2, <1>3, <1>6, <2>1, <2>3
  <2> QED
    BY <1>7, <2>2, <2>3
<1>15. ASSUME NEW f \in seen \cup {e}, NEW i \in DOMAIN new, TypeOf(f) = "DELAY", Tells(new[i], f),
              ~IsGeneric(PageEvents[f].detail)
       PROVE  ~IsGeneric(new[i].detail)
  <2>1. CASE f \in seen
    BY <1>6, <1>12, <1>15, <2>1 DEF Section
  <2>2. CASE f = e
    BY <1>3, <1>6, <1>12, <1>15, <2>2
  <2> QED
    BY <2>1, <2>2
<1> QED
  BY <1>6, <1>11, <1>13, <1>14, <1>15 DEF Section, new

LEMMA JoinTells ==
    ASSUME NEW seen, seen \subseteq Ids, NEW list, Section(list, seen),
           NEW e \in Ids, e \notin seen, Same(list, e) # {}
    PROVE  Section([list EXCEPT ![Min(Same(list, e))] = Kept(@, e)], seen \cup {e})
<1> DEFINE m == Min(Same(list, e))
           row == Kept(list[m], e)
           new == [list EXCEPT ![m] = row]
<1>1. list \in Seq(PageRows(seen)) /\ DOMAIN list = 1 .. Len(list) /\ Len(list) \in Nat
  BY DEF Section
<1>2. m \in Same(list, e)
  <2> DEFINE S == Same(list, e)
  <2>1. S \subseteq Nat /\ S # {}
    BY <1>1 DEF Same
  <2>2. \E x \in S : \A y \in S : x <= y
    BY <2>1, LeastNat
  <2> HIDE DEF S
  <2>3. Min(S) \in S
    BY <2>2 DEF Min
  <2> QED
    BY <2>3 DEF S
<1> HIDE DEF m
<1>3. m \in DOMAIN list /\ TypeOf(e) = "DELAY" /\ TypeOf(list[m].event) = "DELAY"
      /\ SameMinute(list[m].event, e)
  BY <1>2 DEF Same
<1>4. \A i \in DOMAIN list : list[i] \in PageRows(seen) /\ list[i].event \in seen
  <2>1. \A i \in DOMAIN list : list[i] \in PageRows(seen)
    BY <1>1
  <2> QED
    BY <2>1 DEF PageRows
<1>5. /\ row \in PageRows(seen) /\ row.event = list[m].event
      /\ row.detail = IF IsGeneric(list[m].detail) /\ ~IsGeneric(PageEvents[e].detail)
                        THEN PageEvents[e].detail ELSE list[m].detail
  <2>1. list[m] \in [event : seen, detail : {PageEvents[f].detail : f \in Ids}]
    BY <1>3, <1>4 DEF PageRows
  <2>2. PageEvents[e].detail \in {PageEvents[f].detail : f \in Ids}
    OBVIOUS
  <2> QED
    BY <2>1, <2>2 DEF Kept, PageRows
<1> HIDE DEF row
<1>6. PageRows(seen) \subseteq PageRows(seen \cup {e})
  BY DEF PageRows
<1>7. /\ new \in Seq(PageRows(seen \cup {e})) /\ DOMAIN new = DOMAIN list
      /\ new[m] = row /\ \A i \in DOMAIN list : i # m => new[i] = list[i]
  <2> DEFINE A == PageRows(seen)
             B == PageRows(seen \cup {e})
  <2>1. list \in Seq(A) /\ A \subseteq B /\ row \in A
    BY <1>1, <1>5, <1>6
  <2> HIDE DEF A, B
  <2>2. list \in Seq(B) /\ row \in B
    BY <2>1
  <2>3. new \in Seq(B)
    BY <1>3, <2>2
  <2> QED
    BY <1>3, <2>3 DEF B
<1> HIDE DEF new
<1>8. \A i \in DOMAIN list : new[i].event = list[i].event
  BY <1>5, <1>7
<1>9. \A i \in DOMAIN list : \A f : Tells(new[i], f) <=> Tells(list[i], f)
  BY <1>8 DEF Tells
<1>10. Tells(list[m], e)
  BY <1>3 DEF Tells
<1>11. ASSUME NEW i \in DOMAIN list, Tells(list[i], e) PROVE i = m
  <2>1. list[i].event # e
    BY <1>4
  <2>2. TypeOf(list[i].event) = "DELAY" /\ SameMinute(list[i].event, e)
    BY <1>11, <2>1 DEF Tells
  <2>3. Tells(list[i], list[m].event) /\ Tells(list[m], list[m].event)
    BY <1>3, <2>2 DEF Tells, SameMinute
  <2>4. list[m].event \in seen
    BY <1>3, <1>4
  <2> QED
    BY <1>3, <2>3, <2>4 DEF Section
<1>12. ASSUME NEW f \in seen \cup {e} PROVE \E i \in DOMAIN new : Tells(new[i], f)
  <2>1. CASE f \in seen
    BY <1>7, <1>9, <2>1 DEF Section
  <2>2. CASE f = e
    BY <1>3, <1>7, <1>9, <1>10, <2>2
  <2> QED
    BY <2>1, <2>2
<1>13. \A f \in seen \cup {e}, i, j \in DOMAIN new : Tells(new[i], f) /\ Tells(new[j], f) => i = j
  <2> TAKE f \in seen \cup {e}, i, j \in DOMAIN new
  <2> SUFFICES ASSUME Tells(list[i], f), Tells(list[j], f) PROVE i = j
    BY <1>7, <1>9
  <2>1. CASE f \in seen
    BY <1>7, <2>1 DEF Section
  <2>2. CASE f = e
    BY <1>7, <1>11, <2>2
  <2> QED
    BY <2>1, <2>2
<1>14. \A i, j \in DOMAIN new : i < j => ~Precedes(new[j].event, new[i].event)
  BY <1>7, <1>8 DEF Section
<1>15. ASSUME NEW f \in seen \cup {e}, NEW i \in DOMAIN new, TypeOf(f) = "DELAY", Tells(new[i], f),
              ~IsGeneric(PageEvents[f].detail)
       PROVE  ~IsGeneric(new[i].detail)
  <2>0. i \in DOMAIN list /\ Tells(list[i], f)
    BY <1>7, <1>9, <1>15
  <2>1. CASE f \in seen
    <3>1. ~IsGeneric(list[i].detail)
      BY <1>15, <2>0, <2>1 DEF Section
    <3> QED
      BY <1>5, <1>7, <2>0, <3>1
  <2>2. CASE f = e
    <3>1. i = m
      BY <1>11, <2>0, <2>2
    <3> QED
      BY <1>5, <1>7, <1>15, <2>2, <3>1
  <2> QED
    BY <2>1, <2>2
<1>16. new = [list EXCEPT ![m] = Kept(@, e)]
  BY DEF new, row
<1> QED
  BY <1>7, <1>12, <1>13, <1>14, <1>15, <1>16 DEF Section, m

\* The list of a period, as a function of how many events are seen.
Sections(list, p, f) ==
    [n \in 0 .. Len(list) |->
       IF n = 0 THEN <<>>
         ELSE IF Period(Ordered(list)[n]) = p THEN Shown(f[n - 1], Ordered(list)[n]) ELSE f[n - 1]]

LEMMA RowsAreChosen ==
    \A list, p : RowsOf(list, p) = (CHOOSE f : f = Sections(list, p, f))[Len(list)]
BY DEF RowsOf, Sections

LEMMA SectionsExist ==
    ASSUME NEW list, Len(list) \in Nat, NEW p
    PROVE  \E f : f = Sections(list, p, f)
<1> DEFINE n == Len(list)
           Part(f, i) == IF i = 0 THEN <<>>
                           ELSE IF Period(Ordered(list)[i]) = p THEN Shown(f[i - 1], Ordered(list)[i])
                           ELSE f[i - 1]
           Upto(m) == \E f : /\ f = [i \in 0 .. n |-> f[i]]
                             /\ \A i \in 0 .. n : i <= m => f[i] = Part(f, i)
           Not == {m \in Nat : ~Upto(m)}
<1> HIDE DEF n
<1>0. n \in Nat /\ n = Len(list)
  BY DEF n
<1>1. Upto(0)
  <2> DEFINE f == [i \in 0 .. n |-> <<>>]
  <2>1. f = [i \in 0 .. n |-> f[i]]
    OBVIOUS
  <2>2. ASSUME NEW i \in 0 .. n, i <= 0 PROVE f[i] = Part(f, i)
    <3>1. i = 0
      BY <1>0, <2>2
    <3> QED
      BY <3>1
  <2> HIDE DEF f, Part
  <2> QED
    BY <2>1, <2>2
<1>2. ASSUME NEW m \in Nat, Upto(m) PROVE Upto(m + 1)
  <2> HIDE DEF Part
  <2> PICK f : \A i \in 0 .. n : i <= m => f[i] = Part(f, i)
    BY <1>2
  <2> DEFINE g == [i \in 0 .. n |-> Part(f, i)]
  <2>1. g = [i \in 0 .. n |-> g[i]]
    OBVIOUS
  <2>2. ASSUME NEW i \in 0 .. n, i <= m + 1 PROVE g[i] = Part(g, i)
    <3>1. g[i] = Part(f, i)
      OBVIOUS
    <3>2. CASE i = 0
      BY <3>1, <3>2 DEF Part
    <3>3. CASE i # 0
      <4>1. i - 1 \in 0 .. n /\ i - 1 <= m
        BY <1>0, <2>2, <3>3
      <4>2. f[i - 1] = Part(f, i - 1) /\ g[i - 1] = Part(f, i - 1)
        BY <4>1
      <4> HIDE DEF g
      <4> QED
        BY <3>1, <3>3, <4>2 DEF Part
    <3> QED
      BY <3>2, <3>3
  <2> HIDE DEF g
  <2> QED
    BY <2>1, <2>2
<1> HIDE DEF Upto
<1>3. Not = {}
  <2> SUFFICES ASSUME Not # {} PROVE FALSE
    OBVIOUS
  <2>1. PICK m \in Not : \A k \in Not : m <= k
    BY LeastNat
  <2>2. m # 0 /\ m \in Nat /\ ~Upto(m)
    BY <1>1, <2>1
  <2>3. m - 1 \in Nat /\ m - 1 \notin Not
    BY <2>1, <2>2
  <2>4. Upto(m - 1)
    BY <2>3
  <2>5. Upto((m - 1) + 1)
    BY <1>2, <2>3, <2>4
  <2> QED
    BY <2>2, <2>5
<1>4. PICK f : f = [i \in 0 .. n |-> f[i]] /\ \A i \in 0 .. n : i <= n => f[i] = Part(f, i)
  BY <1>0, <1>3 DEF Upto
<1>5. \A i \in 0 .. n : f[i] = Part(f, i)
  <2> HIDE DEF Part
  <2> QED
    BY <1>0, <1>4
<1>6. f = [i \in 0 .. n |-> Part(f, i)]
  <2> HIDE DEF Part
  <2> QED
    BY <1>4, <1>5, Zenon
<1> QED
  BY <1>0, <1>6 DEF Sections

\* A section tells the events of its period.
LEMMA SectionTells ==
    ASSUME NEW list \in Seq(Ids), \A i, j \in DOMAIN list : list[i] = list[j] => i = j, NEW p
    PROVE  Section(RowsOf(list, p),
                   {list[i] : i \in {j \in DOMAIN list :
                                Period(list[j]) = p /\ TypeOf(list[j]) # "PERIOD_START"}})
<1> DEFINE n == Len(list)
           o == Ordered(list)
           f == CHOOSE h : h = Sections(list, p, h)
           Good(m) == Section(f[m], Seen(o, m, p))
           Not == {m \in 0 .. n : ~Good(m)}
<1>1. n \in Nat
  OBVIOUS
<1>2. f = Sections(list, p, f)
  BY <1>1, SectionsExist
<1>3. RowsOf(list, p) = f[n]
  BY RowsAreChosen
<1> HIDE DEF f
<1>4. /\ DOMAIN o = 1 .. n
      /\ \A m \in 1 .. n : o[m] \in Ids /\ o[m] \in {list[i] : i \in DOMAIN list}
      /\ \A i \in DOMAIN list : \E m \in 1 .. n : o[m] = list[i]
      /\ \A l, m \in 1 .. n : o[l] = o[m] => l = m
      /\ \A l, m \in 1 .. n : l < m => ~Precedes(o[m], o[l])
  BY OrderedIs
<1>5. \A m \in 0 .. n : f[m] = IF m = 0 THEN <<>>
                                 ELSE IF Period(o[m]) = p THEN Shown(f[m - 1], o[m]) ELSE f[m - 1]
  BY <1>2 DEF Sections
<1> HIDE DEF o, n
<1>6. Good(0)
  <2>1. f[0] = <<>> /\ Seen(o, 0, p) = {}
    BY <1>1, <1>5 DEF Seen
  <2> QED
    BY <2>1 DEF Section
<1>7. ASSUME NEW m \in 1 .. n, Good(m - 1) PROVE Good(m)
  <2> DEFINE seen == Seen(o, m - 1, p)
             e == o[m]
             r == f[m - 1]
  <2>1. m \in 0 .. n /\ m # 0 /\ m - 1 \in Nat /\ \A k : k \in 1 .. m <=> k \in 1 .. m - 1 \/ k = m
    BY <1>1
  <2>2. e \in Ids /\ Section(r, seen)
    BY <1>4, <1>7
  <2>3. f[m] = IF Period(e) = p THEN Shown(r, e) ELSE r
    BY <1>5, <2>1
  <2>4. Seen(o, m, p) = IF Period(e) = p /\ TypeOf(e) # "PERIOD_START" THEN seen \cup {e} ELSE seen
    BY <2>1 DEF Seen
  <2>5. \A k \in 1 .. m - 1 : k \in 1 .. n /\ k < m
    BY <1>1
  <2>6. seen \subseteq Ids /\ e \notin seen /\ \A d \in seen : ~Precedes(e, d)
    BY <1>4, <2>5 DEF Seen
  <2> HIDE DEF seen, e, r
  <2>7. CASE Period(e) # p
    BY <2>2, <2>3, <2>4, <2>7
  <2>8. CASE TypeOf(e) = "PERIOD_START"
    <3>1. Shown(r, e) = r
      BY <2>8 DEF Shown
    <3> QED
      BY <2>2, <2>3, <2>4, <2>8, <3>1
  <2>9. CASE Period(e) = p /\ TypeOf(e) # "PERIOD_START" /\ Same(r, e) = {}
    <3>1. f[m] = Append(r, Row(e))
      BY <2>3, <2>9, ShownIs
    <3> QED
      BY <2>2, <2>4, <2>6, <2>9, <3>1, AppendTells
  <2>10. CASE Period(e) = p /\ TypeOf(e) # "PERIOD_START" /\ Same(r, e) # {}
    <3>1. f[m] = [r EXCEPT ![Min(Same(r, e))] = Kept(@, e)]
      BY <2>3, <2>10, ShownIs
    <3>2. Section([r EXCEPT ![Min(Same(r, e))] = Kept(@, e)], seen \cup {e})
      BY <2>2, <2>6, <2>10, JoinTells
    <3>3. Section(f[m], seen \cup {e}) /\ Seen(o, m, p) = seen \cup {e}
      BY <2>4, <2>10, <3>1, <3>2
    <3> QED
      BY <3>3
  <2> QED
    BY <2>7, <2>8, <2>9, <2>10
<1> HIDE DEF Good
<1>8. Not = {}
  <2> SUFFICES ASSUME Not # {} PROVE FALSE
    OBVIOUS
  <2>1. Not \subseteq Nat
    BY <1>1
  <2>2. PICK m \in Not : \A k \in Not : m <= k
    BY <2>1, LeastNat
  <2>3. m \in 1 .. n /\ m - 1 \in 0 .. n /\ m - 1 \notin Not
    BY <1>1, <1>6, <2>2
  <2> QED
    BY <1>7, <2>2, <2>3
<1>9. Good(n)
  BY <1>1, <1>8
<1>10. Seen(o, n, p) = {list[i] : i \in {j \in DOMAIN list :
                           Period(list[j]) = p /\ TypeOf(list[j]) # "PERIOD_START"}}
  BY <1>4 DEF Seen
<1> QED
  BY <1>3, <1>9, <1>10 DEF Good, n

-----------------------------------------------------------------------------
(* The steps. *)

PageInv ==
    /\ stored \in Seq(Ids)
    /\ \A i, j \in DOMAIN stored : stored[i] = stored[j] => i = j
    /\ page = None \/ page = ForMatch(stored)

LEMMA PageInvKept ==
    /\ PageInit => PageInv
    /\ PageInv /\ [PageNext]_pageVars => PageInv'
<1>1. PageInit => PageInv
  BY DEF PageInit, PageInv
<1>2. ASSUME PageInv, Serve PROVE PageInv'
  BY <1>2 DEF PageInv, Serve
<1>3. ASSUME PageInv, EventStored PROVE PageInv'
  <2> PICK e \in Ids \ ToSet(stored), i \in 1 .. Len(stored) + 1 : stored' = InsertAt(stored, i, e)
    BY <1>3 DEF EventStored
  <2>1. stored \in Seq(Ids) /\ \A k, l \in DOMAIN stored : stored[k] = stored[l] => k = l
    BY <1>3 DEF PageInv
  <2>2. \A k \in DOMAIN stored : stored[k] # e
    BY DEF ToSet
  <2>3. stored' = SubSeq(stored, 1, i - 1) \o <<e>> \o SubSeq(stored, i, Len(stored))
    BY DEF InsertAt
  <2>4. /\ stored' \in Seq(Ids) /\ DOMAIN stored' = 1 .. Len(stored) + 1
        /\ \A k \in DOMAIN stored' :
             stored'[k] = IF k < i THEN stored[k] ELSE IF k = i THEN e ELSE stored[k - 1]
    <3> DEFINE A == SubSeq(stored, 1, i - 1)
               B == SubSeq(stored, i, Len(stored))
               n == Len(stored)
    <3>1. n \in Nat /\ i \in 1 .. n + 1 /\ e \in Ids
      BY <2>1
    <3>2. /\ A \in Seq(Ids) /\ Len(A) = i - 1 /\ \A k \in 1 .. i - 1 : A[k] = stored[k]
      BY <2>1, <3>1
    <3>3. /\ B \in Seq(Ids) /\ Len(B) = n - i + 1 /\ \A k \in 1 .. n - i + 1 : B[k] = stored[i + k - 1]
      BY <2>1, <3>1
    <3> HIDE DEF A, B, n
    <3> DEFINE C == A \o <<e>>
    <3>4. /\ C \in Seq(Ids) /\ Len(C) = i /\ C[i] = e /\ \A k \in 1 .. i - 1 : C[k] = stored[k]
      BY <3>1, <3>2
    <3>5. stored' = C \o B
      BY <2>3 DEF A, B
    <3> HIDE DEF C
    <3>6. /\ stored' \in Seq(Ids) /\ Len(stored') = n + 1 /\ DOMAIN stored' = 1 .. n + 1
          /\ \A k \in 1 .. n + 1 : stored'[k] = IF k <= i THEN C[k] ELSE B[k - i]
      BY <3>1, <3>3, <3>4, <3>5
    <3>7. ASSUME NEW k \in 1 .. n + 1
          PROVE  stored'[k] = IF k < i THEN stored[k] ELSE IF k = i THEN e ELSE stored[k - 1]
      <4>1. CASE k <= i
        BY <3>1, <3>4, <3>6, <4>1
      <4>2. CASE k > i
        <5>1. k - i \in 1 .. n - i + 1 /\ i + (k - i) - 1 = k - 1
          BY <3>1, <4>2
        <5>2. B[k - i] = stored[k - 1]
          BY <3>3, <5>1
        <5> QED
          BY <3>1, <3>6, <4>2, <5>2
      <4> QED
        BY <3>1, <4>1, <4>2
    <3> QED
      BY <3>6, <3>7 DEF n
  <2>5. \A k \in DOMAIN stored' : /\ k < i => k \in DOMAIN stored
                                  /\ k > i => k - 1 \in DOMAIN stored
    BY <2>1, <2>4
  <2>6. \A k, l \in DOMAIN stored' : stored'[k] = stored'[l] => k = l
    BY <2>1, <2>2, <2>4, <2>5
  <2>7. page' = None
    BY <1>3 DEF EventStored
  <2> QED
    BY <2>4, <2>6, <2>7 DEF PageInv
<1>4. ASSUME PageInv, UNCHANGED pageVars PROVE PageInv'
  BY <1>4 DEF PageInv, pageVars
<1> QED
  BY <1>1, <1>2, <1>3, <1>4 DEF PageNext

LEMMA PageTells == PageInv => PageTellsTheMatch
<1> SUFFICES ASSUME PageInv, page # None, page # <<>> PROVE PageTellsTheMatch
  BY DEF PageTellsTheMatch
<1>1. stored \in Seq(Ids) /\ \A i, j \in DOMAIN stored : stored[i] = stored[j] => i = j
  BY DEF PageInv
<1>2. page = [p \in {Period(stored[i]) : i \in DOMAIN stored} |-> RowsOf(stored, p)]
  BY DEF PageInv, ForMatch
<1>3. DOMAIN page = {Period(e) : e \in ToSet(stored)}
  BY <1>2 DEF ToSet
<1>4. ASSUME NEW p \in DOMAIN page
      PROVE  LET events == {e \in ToSet(stored) : Period(e) = p /\ TypeOf(e) # "PERIOD_START"}
                 told == [i \in DOMAIN page[p] |-> page[p][i].event]
             IN /\ \A e \in events :
                     Cardinality({i \in DOMAIN told :
                        told[i] = e \/ /\ TypeOf(e) = "DELAY" /\ TypeOf(told[i]) = "DELAY"
                                       /\ SameMinute(told[i], e)}) = 1
                /\ \A i, j \in DOMAIN told :
                     i < j => \/ TypeOf(told[j]) = "PERIOD_END"
                              \/ /\ TypeOf(told[i]) # "PERIOD_END"
                                 /\ None \notin {PageEvents[told[i]].base, PageEvents[told[j]].base} =>
                                      /\ PageEvents[told[i]].base <= PageEvents[told[j]].base
                                      /\ PageEvents[told[i]].base = PageEvents[told[j]].base =>
                                           PageEvents[told[i]].added <= PageEvents[told[j]].added
                /\ \A i \in DOMAIN told, e \in events :
                     (/\ TypeOf(told[i]) = "DELAY" /\ TypeOf(e) = "DELAY"
                      /\ SameMinute(told[i], e) /\ ~IsGeneric(PageEvents[e].detail)) =>
                       ~IsGeneric(page[p][i].detail)
  <2> DEFINE events == {e \in ToSet(stored) : Period(e) = p /\ TypeOf(e) # "PERIOD_START"}
             list == page[p]
             told == [i \in DOMAIN list |-> list[i].event]
  <2>1. events = {stored[i] : i \in {j \in DOMAIN stored :
                     Period(stored[j]) = p /\ TypeOf(stored[j]) # "PERIOD_START"}}
    BY DEF ToSet
  <2>2. list = RowsOf(stored, p)
    BY <1>2
  <2>3. Section(list, events)
    BY <1>1, <2>1, <2>2, SectionTells
  <2>4. events \subseteq Ids /\ \A e \in events : Period(e) = p
    BY <1>1, <2>1
  <2> HIDE DEF list, events
  <2>5. ASSUME NEW i \in DOMAIN list PROVE list[i].event \in events
    <3>1. list[i] \in PageRows(events)
      BY <2>3 DEF Section
    <3> QED
      BY <3>1 DEF PageRows
  <2>6. ASSUME NEW e \in events
        PROVE  Cardinality({i \in DOMAIN told :
                  told[i] = e \/ /\ TypeOf(e) = "DELAY" /\ TypeOf(told[i]) = "DELAY"
                                 /\ SameMinute(told[i], e)}) = 1
    <3> PICK i \in DOMAIN list : Tells(list[i], e)
      BY <2>3 DEF Section
    <3>1. \A j \in DOMAIN list : Tells(list[j], e) => j = i
      BY <2>3 DEF Section
    <3>2. {j \in DOMAIN told : told[j] = e \/ /\ TypeOf(e) = "DELAY" /\ TypeOf(told[j]) = "DELAY"
                                              /\ SameMinute(told[j], e)} = {i}
      BY <3>1 DEF Tells
    <3> QED
      BY <3>2, FS_Singleton
  <2>7. ASSUME NEW i \in DOMAIN told, NEW j \in DOMAIN told, i < j
        PROVE  \/ TypeOf(told[j]) = "PERIOD_END"
               \/ /\ TypeOf(told[i]) # "PERIOD_END"
                  /\ None \notin {PageEvents[told[i]].base, PageEvents[told[j]].base} =>
                       /\ PageEvents[told[i]].base <= PageEvents[told[j]].base
                       /\ PageEvents[told[i]].base = PageEvents[told[j]].base =>
                            PageEvents[told[i]].added <= PageEvents[told[j]].added
    <3> DEFINE a == told[i]
               b == told[j]
    <3>1. a \in Ids /\ b \in Ids /\ Period(a) = Period(b) /\ ~Precedes(b, a)
      BY <2>3, <2>4, <2>5, <2>7 DEF Section
    <3> HIDE DEF a, b
    <3>2. /\ EndLast(a) \in {0, 1} /\ EndLast(b) \in {0, 1} /\ MinuteOrder(a) \in Nat /\ MinuteOrder(b) \in Nat
          /\ PageEvents[a].added \in 0 .. 99 /\ PageEvents[b].added \in 0 .. 99
          /\ PageEvents[a].base = None \/ PageEvents[a].base \in Nat
          /\ PageEvents[b].base = None \/ PageEvents[b].base \in Nat
      BY <3>1, KeysAre
    <3>3. EndLast(a) < EndLast(b) \/ (EndLast(a) = EndLast(b) /\ MinuteOrder(a) <= MinuteOrder(b))
      BY <3>1, <3>2, PrecedesIs
    <3>4. TypeOf(b) # "PERIOD_END" => TypeOf(a) # "PERIOD_END" /\ MinuteOrder(a) <= MinuteOrder(b)
      BY <3>2, <3>3 DEF EndLast
    <3>5. (PageEvents[a].base # None /\ PageEvents[b].base # None /\ MinuteOrder(a) <= MinuteOrder(b)) =>
            /\ PageEvents[a].base <= PageEvents[b].base
            /\ PageEvents[a].base = PageEvents[b].base => PageEvents[a].added <= PageEvents[b].added
      <4> SUFFICES ASSUME PageEvents[a].base # None, PageEvents[b].base # None,
                          MinuteOrder(a) <= MinuteOrder(b)
                   PROVE  /\ PageEvents[a].base <= PageEvents[b].base
                          /\ PageEvents[a].base = PageEvents[b].base =>
                               PageEvents[a].added <= PageEvents[b].added
        OBVIOUS
      <4> PICK x \in Nat, y \in Nat, k \in 0 .. 99, l \in 0 .. 99 :
            /\ PageEvents[a].base = x /\ PageEvents[b].base = y
            /\ PageEvents[a].added = k /\ PageEvents[b].added = l
        BY <3>2
      <4>1. x * 100 + k <= y * 100 + l
        BY DEF MinuteOrder
      <4> QED
        BY <4>1
    <3> QED
      BY <3>4, <3>5 DEF a, b
  <2>8. \A i \in DOMAIN told, e \in events :
          (/\ TypeOf(told[i]) = "DELAY" /\ TypeOf(e) = "DELAY"
           /\ SameMinute(told[i], e) /\ ~IsGeneric(PageEvents[e].detail)) =>
            ~IsGeneric(list[i].detail)
    BY <2>3 DEF Section, Tells
  <2> QED
    BY <2>6, <2>7, <2>8 DEF list, events
<1> QED
  BY <1>3, <1>4 DEF PageTellsTheMatch

\* However late the events of a match came and however the database broke its ties, the page
\* TimelineService.forMatch serves tells every event once, in the order of the minutes shown
\* and with each whistle last, and the stoppages of a minute in one row with their reason,
\* for any events of any types, periods and minutes.
THEOREM PageAlwaysTells == PageSpec => []PageTellsTheMatch
<1>1. PageInit => PageInv
  BY PageInvKept
<1>2. PageInv /\ [PageNext]_pageVars => PageInv'
  BY PageInvKept
<1>3. PageInv => PageTellsTheMatch
  BY PageTells
<1> QED
  BY <1>1, <1>2, <1>3, PTL DEF PageSpec

=============================================================================
