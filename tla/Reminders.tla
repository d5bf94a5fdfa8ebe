----------------------------- MODULE Reminders -----------------------------
(***************************************************************************)
(* The match notifications (ReminderService with                           *)
(* NotificationsService.createMissing and createMissingPerUser) of one     *)
(* match: the day-ahead and the hour-ahead reminder, the kickoff and the   *)
(* full-time result.  A cron starts a run every minute and does not wait   *)
(* for the previous one; a run goes through the four types in order.  The  *)
(* database rows are idempotent, the pushes that follow them are not.      *)
(***************************************************************************)
EXTENDS Common

CONSTANTS
    Fans,            \* the users who may follow or bet
    Passes,          \* bound on the runs of tick in progress
    Hour, Day,       \* HOUR_MS and DAY_MS, in minutes of this clock
    Early, Late,     \* notifyStarted: 5 minutes before, 3 hours after the kickoff
    Recent,          \* notifyFinished: 6 hours after the kickoff
    KickoffTimes,
    LastMinute,      \* bound on the clock
    MaxRedates       \* bound on what users and writers of the match change

ASSUME RemindersAssumption ==
    /\ IsFiniteSet(Fans)
    /\ {Hour, Day, Early, Late, Recent, LastMinute, MaxRedates} \subseteq Nat
    /\ 0 < Hour /\ Hour < Day
    /\ KickoffTimes \subseteq Nat

Types == <<"MATCH_REMINDER_1D", "MATCH_REMINDER_1H", "MATCH_STARTED", "MATCH_FINISHED">>
Type == {Types[i] : i \in 1..Len(Types)}

VARIABLES
    minute,      \* the clock
    match,       \* status and kickoff
    follows,     \* who follows one of the match's teams, and who the match
    bettors,     \* who has a prediction on it
    pass,        \* each run of tick: its type, and the users it holds
    fired,       \* the cron has started this minute's run
    rows,        \* the notifications in the database, one per user and type
    watched,     \* the type the next two follow, any of the four
    pushed,      \* how often a user's devices were sent it
    entitled,    \* history: for how many whole minutes, two at most, a run
                 \* was to address the user; -1 in a minute that will
                 \* not be a whole one
    overlapped,  \* history: a run began before the previous one ended
    crashed      \* history: the process died with a run in progress

remindersVars == <<minute, match, follows, bettors, pass, fired, rows, watched,
                   pushed, entitled, overlapped, crashed>>

Off == [pc |-> "off"]
Running == {p \in Passes : pass[p] # Off}

RemindersInit ==
    /\ minute = 0
    /\ match \in [status : {"SCHEDULED", "LIVE"}, kickoff : KickoffTimes, changes : {0}]
    /\ follows \in SUBSET (Fans \X {"team", "match"})
    /\ bettors \in SUBSET Fans
    /\ pass = [p \in Passes |-> Off]
    /\ fired = FALSE
    /\ rows = {}
    /\ watched \in Type
    /\ pushed = [u \in Fans |-> 0]
    /\ entitled = [u \in Fans |-> 0]
    /\ overlapped = FALSE
    /\ crashed = FALSE

-----------------------------------------------------------------------------
(* Faulty variants, for testing the properties. *)

\* only those who follow a team are reminded
TeamFollowers(t) ==
    IF t = "MATCH_FINISHED" THEN bettors ELSE {u \in Fans : <<u, "team">> \in follows}

\* everybody addressed counts as missing
EverybodyFresh(t, users) == users

-----------------------------------------------------------------------------
(* Whom a run addresses. *)

\* remindWindow, notifyStarted, notifyFinished: is the match selected?  The
\* windows are open at their near end and closed at the far one.
Selected(t, row, now) ==
    CASE t = "MATCH_REMINDER_1D" ->
           row.status = "SCHEDULED" /\ row.kickoff > now + Hour /\ row.kickoff <= now + Day
      [] t = "MATCH_REMINDER_1H" ->
           row.status = "SCHEDULED" /\ row.kickoff > now /\ row.kickoff <= now + Hour
      [] t = "MATCH_STARTED" ->
           row.status = "LIVE" /\ row.kickoff >= now - Late /\ row.kickoff <= now + Early
      [] t = "MATCH_FINISHED" ->
           row.status = "FINISHED" /\ row.kickoff >= now - Recent

\* audienceFor: the followers of either team and of the match, each once; the
\* result goes to those who predicted the match.
Audience(t) == IF t = "MATCH_FINISHED" THEN bettors ELSE {f[1] : f \in follows}

Addressed(t, row, now) == IF Selected(t, row, now) THEN Audience(t) ELSE {}

\* createMissing: those who have no row of the type yet
Fresh(t, users) == {u \in users : <<u, t>> \notin rows}

-----------------------------------------------------------------------------
(* The runs. *)

\* Where a run goes from type i: to the next one, or it is over.
Onward(i) == IF i = Len(Types) THEN Off ELSE [pc |-> "reads", type |-> i + 1, late |-> FALSE]
Step(p, next) == pass' = [pass EXCEPT ![p] =
                            IF next = Off THEN Off ELSE [next EXCEPT !.late = pass[p].late]]

\* tick
Start(p) ==
    /\ pass[p] = Off /\ ~fired
    /\ pass' = [pass EXCEPT ![p] = [pc |-> "reads", type |-> 1, late |-> FALSE]]
    /\ fired' = TRUE
    /\ overlapped' = (overlapped \/ Running # {})
    /\ UNCHANGED <<minute, match, follows, bettors, rows, watched, pushed, entitled, crashed>>

\* The queries of one type: the matches, their audience, the rows there are.
Reads(p) ==
    /\ pass[p].pc = "reads"
    /\ LET i == pass[p].type
           fresh == Fresh(Types[i], Addressed(Types[i], match, minute))
       IN Step(p, IF fresh = {} THEN Onward(i)
                  ELSE [pc |-> "commits", type |-> i, late |-> FALSE, users |-> fresh])
    /\ UNCHANGED <<minute, match, follows, bettors, fired, rows, watched, pushed, entitled,
                   overlapped, crashed>>

\* createMany with skipDuplicates
Commits(p) ==
    /\ pass[p].pc = "commits"
    /\ rows' = rows \cup {<<u, Types[pass[p].type]>> : u \in pass[p].users}
    /\ Step(p, [pass[p] EXCEPT !.pc = "pushes"])
    /\ UNCHANGED <<minute, match, follows, bettors, fired, watched, pushed, entitled,
                   overlapped, crashed>>

\* The ping of the in-app badge and sendToUser, for every user that was missing
\* when the run looked, whoever wrote the row.
Pushes(p) ==
    /\ pass[p].pc = "pushes"
    /\ pushed' = [u \in Fans |->
                     IF u \in pass[p].users /\ Types[pass[p].type] = watched
                     THEN pushed[u] + 1 ELSE pushed[u]]
    /\ Step(p, Onward(pass[p].type))
    /\ UNCHANGED <<minute, match, follows, bettors, fired, rows, watched, entitled,
                   overlapped, crashed>>

\* Nobody has been entitled without a break: a run was lost, or the match or the
\* audience is not what it was.
Forgotten(users) == entitled' = [u \in Fans |-> IF u \in users THEN -1 ELSE entitled[u]]

\* A query throws: the catch of tick ends the run, with the types still to come.
Throws(p) ==
    /\ Faults
    /\ pass[p].pc \in {"reads", "commits"}
    /\ pass' = [pass EXCEPT ![p] = Off]
    /\ Forgotten(Fans)
    /\ UNCHANGED <<minute, match, follows, bettors, fired, rows, watched, pushed,
                   overlapped, crashed>>

RemindersCrash ==
    /\ Faults
    /\ Running # {}
    /\ pass' = [p \in Passes |-> Off]
    /\ Forgotten(Fans)
    /\ crashed' = TRUE
    /\ UNCHANGED <<minute, match, follows, bettors, fired, rows, watched, pushed, overlapped>>

-----------------------------------------------------------------------------
(* The others. *)

\* Follow, unfollow, of a team or of the match; writing what is there already
\* changes nothing.
FollowChanges ==
    /\ match.changes < MaxRedates
    /\ \E u \in Fans, kind \in {"team", "match"} :
         /\ follows' = IF <<u, kind>> \in follows THEN follows \ {<<u, kind>>}
                       ELSE follows \cup {<<u, kind>>}
         /\ Forgotten({u})
    /\ match' = [match EXCEPT !.changes = @ + 1]
    /\ UNCHANGED <<minute, bettors, pass, fired, rows, watched, pushed, overlapped, crashed>>

\* The robot, the refresh or an admin writes the match.
MatchChanges ==
    /\ match.changes < MaxRedates
    /\ \E status \in {"SCHEDULED", "LIVE", "FINISHED", "POSTPONED"}, k \in KickoffTimes :
         /\ <<status, k>> # <<match.status, match.kickoff>>
         /\ match' = [status |-> status, kickoff |-> k, changes |-> match.changes + 1]
    /\ Forgotten(Fans)
    /\ UNCHANGED <<minute, follows, bettors, pass, fired, rows, watched, pushed, overlapped, crashed>>

\* What the class comment of ReminderService promises, by the minutes left.
Promised(u, t) ==
    LET left == match.kickoff - minute
        status == match.status
        follower == \E kind \in {"team", "match"} : <<u, kind>> \in follows
    IN  \/ t = "MATCH_REMINDER_1D" /\ status = "SCHEDULED" /\ follower
           /\ left \in (Hour + 1)..Day
        \/ t = "MATCH_REMINDER_1H" /\ status = "SCHEDULED" /\ follower
           /\ left \in 1..Hour
        \/ t = "MATCH_STARTED" /\ status = "LIVE" /\ follower
           /\ left \in (-Late)..Early
        \/ t = "MATCH_FINISHED" /\ status = "FINISHED" /\ u \in bettors
           /\ left >= -Recent

\* A minute goes by: the cron has fired in it, and no run lasts two minutes.
Minute ==
    /\ minute < LastMinute
    /\ fired
    /\ \A p \in Running : ~pass[p].late
    /\ minute' = minute + 1
    /\ fired' = FALSE
    /\ pass' = [p \in Passes |-> IF pass[p] = Off THEN Off ELSE [pass[p] EXCEPT !.late = TRUE]]
    /\ entitled' = [u \in Fans |->
                      IF ~Promised(u, watched) THEN 0
                      ELSE IF entitled[u] < 2 THEN entitled[u] + 1 ELSE 2]
    /\ UNCHANGED <<match, follows, bettors, rows, watched, pushed, overlapped, crashed>>

RemindersNext ==
    \/ Minute \/ FollowChanges \/ MatchChanges \/ RemindersCrash
    \/ \E p \in Passes : Start(p) \/ Reads(p) \/ Commits(p) \/ Pushes(p) \/ Throws(p)

RemindersSpec == RemindersInit /\ [][RemindersNext]_remindersVars

-----------------------------------------------------------------------------
(* Properties. *)

\* Nobody is missed: whoever has been in a notification's window and audience for
\* two whole minutes has been notified, whatever run failed or died before them,
\* wherever the window's ends fall and however the runs overlap; and what is in
\* the list was sent to the devices too, or a run is about to, unless the process
\* died in between.
NobodyIsMissed ==
    \A u \in Fans :
        /\ entitled[u] = 2 => <<u, watched>> \in rows
        /\ <<u, watched>> \in rows =>
             \/ pushed[u] > 0
             \/ crashed
             \/ \E p \in Passes : /\ pass[p].pc = "pushes" /\ Types[pass[p].type] = watched
                                  /\ u \in pass[p].users

\* Runs that do not overlap push each notification once at most, whatever fails,
\* dies and is tried again, and however often the match changes its status, its
\* kickoff or its followers.
PushedOnce == \A u \in Fans : pushed[u] > 1 => overlapped
=============================================================================
