---------------------------- MODULE MatchControl ----------------------------
(***************************************************************************)
(* The row of one match and everything that writes it: the live ingestion  *)
(* robot (MatchSummaryService), the admin (MatchesService.update), the     *)
(* daily refresh of fixture dates (SeasonRefreshService) and the process   *)
(* restart.  Every handler that reads the row, awaits, and writes it later *)
(* is split at the await, with the row it read kept in its own state.      *)
(* What the feeds report is arbitrary: they lag, disagree and fail.        *)
(* The bets the row opens and closes are in module Predictions.            *)
(***************************************************************************)
EXTENDS LiveScore, FiniteSets

CONSTANTS
    Actors,        \* which of "robot", "admin", "refresh", "faults" take part
    Sides,         \* the sides whose goals are followed
    MaxTime,       \* bound on the clock
    Kickoffs,      \* the kickoff times the match may be given
    PreWindow,     \* PRE_WINDOW_MIN
    Grace,         \* SCHEDULED_GRACE_HOURS
    LiveMax,       \* LIVE_MAX_HOURS
    PostFinish,    \* POST_FINISH_MIN
    Fallback,      \* FINISH_FALLBACK_HOURS
    MaxPens,       \* bound on a side's shootout tally
    IsTie,         \* the match belongs to a knockout tie
    InitStatuses,  \* statuses a match may be seeded with
    AdminEdits     \* the columns of the row the admin edits in this instance

MatchStatus == {"SCHEDULED", "LIVE", "FINISHED", "POSTPONED", "CANCELLED"}
FeedState == {"pre", "in", "post"}
Time == 0..MaxTime
Columns == {"status", "kickoff", "open", "auto", "teams", "score", "pens"}

ASSUME MatchControlAssumption ==
    /\ Actors \subseteq {"robot", "admin", "refresh", "faults"}
    /\ MaxTime \in Nat /\ MaxPens \in Nat
    /\ Kickoffs \subseteq Nat
    /\ {PreWindow, Grace, LiveMax, PostFinish, Fallback} \subseteq Nat
    /\ IsTie \in BOOLEAN
    /\ InitStatuses \subseteq {"SCHEDULED", "POSTPONED"}
    /\ AdminEdits \subseteq Columns

\* open is Match.predictionsOpen: null follows the automatic rule, true and
\* false are the manual override.  auto is autoManaged.  teams says that both
\* teams are known.  pens stands for the two shootout tallies, which are only
\* ever written together.
Row == [status : MatchStatus, kickoff : Kickoffs, open : {"null", "true", "false"},
        auto : BOOLEAN, teams : BOOLEAN, score : [Sides -> Goals],
        pens : (0..MaxPens) \cup {None}, finishedAt : Time \cup {None}]

\* What one ESPN endpoint says of the match.  An answer that never came, or a
\* scoreboard event marked postponed, cancelled or suspended, is the empty set.
FeedEvent == [state : FeedState, goals : [Sides -> Goals \cup {None}],
              pens : (0..MaxPens) \cup {None}]
Answers(events) == {{}} \cup {{e} : e \in events}
Scoreboards == Answers(FeedEvent)
Summaries == Answers({e \in FeedEvent : e.pens = None})

Result(r) == [score |-> r.score, pens |-> r.pens]

VARIABLES
    now,           \* the server's clock
    row,           \* the match in the database
    robot,         \* the pass of the ingestion robot: where it is, the
                   \* scoreboard answer it holds, the row it read
    pending,       \* LiveScoreReconciler: the pending drop of each side
    adminResolve,  \* an admin update has yet to call resolveSeason
    refresh,       \* the season refresh: the row it read, if any
    resolved,      \* the result the bracket was last resolved with
    everRevealed,  \* history: the bets of this match were once shown
    observed,      \* history: the goals the reconciler last saw for each side
                   \* and since when it has seen nothing else
    overruled,     \* history: robot writes since the admin last took over
    lost           \* history: a resolveSeason that was due was never made

matchVars == <<now, row, robot, pending, adminResolve, refresh, resolved,
               everRevealed, observed, overruled, lost>>

Idle == [pc |-> "idle"]

-----------------------------------------------------------------------------
(* Faulty variants, for testing the properties. *)

\* the window knows nothing of the kickoff
AcceptsWhileScheduled(r, t) ==
    /\ r.teams
    /\ r.status \in {"SCHEDULED", "POSTPONED"}
    /\ r.open # "false"

\* the furthest feed is written as it is, even behind the current status
RaisesToAnyOther(current, states) ==
    /\ states # {}
    /\ current \in {"SCHEDULED", "LIVE", "FINISHED"}
    /\ current # (IF "post" \in states THEN "FINISHED"
                  ELSE IF "in" \in states THEN "LIVE" ELSE "SCHEDULED")

\* an admin's match is merged like any other
MergesAnyMatch(snap, states) == states \cap {"in", "post"} # {}

\* only the late shootout resolves the bracket
ResolveOnPenaltiesOnly(finishes, pens, snap) ==
    pens # {} /\ snap.status = "FINISHED"

-----------------------------------------------------------------------------
(* The prediction window and the views that show the bets. *)

\* PredictionsService.acceptsPredictions
AcceptsPredictions(r, t) ==
    /\ r.teams
    /\ \/ r.status = "POSTPONED"
       \/ r.status = "SCHEDULED" /\ t < r.kickoff
    /\ r.open # "false"

\* PoolsService.matchPredictions: the predictions of every member are returned
PoolReveals(r, t) == t >= r.kickoff \/ r.status # "SCHEDULED"

\* RankingsService.matchRanking: likewise
RankingReveals(r, t) == r.status \in {"LIVE", "FINISHED"} \/ t >= r.kickoff

Revealed(r, t) == PoolReveals(r, t) \/ RankingReveals(r, t)

-----------------------------------------------------------------------------
(* The ingestion robot. *)

Rank == [SCHEDULED |-> 0, LIVE |-> 1, FINISHED |-> 2]
Ranked == DOMAIN Rank

\* The furthest state of the two feeds, as a status (STATE_TO_STATUS).
MostAdvanced(states) ==
    IF "post" \in states THEN "FINISHED"
    ELSE IF "in" \in states THEN "LIVE" ELSE "SCHEDULED"

\* raiseStatus: the target, when it is an advance on the current status.  The
\* comparison with the rank of a status that has none is false.
Raises(current, states) ==
    /\ states # {}
    /\ current \in Ranked
    /\ Rank[MostAdvanced(states)] > Rank[current]

\* run: the candidate query
InWindow(r, t) ==
    /\ r.teams
    /\ \/ r.status = "LIVE" /\ r.kickoff >= t - LiveMax
       \/ r.status = "SCHEDULED" /\ r.kickoff \in (t - Grace)..(t + PreWindow)
       \/ r.status = "FINISHED" /\ r.finishedAt # None
                                /\ r.finishedAt >= t - PostFinish
       \/ r.status = "FINISHED" /\ r.finishedAt = None
                                /\ r.kickoff >= t - Fallback

\* tick and run: the running guard, the candidate query, the scoreboard.
RobotTick ==
    /\ "robot" \in Actors
    /\ robot.pc = "idle"
    /\ InWindow(row, now)
    /\ \E sb \in Scoreboards : robot' = [pc |-> "fetched", sb |-> sb]
    /\ UNCHANGED <<now, row, pending, adminResolve, refresh, resolved,
                   observed, overruled, lost>>

\* ingest: findUnique.
RobotRead ==
    /\ robot.pc = "fetched"
    /\ robot' = IF row.teams
                THEN [pc |-> "read", sb |-> robot.sb, snap |-> row]
                ELSE Idle
    /\ UNCHANGED <<now, row, pending, adminResolve, refresh, resolved,
                   observed, overruled, lost>>

\* The summary header is preferred for the score, the scoreboard the fallback.
Reported(sb, live, side) ==
    LET e == CHOOSE e \in (IF live # {} THEN live ELSE sb) : TRUE
    IN  e.goals[side]

FeedStates(sb, live) == {e.state : e \in sb \cup live}

\* The status, the score and the shootout are merged while autoManaged, the
\* last two once a feed says that the match has begun.
StatusRaised(snap, states) == snap.auto /\ Raises(snap.status, states)
Merges(snap, states) == snap.auto /\ states \cap {"in", "post"} # {}

\* The sides whose reported goals are written.
GoalsApplied(snap, states, goals) ==
    {s \in Sides : /\ Merges(snap, states)
                   /\ Applies(pending[s], goals[s], snap.score[s],
                              "post" \in states, now)}

\* The shootout tallies of the scoreboard that differ from the row's.
NewPens(snap, sb) ==
    IF Merges(snap, FeedStates(sb, {}))
    THEN {e.pens : e \in sb} \ {None, snap.pens}
    ELSE {}

\* The bracket is resolved when the match finishes, and when the shootout lands
\* on a match that had already finished.
ResolveDue(finishes, pens, snap) ==
    finishes \/ (pens # {} /\ snap.status = "FINISHED")

\* The columns of the update.
Merged(snap, states, goals, pens) ==
    [row EXCEPT
        !.status = IF StatusRaised(snap, states) THEN MostAdvanced(states) ELSE @,
        !.finishedAt = IF StatusRaised(snap, states) /\ "post" \in states
                       THEN now ELSE @,
        !.score = [s \in Sides |-> IF s \in GoalsApplied(snap, states, goals)
                                   THEN goals[s] ELSE row.score[s]],
        !.pens = IF pens # {} THEN CHOOSE n \in pens : TRUE ELSE @]

\* ingest: the merge of the two feeds into the row that was read, and the
\* update, which writes only the columns that changed.  saved is FALSE when the
\* database refuses it: the reconciler has moved on, the pass is over.
RobotMerge ==
    /\ robot.pc = "read"
    /\ \E live \in Summaries,
          saved \in {TRUE} \cup {b \in BOOLEAN : "faults" \in Actors} :
        LET snap == robot.snap
            states == FeedStates(robot.sb, live)
            goals == [s \in Sides |-> Reported(robot.sb, live, s)]
            pens == NewPens(snap, robot.sb)
            finishes == StatusRaised(snap, states) /\ "post" \in states
        IN  /\ row' = IF saved THEN Merged(snap, states, goals, pens) ELSE row
            /\ robot' = IF saved /\ ResolveDue(finishes, pens, snap)
                        THEN [pc |-> "resolve"] ELSE Idle
            /\ pending' = IF ~Merges(snap, states) THEN pending
                          ELSE [s \in Sides |-> PendingAfter(pending[s], goals[s],
                                  snap.score[s], "post" \in states, now)]
            /\ observed' = IF ~Merges(snap, states) THEN observed
                           ELSE [s \in Sides |->
                                  IF goals[s] = observed[s].value THEN observed[s]
                                  ELSE [value |-> goals[s], since |-> now]]
            /\ overruled' = IF ~row.auto /\ row' # row /\ overruled < 2
                            THEN overruled + 1 ELSE overruled
    /\ UNCHANGED <<now, adminResolve, refresh, resolved, lost>>

\* resolveSeason reads the results that stand when it runs.
Resolve ==
    resolved' = IF row.status = "FINISHED" THEN Result(row) ELSE resolved

RobotResolve ==
    /\ robot.pc = "resolve"
    /\ Resolve
    /\ robot' = Idle
    /\ UNCHANGED <<now, row, pending, adminResolve, refresh, observed, overruled, lost>>

\* A call of the pass throws: run logs it and goes on to the next match.
RobotAborts ==
    /\ "faults" \in Actors
    /\ robot.pc # "idle"
    /\ robot' = Idle
    /\ lost' = (lost \/ robot.pc = "resolve")
    /\ UNCHANGED <<now, row, pending, adminResolve, refresh, resolved,
                   observed, overruled>>

-----------------------------------------------------------------------------
(* The admin. *)

\* A PATCH may set any of the columns; one that is left out keeps its value.
Edited(column, values) ==
    IF column \in AdminEdits THEN values ELSE {row[column]}

EditedRows ==
    [status : Edited("status", MatchStatus), kickoff : Edited("kickoff", Kickoffs),
     open : Edited("open", {"null", "true", "false"}),
     auto : Edited("auto", BOOLEAN), teams : Edited("teams", BOOLEAN),
     score : Edited("score", [Sides -> Goals]),
     pens : Edited("pens", 0..MaxPens \cup {row.pens}),
     finishedAt : {row.finishedAt}]

\* MatchesService.update.  scored says that the request carries a score or a
\* tally, even an unchanged one.
AdminUpdate ==
    /\ "admin" \in Actors
    /\ \E edited \in EditedRows, scored \in BOOLEAN :
        /\ Result(edited) # Result(row) => scored
        /\ row' = edited
        /\ adminResolve' = (adminResolve \/ edited.status = "FINISHED"
                              \/ (IsTie /\ scored))
        /\ overruled' = IF edited.auto # row.auto THEN 0 ELSE overruled
    /\ UNCHANGED <<now, robot, pending, refresh, resolved, observed, lost>>

AdminResolve ==
    /\ adminResolve
    /\ Resolve
    /\ adminResolve' = FALSE
    /\ UNCHANGED <<now, row, robot, pending, refresh, observed, overruled, lost>>

-----------------------------------------------------------------------------
(* The season refresh. *)

Settled == {"FINISHED", "LIVE", "CANCELLED"}

\* refreshSeason: the matches of the season are read once, before any fetch.
RefreshRead ==
    /\ "refresh" \in Actors
    /\ refresh.pc = "idle"
    /\ refresh' = [pc |-> "read", status |-> row.status, kickoff |-> row.kickoff]
    /\ UNCHANGED <<now, row, robot, pending, adminResolve, resolved, observed,
                   overruled, lost>>

\* The round that lists the match has been fetched: date is the kickoff it
\* publishes, None while there is none.  A fetch that fails skips the match.
RefreshWrite ==
    /\ refresh.pc = "read"
    /\ \E date \in Kickoffs \cup {None} :
        row' = IF refresh.status \in Settled THEN row
               ELSE IF date = None
               THEN IF refresh.status = "POSTPONED" THEN row
                    ELSE [row EXCEPT !.status = "POSTPONED"]
               ELSE IF refresh.status = "POSTPONED" \/ refresh.kickoff # date
               THEN [row EXCEPT !.status = "SCHEDULED", !.kickoff = date]
               ELSE row
    /\ refresh' = Idle
    /\ UNCHANGED <<now, robot, pending, adminResolve, resolved, observed,
                   overruled, lost>>

-----------------------------------------------------------------------------
(* Time and restarts. *)

Tick ==
    /\ now < MaxTime
    /\ now' = now + 1
    /\ UNCHANGED <<row, robot, pending, adminResolve, refresh, resolved,
                   observed, overruled, lost>>

\* The process dies and comes back: what it held in memory is gone.
Restart ==
    /\ "faults" \in Actors
    /\ robot' = Idle
    /\ refresh' = Idle
    /\ pending' = [s \in Sides |-> {}]
    /\ adminResolve' = FALSE
    /\ lost' = (lost \/ robot.pc = "resolve" \/ adminResolve)
    /\ UNCHANGED <<now, row, resolved, observed, overruled>>

MatchInit ==
    /\ now = 0
    /\ row \in [status : InitStatuses, kickoff : Kickoffs, open : {"null"},
                auto : {TRUE}, teams : BOOLEAN, score : {[s \in Sides |-> 0]},
                pens : {None}, finishedAt : {None}]
    /\ robot = Idle
    /\ pending = [s \in Sides |-> {}]
    /\ adminResolve = FALSE
    /\ refresh = Idle
    /\ resolved = None
    /\ everRevealed = Revealed(row, now)
    /\ observed = [s \in Sides |-> [value |-> None, since |-> 0]]
    /\ overruled = 0
    /\ lost = FALSE

MatchAction ==
    \/ RobotTick \/ RobotRead \/ RobotMerge \/ RobotResolve \/ RobotAborts
    \/ AdminUpdate \/ AdminResolve
    \/ RefreshRead \/ RefreshWrite
    \/ Tick \/ Restart

Observed(A) == A /\ everRevealed' = (everRevealed \/ Revealed(row', now'))

MatchNext == Observed(MatchAction)

\* The cron fires the robot every 15 seconds, and a pass that has started goes
\* on: every await in it returns or times out.
RobotFairness ==
    /\ WF_matchVars(Observed(RobotTick))
    /\ WF_matchVars(Observed(RobotRead \/ RobotMerge \/ RobotResolve))

MatchSpec == MatchInit /\ [][MatchNext]_matchVars
FairMatchSpec == MatchSpec /\ RobotFairness

-----------------------------------------------------------------------------
(* Properties. *)

RobotState ==
    [pc : {"idle", "resolve"}] \cup [pc : {"fetched"}, sb : Scoreboards]
      \cup [pc : {"read"}, sb : Scoreboards, snap : Row]

MatchTypeOK ==
    /\ now \in Time
    /\ row \in Row
    /\ robot \in RobotState
    /\ pending \in [Sides -> SUBSET PendingDrop]
    /\ adminResolve \in BOOLEAN
    /\ refresh \in [pc : {"idle"}]
         \cup [pc : {"read"}, status : MatchStatus, kickoff : Kickoffs]
    /\ resolved \in {None} \cup [score : [Sides -> Goals],
                                 pens : (0..MaxPens) \cup {None}]
    /\ everRevealed \in BOOLEAN
    /\ observed \in [Sides -> [value : Goals \cup {None}, since : Time]]
    /\ overruled \in 0..2
    /\ lost \in BOOLEAN

\* No write of the robot lowers the status in the order SCHEDULED, LIVE,
\* FINISHED, or leaves that order: a feed that lags, or the slower of the two,
\* never un-starts or un-finishes a match (live-merge.ts).
RobotOneWay ==
    [][robot.pc = "read" /\ robot'.pc # "read" /\ row.status \in Ranked
         => row'.status \in Ranked /\ Rank[row'.status] >= Rank[row.status]]_matchVars

\* Until the match is over, the robot lowers a side's goals only to a value
\* that is all the reconciler has seen of that side for Confirm: a feed that
\* lags for less never takes a goal away (LiveScoreReconciler).
FallIsConfirmed ==
    [][\A s \in Sides :
         robot.pc = "read" /\ row'.score[s] < row.score[s]
           /\ row'.status # "FINISHED"
         => /\ observed'[s].value = row'.score[s]
            /\ now - observed'[s].since >= Confirm]_matchVars

\* The bets of a match are never open again once they were ever shown, however
\* the clock, the feeds and the restarts interleave (acceptsPredictions, against
\* the two views that reveal them).
RevealedStaysClosed == everRevealed => ~AcceptsPredictions(row, now)

\* Between two takeovers the robot writes at most once over an admin's match:
\* only the pass that was already in flight can still do it.
OverruledAtMostOnce == overruled <= 1

\* A match that finished gets its bracket resolved, unless the pass that flipped
\* it dies or throws before its second half.
FinishedIsResolved == row.status = "FINISHED" ~> resolved # None \/ lost

-----------------------------------------------------------------------------
(* Promises of the repository's comments that the code does not keep. *)

\* season-refresh.service.ts: the refresh never touches a match that is being
\* played, is over or was cancelled.
RefreshLeavesSettled ==
    [][refresh.pc = "read" /\ refresh'.pc = "idle" /\ row.status \in Settled
         => row' = row]_matchVars

\* slot-resolver.service.ts: the bracket is resolved again after a result
\* changes, so between passes it reflects the result that stands.
ResolvedIsCurrent ==
    robot.pc = "idle" /\ ~adminResolve /\ row.status = "FINISHED"
      => resolved = Result(row)
=============================================================================
