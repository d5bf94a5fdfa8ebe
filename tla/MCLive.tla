------------------------------- MODULE MCLive -------------------------------
(* A match as it is played: the robot that writes it, with nobody else at it, *)
(* and the signals that tell the pages of what is written.  The two share no  *)
(* state, so each behaviour is one of them, chosen at the start, and the other *)
(* stands still.                                                              *)
EXTENDS MatchControl, Realtime

VARIABLE part

InitLive ==
    /\ part \in {"robot", "signals"}
    /\ MatchInit /\ RealtimeInit
    \* what a component chooses at its start, it chooses in its own part
    /\ part # "robot" => row.auto /\ row.teams /\ \A k \in Kickoffs : row.kickoff <= k
    /\ part # "signals" => page.room = "match" /\ \A k \in KickoffInstants : stored.kickoff <= k

InPart(p, others) == part = p /\ UNCHANGED <<others, part>>

NextLive ==
    \/ InPart("robot", realtimeVars) /\ MatchNext
    \/ InPart("signals", matchVars) /\ RealtimeNext

\* The fairness of each, while it is the one that runs.  The cron fires the robot,
\* whose awaits return or time out; the timer of the signals and their cron fire,
\* started work returns, browsers reconnect.
FairLive ==
    /\ WF_matchVars(part = "robot" /\ Observed(RobotTick))
    /\ WF_matchVars(part = "robot" /\ Observed(RobotRead \/ RobotMerge \/ RobotResolve))
    /\ WF_realtimeVars(part = "signals" /\ TimerFires)
    /\ WF_realtimeVars(part = "signals" /\ Emit)
    /\ WF_realtimeVars(part = "signals" /\ (PollKickoffs \/ PollUpdates))
    /\ WF_realtimeVars(part = "signals" /\ Refetch)
    /\ WF_realtimeVars(part = "signals" /\ Reconnect)

SpecLive ==
    /\ InitLive
    /\ [][NextLive]_<<part, matchVars, realtimeVars>>
    /\ FairLive
=============================================================================
