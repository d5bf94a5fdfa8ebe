---------------------------- MODULE Predictions ----------------------------
(***************************************************************************)
(* The bets on one match (PredictionsService) and the two views that show  *)
(* them to the other members (PoolsService.matchPredictions,               *)
(* RankingsService.matchRanking), over the match of MatchControl.  A bet   *)
(* is reduced to who placed it and what that user had seen by then.        *)
(***************************************************************************)
EXTENDS MatchControl

CONSTANTS Users

VARIABLES
    bets,      \* the predictions in the database
    requests,  \* upserts that have been checked and are yet to be written
    peeked     \* history: the users who were shown somebody else's bet

betVars == <<bets, requests, peeked>>
vars == <<matchVars, betVars>>

PredictionsInit ==
    /\ MatchInit
    /\ bets = [u \in Users |-> "none"]
    /\ requests = {}
    /\ peeked = {}

\* Everything MatchControl describes, the bets left alone.
MatchStep == MatchNext /\ UNCHANGED betVars

\* upsert, up to assertOpenForPrediction: the user has chosen, the row is read
\* and the window is open.
BetChecked(u) ==
    /\ AcceptsPredictions(row, now)
    /\ requests' = requests \cup
            {[user |-> u, kind |-> IF u \in peeked THEN "informed" ELSE "blind"]}
    /\ UNCHANGED <<matchVars, bets, peeked>>

\* adminUpsert, up to its write: the one gate is that both teams are known.
AdminBetChecked(u) ==
    /\ "admin" \in Actors
    /\ row.teams
    /\ requests' = requests \cup {[user |-> u, kind |-> "admin"]}
    /\ UNCHANGED <<matchVars, bets, peeked>>

\* The upsert of either.
BetWritten(q) ==
    /\ bets' = [bets EXCEPT ![q.user] = q.kind]
    /\ requests' = requests \ {q}
    /\ UNCHANGED <<matchVars, peeked>>

\* The write never reaches the database.  A restart also ends the others' wait,
\* but a write already sent still lands.
BetLost(q) ==
    /\ "faults" \in Actors
    /\ requests' = requests \ {q}
    /\ UNCHANGED <<matchVars, bets, peeked>>

\* A member opens the match in the pool, or its ranking, and somebody else has bet.
OthersShown(u) ==
    /\ Revealed(row, now)
    /\ \E v \in Users \ {u} : bets[v] # "none"
    /\ peeked' = peeked \cup {u}
    /\ UNCHANGED <<matchVars, bets, requests>>

PredictionsNext ==
    \/ MatchStep
    \/ \E u \in Users : BetChecked(u) \/ AdminBetChecked(u) \/ OthersShown(u)
    \/ \E q \in requests : BetWritten(q) \/ BetLost(q)

PredictionsSpec == PredictionsInit /\ [][PredictionsNext]_vars

-----------------------------------------------------------------------------
(* Properties. *)

\* Nobody bets on a match after having been shown another member's bet on it,
\* however the clock, the feeds, the in-flight upserts and failures interleave:
\* the prediction window and the two views keep one fairness rule between them.
NobodyBetsInformed ==
    /\ \A u \in Users : bets[u] # "informed"
    /\ \A q \in requests : q.kind # "informed"
=============================================================================
