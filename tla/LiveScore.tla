----------------------------- MODULE LiveScore -----------------------------
(***************************************************************************)
(* LiveScoreReconciler (src/src/live-ingest/espn.service.ts): what to do   *)
(* with the goals a feed reports for one side of a match.  A rise applies  *)
(* at once; a fall is a correction (a goal annulled) or a lagging feed, and *)
(* the two are told apart by persistence.  The reconciler's memory for one *)
(* side is a set of at most one pending drop [value, since].               *)
(***************************************************************************)
EXTENDS Integers, Unset

CONSTANTS
    MaxGoals,  \* bound on the goals of a side
    Confirm    \* SCORE_DROP_CONFIRM_MS

ASSUME LiveScoreAssumption ==
    /\ MaxGoals \in Nat
    /\ Confirm \in Nat
    /\ None \notin Nat

Goals == 0..MaxGoals
PendingDrop == [value : Goals, since : Nat]

-----------------------------------------------------------------------------
\* Faulty variants, for testing the properties.

\* the pending drop keeps its first timestamp when the reported value changes
AppliesWhateverValue(drops, reported, cur, isFinal, t) ==
    /\ reported # None
    /\ reported # cur
    /\ \/ isFinal
       \/ reported > cur
       \/ \E d \in drops : t - d.since >= Confirm

-----------------------------------------------------------------------------
\* Whether the reported value is to be written over the current one.
Applies(drops, reported, cur, isFinal, t) ==
    /\ reported # None
    /\ reported # cur
    /\ \/ isFinal
       \/ reported > cur
       \/ \E d \in drops : d.value = reported /\ t - d.since >= Confirm

\* What the reconciler remembers afterwards.
PendingAfter(drops, reported, cur, isFinal, t) ==
    IF reported \in {None, cur} \/ Applies(drops, reported, cur, isFinal, t)
    THEN {}
    ELSE IF \E d \in drops : d.value = reported
         THEN drops
         ELSE {[value |-> reported, since |-> t]}
=============================================================================
