------------------------------- MODULE Views -------------------------------
(***************************************************************************)
(* What the realtime signals promise a page, whatever carries them: it     *)
(* shows a state of the match that was true when the page read it, and it  *)
(* comes to show the present one, unless the signal of a change is lost.   *)
(***************************************************************************)
CONSTANT Truth   \* the states a match can be in

VARIABLES
    truth,     \* what the page would read now
    shown,     \* what it shows
    lost       \* it was not told of a change since it last read

views == <<truth, shown, lost>>

ViewsInit == truth \in Truth /\ shown = truth /\ lost = FALSE

Change == truth' \in Truth /\ lost' \in {lost, TRUE} /\ UNCHANGED shown

Refresh == shown' = truth /\ lost' = FALSE /\ UNCHANGED truth

ViewsSpec ==
    /\ ViewsInit /\ [][Change \/ Refresh]_views
    /\ WF_views(~lost /\ Refresh)
=============================================================================
