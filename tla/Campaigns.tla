----------------------------- MODULE Campaigns -----------------------------
(***************************************************************************)
(* One notification campaign: the admin's operations on it                 *)
(* (CampaignsService) and the runs that send it (CampaignDispatchService,   *)
(* process, started by the minute cron and by kick).  The cron does not    *)
(* wait for its previous run, so runners overlap; each await of process is *)
(* a step.  Channels are one: what a user gets is a copy of the text.      *)
(***************************************************************************)
EXTENDS Common

CONSTANTS
    Runners,      \* bound on the runs of process in progress
    Batch,        \* BATCH
    Ops,          \* the admin operations that take part
    MaxText,      \* bound on the edits of the text
    MaxArmed      \* bound on the times the campaign is scheduled

ASSUME CampaignsAssumption ==
    /\ IsFiniteSet(Runners) /\ Batch \in Nat \ {0}
    /\ Ops \subseteq {"update", "dispatch", "cancel", "remove"}
    /\ MaxText \in Nat \ {0} /\ MaxArmed \in Nat

Terminal == {"SENT", "FAILED", "CANCELLED", "gone"}

VARIABLES
    camp,      \* the campaign in the database: its status ("none" before it is
               \* created, "gone" once deleted), sendAt (unset, still to come, or
               \* due), text, and the counters total and delivered
    runner,    \* each run of process: where it is and what it holds
    requests,  \* the admin requests between their check and their write
    inbox,     \* the texts each user has been sent, oldest first
    armed,     \* history: how many times the campaign was scheduled
    died       \* history: a run ended without writing the outcome

vars == <<camp, runner, requests, inbox, armed, died>>

Idle == [pc |-> "idle"]

Init ==
    /\ camp = [status |-> "none", sendAt |-> "unset", text |-> 1,
               total |-> 0, delivered |-> 0]
    /\ runner = [r \in Runners |-> Idle]
    /\ requests = {}
    /\ inbox = [u \in Users |-> <<>>]
    /\ armed = 0
    /\ died = FALSE

-----------------------------------------------------------------------------
(* Faulty variants, for testing the properties. *)

\* a run takes the campaign whatever became of it since the cron read it
ClaimsAnything == camp.status # "gone"

\* the chunks stop before a last one that is not full
NoShortBatch(left, batch) ==
    IF Cardinality(left \ batch) < Batch THEN {} ELSE left \ batch

\* the cron looks for drafts
DueDraft == camp.status = "DRAFT" /\ camp.sendAt = "due"

-----------------------------------------------------------------------------
(* The runners. *)

\* Some idle run takes the campaign up: kick, or the cron's list of due ones.
Kicked == \E r \in Runners : runner[r] = Idle
                             /\ runner' = [runner EXCEPT ![r] = [pc |-> "called"]]

Due == camp.status = "SCHEDULED" /\ camp.sendAt = "due"

\* tick
CronTick ==
    /\ Due
    /\ Kicked
    /\ UNCHANGED <<camp, requests, inbox, armed, died>>

Claimable == camp.status = "SCHEDULED"

\* process: the claim, one conditional update
Claim(r) ==
    /\ runner[r].pc = "called"
    /\ camp' = IF Claimable THEN [camp EXCEPT !.status = "SENDING"] ELSE camp
    /\ runner' = [runner EXCEPT ![r] = IF Claimable THEN [pc |-> "claimed"] ELSE Idle]
    /\ UNCHANGED <<requests, inbox, armed, died>>

\* findUnique: from here on the run sends the text it has read.
Load(r) ==
    /\ runner[r].pc = "claimed"
    /\ runner' = [runner EXCEPT ![r] = IF camp.status = "gone" THEN Idle
                                       ELSE [pc |-> "loaded", text |-> camp.text]]
    /\ UNCHANGED <<camp, requests, inbox, armed, died>>

\* An update by id: when the row is gone it throws, and so does the FAILED that
\* the catch would write, so the run ends.
Saved(r, row, next) ==
    /\ camp' = IF camp.status = "gone" THEN camp ELSE row
    /\ runner' = [runner EXCEPT ![r] = IF camp.status = "gone" THEN Idle ELSE next]

\* resolveUserIds and totalRecipients
ResolveAudience(r) ==
    /\ runner[r].pc = "loaded"
    /\ \E audience \in SUBSET Users :
         Saved(r, [camp EXCEPT !.total = Cardinality(audience)],
               [pc |-> "sending", text |-> runner[r].text, left |-> audience,
                sent |-> 0])
    /\ UNCHANGED <<requests, inbox, armed, died>>

TextSent(r) == runner[r].text
LeftAfter(left, batch) == left \ batch
Counted(batch) == Cardinality(batch)

\* One batch goes out; its deliveredCount is a later update.
SendBatch(r) ==
    /\ runner[r].pc = "sending" /\ runner[r].left # {}
    /\ \E batch \in SUBSET runner[r].left :
         /\ \/ Cardinality(batch) = Batch
            \/ Cardinality(batch) < Batch /\ batch = runner[r].left
         /\ inbox' = [u \in Users |-> IF u \in batch THEN Append(inbox[u], TextSent(r))
                                      ELSE inbox[u]]
         /\ runner' = [runner EXCEPT ![r] =
                         [pc |-> "counting", text |-> @.text, left |-> LeftAfter(@.left, batch),
                          sent |-> @.sent + Counted(batch)]]
    /\ UNCHANGED <<camp, requests, armed, died>>

CountBatch(r) ==
    /\ runner[r].pc = "counting"
    /\ Saved(r, [camp EXCEPT !.delivered = runner[r].sent],
             [runner[r] EXCEPT !.pc = "sending"])
    /\ UNCHANGED <<requests, inbox, armed, died>>

Finish(r) ==
    /\ runner[r].pc = "sending" /\ runner[r].left = {}
    /\ Saved(r, [camp EXCEPT !.status = "SENT", !.delivered = runner[r].sent], Idle)
    /\ UNCHANGED <<requests, inbox, armed, died>>

\* A call inside the try fails: the catch writes FAILED.
Fail(r) ==
    /\ Faults
    /\ runner[r].pc \in {"loaded", "sending", "counting"}
    /\ Saved(r, [camp EXCEPT !.status = "FAILED"], Idle)
    /\ UNCHANGED <<requests, inbox, armed, died>>

\* A call outside the try fails, or the FAILED of the catch throws too: the
\* campaign is left as it is.
Lost(r) ==
    /\ Faults
    /\ runner[r] # Idle
    /\ runner' = [runner EXCEPT ![r] = Idle]
    /\ died' = TRUE
    /\ UNCHANGED <<camp, requests, inbox, armed>>

\* The process dies.
Crash ==
    /\ Faults
    /\ runner' = [r \in Runners |-> Idle]
    /\ requests' = {}
    /\ died' = TRUE
    /\ UNCHANGED <<camp, inbox, armed>>

RunnerStep(r) ==
    \/ Claim(r) \/ Load(r) \/ ResolveAudience(r)
    \/ SendBatch(r) \/ CountBatch(r) \/ Finish(r)

-----------------------------------------------------------------------------
(* The admin. *)

Editable == {"DRAFT", "SCHEDULED"}

Create ==
    /\ camp.status = "none"
    /\ \E at \in {"unset", "later", "due"} :
         /\ camp' = [camp EXCEPT !.sendAt = at,
                       !.status = IF at = "unset" THEN "DRAFT" ELSE "SCHEDULED"]
         /\ armed' = IF at = "unset" THEN armed ELSE armed + 1
         /\ IF at = "due" THEN Kicked ELSE UNCHANGED runner
    /\ UNCHANGED <<requests, inbox, died>>

Admitted(op) ==
    IF op = "remove" THEN camp.status \notin {"none", "gone", "SENDING"}
    ELSE camp.status \in Editable

\* getOne and the check of the status
Checked(op) ==
    /\ op \in Ops
    /\ Cardinality(requests) < MaxInFlight
    /\ Admitted(op)
    /\ op = "update" => camp.text < MaxText
    /\ op = "dispatch" => armed < MaxArmed
    /\ requests' = requests \cup {op}
    /\ UNCHANGED <<camp, runner, inbox, armed, died>>

\* The write, and the kick of a dispatch that is due.  It throws when the
\* campaign is gone.
Written(op) ==
    /\ requests' = requests \ {op}
    /\ \/ camp.status = "gone" /\ UNCHANGED <<camp, runner, armed>>
       \/ /\ camp.status # "gone" /\ op = "dispatch"
          /\ armed' = armed + 1
          /\ \E at \in {"later", "due"} :
               /\ camp' = [camp EXCEPT !.status = "SCHEDULED", !.sendAt = at]
               /\ IF at = "due" THEN Kicked ELSE UNCHANGED runner
       \/ /\ camp.status # "gone" /\ op # "dispatch"
          /\ camp' = CASE op = "update" -> [camp EXCEPT !.text = @ + 1]
                       [] op = "cancel" -> [camp EXCEPT !.status = "CANCELLED",
                                                        !.sendAt = "unset"]
                       [] op = "remove" -> [camp EXCEPT !.status = "gone"]
          /\ UNCHANGED <<runner, armed, died>>
    /\ UNCHANGED <<inbox, died>>

\* The scheduled moment arrives.
TimePasses ==
    /\ camp.sendAt = "later"
    /\ camp' = [camp EXCEPT !.sendAt = "due"]
    /\ UNCHANGED <<runner, requests, inbox, armed, died>>

Next ==
    \/ Create \/ TimePasses \/ CronTick \/ Crash
    \/ \E r \in Runners : RunnerStep(r) \/ Fail(r) \/ Lost(r)
    \/ \E op \in Ops : Checked(op)
    \/ \E op \in requests : Written(op)

\* The cron fires every minute, time passes, and every await of a run returns.
Fairness ==
    /\ WF_vars(TimePasses)
    /\ WF_vars(CronTick)
    /\ \A r \in Runners : WF_vars(RunnerStep(r))

Spec == Init /\ [][Next]_vars
FairSpec == Spec /\ Fairness

-----------------------------------------------------------------------------
(* Properties. *)

\* Nobody gets more copies of a campaign than the times it was scheduled,
\* however the cron's runs, the kicks, the admin's requests, the failures and
\* the crashes overlap: each scheduling is claimed by one run at most.
OncePerArming == \A u \in Users : Len(inbox[u]) <= armed

\* A campaign that says SENT has reached the whole audience it was resolved to with
\* one text, however it was edited meanwhile, and its counters say how many that
\* is.  It holds of a campaign that is scheduled once.
SentMeansAll ==
    camp.status = "SENT" /\ armed = 1 =>
        LET reached == {u \in Users : inbox[u] # <<>>}
        IN /\ camp.delivered = camp.total
           /\ Cardinality(reached) = camp.total
           /\ \A u, v \in reached : inbox[u] = inbox[v]

\* A campaign that is scheduled is sent, fails with the status to show it, or is
\* cancelled or deleted by the admin; only a run that died leaves it half sent.
ScheduledIsSettled ==
    camp.status = "SCHEDULED" ~> camp.status \in Terminal \/ died

-----------------------------------------------------------------------------
(* A promise of the repository that the code does not keep. *)

\* campaign-dispatch.service.ts: the cron and an immediate kick never send the
\* campaign twice.
OneCopyEach == \A u \in Users : Len(inbox[u]) <= 1
=============================================================================
