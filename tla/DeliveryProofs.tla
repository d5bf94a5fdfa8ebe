--------------------------- MODULE DeliveryProofs ---------------------------
(***************************************************************************)
(* What is sent, and what a page is told: a campaign, for any audience,    *)
(* any size of batch, any number of overlapping runs and of admin          *)
(* requests; the one-off notifications, for any messages, newcomers and    *)
(* overlapping runs; the realtime signals, for any kickoff, writes and     *)
(* mishaps.                                                                *)
(***************************************************************************)
EXTENDS Campaigns, Deliveries, Realtime, FiniteSetTheorems, TLAPS

-----------------------------------------------------------------------------
(* A campaign.  That nobody gets more copies than the times the campaign   *)
(* was scheduled is not inductive: the copies that runs are still to send  *)
(* count, and so does a scheduling that no run has claimed.                *)

Claimed == {[pc |-> "called"], [pc |-> "claimed"], Idle}
Sending == [pc : {"sending", "counting"}, text : Nat, left : SUBSET Users, sent : Nat]
RunnerState == Claimed \cup [pc : {"loaded"}, text : Nat] \cup Sending

CampStatuses == {"none", "DRAFT", "SCHEDULED", "SENDING"} \cup Terminal

Camp == [status : CampStatuses, sendAt : {"unset", "later", "due"}, text : Nat,
         total : Nat, delivered : Nat]

CampaignsTypeOK ==
    /\ camp \in Camp
    /\ runner \in [Runners -> RunnerState]
    /\ requests \subseteq Ops
    /\ inbox \in [Users -> Seq(Nat)]
    /\ armed \in Nat

\* A run in this state may still send u a copy.
StillSends(state, u) ==
    \/ state.pc \in {"claimed", "loaded"}
    \/ state.pc \in {"sending", "counting"} /\ u \in state.left

Senders(u) == {r \in Runners : StillSends(runner[r], u)}
Unclaimed == IF camp.status = "SCHEDULED" THEN 1 ELSE 0

CopiesInv ==
    /\ CampaignsTypeOK
    /\ \A u \in Users : Len(inbox[u]) + Cardinality(Senders(u)) + Unclaimed <= armed

-----------------------------------------------------------------------------
(* Counting the runs. *)

LEMMA SendersCount ==
    ASSUME NEW u
    PROVE  IsFiniteSet(Senders(u)) /\ Cardinality(Senders(u)) \in Nat
BY CampaignsAssumption, FS_Subset, FS_CardinalityType DEF Senders

LEMMA SmallerCount ==
    ASSUME NEW S, IsFiniteSet(S), NEW T, T \subseteq S
    PROVE  /\ Cardinality(S) \in Nat /\ Cardinality(T) \in Nat
           /\ Cardinality(T) <= Cardinality(S)
BY FS_Subset, FS_CardinalityType

LEMMA FewerSenders ==
    ASSUME NEW u, Senders(u)' \subseteq Senders(u)
    PROVE  Cardinality(Senders(u)') <= Cardinality(Senders(u))
BY SendersCount, SmallerCount

LEMMA OneMoreSender ==
    ASSUME NEW u, NEW r, Senders(u)' \subseteq Senders(u) \cup {r}
    PROVE  Cardinality(Senders(u)') <= Cardinality(Senders(u)) + 1
<1>1. IsFiniteSet(Senders(u) \cup {r}) /\ Cardinality(Senders(u) \cup {r}) <= Cardinality(Senders(u)) + 1
  BY SendersCount, FS_AddElement
<1>2. Cardinality(Senders(u)') <= Cardinality(Senders(u) \cup {r})
  BY <1>1, SmallerCount
<1>3. Cardinality(Senders(u)') \in Nat /\ Cardinality(Senders(u) \cup {r}) \in Nat
  BY <1>1, SmallerCount
<1> QED
  BY <1>1, <1>2, <1>3, SendersCount

LEMMA OneLessSender ==
    ASSUME NEW u, NEW r \in Senders(u), Senders(u)' \subseteq Senders(u) \ {r}
    PROVE  Cardinality(Senders(u)') + 1 <= Cardinality(Senders(u))
<1>1. /\ IsFiniteSet(Senders(u) \ {r})
      /\ Cardinality(Senders(u) \ {r}) = Cardinality(Senders(u)) - 1
  BY SendersCount, FS_RemoveElement
<1>2. Cardinality(Senders(u)') <= Cardinality(Senders(u) \ {r}) /\ Cardinality(Senders(u)') \in Nat
  BY <1>1, SmallerCount
<1> QED
  BY <1>1, <1>2, SendersCount

-----------------------------------------------------------------------------
(* The steps. *)

\* A step after which no more runs are to send, and that schedules at most once
\* for each time it counts.
LEMMA QuietStep ==
    ASSUME CopiesInv, CampaignsTypeOK', inbox' = inbox,
           \A r \in Runners, u \in Users : StillSends(runner[r], u)' => StillSends(runner[r], u),
           \/ armed' = armed /\ Unclaimed' <= Unclaimed
           \/ armed' = armed + 1
    PROVE  CopiesInv'
<1> SUFFICES ASSUME NEW u \in Users
             PROVE  (Len(inbox[u]) + Cardinality(Senders(u)) + Unclaimed <= armed)'
  BY DEF CopiesInv
<1>1. Cardinality(Senders(u)') <= Cardinality(Senders(u))
  BY FewerSenders DEF Senders
<1>2. Cardinality(Senders(u)) \in Nat /\ Cardinality(Senders(u)') \in Nat
  <2>1. Senders(u)' \subseteq Senders(u)
    BY DEF Senders
  <2> QED
    BY <2>1, SendersCount, SmallerCount
<1>3. Len(inbox[u]) \in Nat /\ armed \in Nat /\ inbox' = inbox
  BY DEF CopiesInv, CampaignsTypeOK, Camp
<1>4. Unclaimed \in {0, 1} /\ Unclaimed' \in {0, 1}
  BY DEF Unclaimed
<1>5. Len(inbox[u]) + Cardinality(Senders(u)) + Unclaimed <= armed
  BY DEF CopiesInv
<1> QED
  BY <1>1, <1>2, <1>3, <1>4, <1>5

LEMMA CopiesInit == Init => CopiesInv
<1> SUFFICES ASSUME Init PROVE CopiesInv
  OBVIOUS
<1>1. CampaignsTypeOK
  <2>1. /\ camp \in Camp
        /\ runner \in [Runners -> RunnerState]
    BY DEF Init, RunnerState, Claimed, CampStatuses, Camp
  <2>2. inbox \in [Users -> Seq(Nat)] /\ requests \subseteq Ops /\ armed \in Nat
    BY DEF Init
  <2> QED
    BY <2>1, <2>2 DEF CampaignsTypeOK, Camp
<1>2. ASSUME NEW u \in Users PROVE Len(inbox[u]) = 0 /\ Cardinality(Senders(u)) = 0
  <2>1. Senders(u) = {}
    BY DEF Init, Senders, StillSends, Idle
  <2> QED
    BY <2>1, FS_EmptySet DEF Init
<1>3. Unclaimed = 0 /\ armed = 0
  BY DEF Init, Unclaimed
<1> QED
  BY <1>1, <1>2, <1>3 DEF CopiesInv

LEMMA KickedRunner ==
    ASSUME CampaignsTypeOK, Kicked
    PROVE  /\ runner' \in [Runners -> RunnerState]
           /\ \A r \in Runners, u \in Users : StillSends(runner[r], u)' => StillSends(runner[r], u)
<1>1. PICK r \in Runners : runner' = [runner EXCEPT ![r] = [pc |-> "called"]]
  BY DEF Kicked
<1>2. [pc |-> "called"] \in RunnerState /\ \A u \in Users : ~StillSends([pc |-> "called"], u)
  BY DEF RunnerState, Claimed, StillSends
<1> QED
  BY <1>1, <1>2 DEF CampaignsTypeOK, StillSends

\* A run that ends, or goes on to send what it was to send.
LEMMA RunnerMoves ==
    ASSUME CampaignsTypeOK, NEW r \in Runners, NEW state \in RunnerState,
           \A u \in Users : StillSends(state, u) => StillSends(runner[r], u),
           runner' = [runner EXCEPT ![r] = state]
    PROVE  /\ runner' \in [Runners -> RunnerState]
           /\ \A o \in Runners, u \in Users : StillSends(runner[o], u)' => StillSends(runner[o], u)
BY DEF CampaignsTypeOK, StillSends

LEMMA IdleSendsNothing ==
    Idle \in RunnerState /\ \A u \in Users : ~StillSends(Idle, u)
BY DEF Idle, RunnerState, Claimed, StillSends

\* What a run is, by where it is.
LEMMA RunnerShapes ==
    ASSUME CampaignsTypeOK, NEW r \in Runners
    PROVE  /\ runner[r] \in RunnerState
           /\ runner[r].pc = "loaded" => runner[r] \in [pc : {"loaded"}, text : Nat]
           /\ runner[r].pc \in {"sending", "counting"} => runner[r] \in Sending
BY DEF CampaignsTypeOK, RunnerState, Claimed, Sending, Idle

LEMMA SavedStep ==
    ASSUME CopiesInv, NEW r \in Runners, NEW row, NEW next \in RunnerState, Saved(r, row, next),
           row \in Camp,
           row.status \in {camp.status, "SENT", "FAILED"},
           \A u \in Users : StillSends(next, u) => StillSends(runner[r], u),
           UNCHANGED <<requests, inbox, armed, died>>
    PROVE  CopiesInv'
<1>1. /\ runner' \in [Runners -> RunnerState]
      /\ \A o \in Runners, u \in Users : StillSends(runner[o], u)' => StillSends(runner[o], u)
  <2> DEFINE state == IF camp.status = "gone" THEN Idle ELSE next
  <2>1. state \in RunnerState /\ \A u \in Users : StillSends(state, u) => StillSends(runner[r], u)
    BY IdleSendsNothing
  <2>2. runner' = [runner EXCEPT ![r] = state]
    BY DEF Saved
  <2> HIDE DEF state
  <2> QED
    BY <2>1, <2>2, RunnerMoves DEF CopiesInv
<1>2. camp' \in Camp
      /\ Unclaimed' <= Unclaimed
  BY DEF Saved, CopiesInv, CampaignsTypeOK, Unclaimed, Camp
<1>3. CampaignsTypeOK'
  BY <1>1, <1>2 DEF CopiesInv, CampaignsTypeOK, Camp
<1> QED
  BY <1>1, <1>2, <1>3, QuietStep

\* The claim is the only step that adds a run that will send, and it takes the
\* scheduling it claims.
LEMMA ClaimStep ==
    ASSUME CopiesInv, NEW r \in Runners, Claim(r)
    PROVE  CopiesInv'
<1>0. CampaignsTypeOK
  BY DEF CopiesInv
<1>1. CASE ~Claimable
  <2>1. camp' = camp /\ runner' = [runner EXCEPT ![r] = Idle] /\ UNCHANGED <<requests, inbox, armed>>
    BY <1>1 DEF Claim
  <2>2. /\ runner' \in [Runners -> RunnerState]
        /\ \A o \in Runners, u \in Users : StillSends(runner[o], u)' => StillSends(runner[o], u)
    BY <1>0, <2>1, RunnerMoves, IdleSendsNothing
  <2>3. CampaignsTypeOK' /\ Unclaimed' <= Unclaimed
    BY <1>0, <2>1, <2>2 DEF CampaignsTypeOK, Unclaimed, Camp
  <2> QED
    BY <2>1, <2>2, <2>3, QuietStep
<1>2. CASE Claimable
  <2>1. /\ camp' = [camp EXCEPT !.status = "SENDING"]
        /\ runner' = [runner EXCEPT ![r] = [pc |-> "claimed"]]
        /\ UNCHANGED <<requests, inbox, armed>>
    BY <1>2 DEF Claim
  <2>2. CampaignsTypeOK'
    BY <1>0, <2>1 DEF CampaignsTypeOK, RunnerState, Claimed, CampStatuses, Camp
  <2>3. Unclaimed = 1 /\ Unclaimed' = 0
    BY <1>0, <1>2, <2>1 DEF Claimable, Unclaimed, CampaignsTypeOK, Camp
  <2>4. ASSUME NEW u \in Users
        PROVE  Len(inbox[u])' + Cardinality(Senders(u))' + Unclaimed' <= armed'
    <3>1. Senders(u)' \subseteq Senders(u) \cup {r}
      BY <1>0, <2>1 DEF Senders, CampaignsTypeOK, Camp
    <3>2. Cardinality(Senders(u)') <= Cardinality(Senders(u)) + 1
      BY <3>1, OneMoreSender
    <3>3. Cardinality(Senders(u)) \in Nat /\ Cardinality(Senders(u)') \in Nat
      BY <3>1, SendersCount, SmallerCount, FS_AddElement
    <3>4. Len(inbox[u]) \in Nat /\ armed \in Nat /\ inbox' = inbox /\ armed' = armed
      BY <1>0, <2>1 DEF CampaignsTypeOK, Camp
    <3>5. Len(inbox[u]) + Cardinality(Senders(u)) + 1 <= armed
      BY <2>3 DEF CopiesInv
    <3> QED
      BY <2>3, <3>2, <3>3, <3>4, <3>5
  <2> QED
    BY <2>2, <2>4 DEF CopiesInv
<1> QED
  BY <1>1, <1>2

\* Each user of a batch gets a copy and is left to get none.
LEMMA BatchStep ==
    ASSUME CopiesInv, NEW r \in Runners, SendBatch(r)
    PROVE  CopiesInv'
<1>0. CampaignsTypeOK /\ runner[r] \in Sending /\ runner[r].pc = "sending"
  BY RunnerShapes DEF CopiesInv, SendBatch
<1>1. PICK batch \in SUBSET runner[r].left :
        /\ inbox' = [u \in Users |-> IF u \in batch THEN Append(inbox[u], TextSent(r)) ELSE inbox[u]]
        /\ runner' = [runner EXCEPT ![r] =
                        [pc |-> "counting", text |-> @.text, left |-> LeftAfter(@.left, batch),
                         sent |-> @.sent + Counted(batch)]]
  BY DEF SendBatch
<1> DEFINE state == [pc |-> "counting", text |-> runner[r].text, left |-> runner[r].left \ batch,
                     sent |-> runner[r].sent + Cardinality(batch)]
<1>2. state \in Sending
  <2>1. batch \subseteq Users
    BY <1>0 DEF Sending
  <2>2. Cardinality(batch) \in Nat
    BY <2>1, CommonAssumption, SmallerCount
  <2> QED
    BY <1>0, <2>2 DEF Sending
<1>3. runner' = [runner EXCEPT ![r] = state]
  BY <1>1 DEF LeftAfter, Counted
<1>4. UNCHANGED <<camp, requests, armed>>
  BY DEF SendBatch
<1>5. /\ \A u \in Users : inbox'[u] \in Seq(Nat)
      /\ \A u \in batch : Len(inbox'[u]) = Len(inbox[u]) + 1
      /\ \A u \in Users \ batch : inbox'[u] = inbox[u]
  <2>1. TextSent(r) \in Nat /\ batch \subseteq Users
    BY <1>0 DEF TextSent, Sending
  <2> QED
    BY <1>0, <1>1, <2>1 DEF CampaignsTypeOK, Camp
<1>6. CampaignsTypeOK'
  <2>1. inbox' \in [Users -> Seq(Nat)]
    BY <1>1, <1>5
  <2>2. runner' \in [Runners -> RunnerState]
    BY <1>0, <1>2, <1>3 DEF CampaignsTypeOK, RunnerState
  <2> QED
    BY <1>0, <1>4, <2>1, <2>2 DEF CampaignsTypeOK, Camp
<1>7. ASSUME NEW u \in Users
      PROVE  Len(inbox[u])' + Cardinality(Senders(u))' + Unclaimed' <= armed'
  <2>1. /\ Len(inbox[u]) \in Nat /\ armed \in Nat /\ armed' = armed /\ Unclaimed' = Unclaimed
        /\ Unclaimed \in {0, 1} /\ Cardinality(Senders(u)) \in Nat
        /\ Len(inbox[u]) + Cardinality(Senders(u)) + Unclaimed <= armed
    BY <1>0, <1>4, SendersCount DEF CopiesInv, CampaignsTypeOK, Unclaimed, Camp
  <2>2. \A o \in Runners \ {r} : runner'[o] = runner[o]
    BY <1>3
  <2>3. runner'[r].pc = "counting" /\ runner'[r].left = runner[r].left \ batch
    BY <1>0, <1>3 DEF CampaignsTypeOK, Camp
  <2>4. Senders(u)' \subseteq Senders(u)
    BY <1>0, <2>2, <2>3 DEF Senders, StillSends
  <2>5. Cardinality(Senders(u)') \in Nat
    BY <2>4, SendersCount, SmallerCount
  <2>6. CASE u \in batch
    <3>1. r \in Senders(u) /\ Senders(u)' \subseteq Senders(u) \ {r}
      BY <1>0, <1>1, <2>3, <2>4, <2>6 DEF Senders, StillSends
    <3>2. Cardinality(Senders(u)') + 1 <= Cardinality(Senders(u))
      BY <3>1, OneLessSender
    <3> QED
      BY <1>5, <2>1, <2>5, <2>6, <3>2
  <2>7. CASE u \notin batch
    BY <1>5, <2>1, <2>4, <2>5, <2>7, FewerSenders
  <2> QED
    BY <2>6, <2>7
<1> QED
  BY <1>6, <1>7 DEF CopiesInv

LEMMA RunStep ==
    ASSUME CopiesInv, NEW r \in Runners, RunnerStep(r) \/ Fail(r) \/ Lost(r)
    PROVE  CopiesInv'
<1>0. CampaignsTypeOK
  BY DEF CopiesInv
<1>1. CASE Load(r)
  <2> DEFINE state == IF camp.status = "gone" THEN Idle ELSE [pc |-> "loaded", text |-> camp.text]
  <2>1. state \in RunnerState /\ \A u \in Users : StillSends(state, u) => StillSends(runner[r], u)
    <3>1. camp.text \in Nat /\ runner[r].pc = "claimed"
      BY <1>0, <1>1 DEF Load, CampaignsTypeOK, Camp
    <3>2. [pc |-> "loaded", text |-> camp.text] \in RunnerState
      BY <3>1 DEF RunnerState
    <3>3. \A u \in Users : StillSends(runner[r], u)
      BY <3>1 DEF StillSends
    <3> QED
      BY <3>2, <3>3, IdleSendsNothing
  <2>2. runner' = [runner EXCEPT ![r] = state] /\ UNCHANGED <<camp, requests, inbox, armed>>
    BY <1>1 DEF Load
  <2> HIDE DEF state
  <2>3. /\ runner' \in [Runners -> RunnerState]
        /\ \A o \in Runners, u \in Users : StillSends(runner[o], u)' => StillSends(runner[o], u)
    BY <1>0, <2>1, <2>2, RunnerMoves
  <2>4. CampaignsTypeOK' /\ Unclaimed' <= Unclaimed
    BY <1>0, <2>2, <2>3 DEF CampaignsTypeOK, Unclaimed, Camp
  <2> QED
    BY <2>2, <2>3, <2>4, QuietStep
<1>2. CASE ResolveAudience(r)
  <2>1. PICK audience \in SUBSET Users :
          Saved(r, [camp EXCEPT !.total = Cardinality(audience)],
                [pc |-> "sending", text |-> runner[r].text, left |-> audience, sent |-> 0])
    BY <1>2 DEF ResolveAudience
  <2>2. Cardinality(audience) \in Nat
    BY CommonAssumption, SmallerCount
  <2>3. runner[r].pc = "loaded" /\ runner[r].text \in Nat
    BY <1>0, <1>2, RunnerShapes DEF ResolveAudience
  <2> DEFINE row == [camp EXCEPT !.total = Cardinality(audience)]
             next == [pc |-> "sending", text |-> runner[r].text, left |-> audience, sent |-> 0]
  <2>4. /\ row \in Camp
        /\ row.status = camp.status
    BY <1>0, <2>2 DEF CampaignsTypeOK, Camp
  <2>5. next \in RunnerState /\ \A u \in Users : StillSends(next, u) => StillSends(runner[r], u)
    BY <2>3 DEF RunnerState, Sending, StillSends
  <2>6. UNCHANGED <<requests, inbox, armed, died>>
    BY <1>2 DEF ResolveAudience
  <2> HIDE DEF row, next
  <2> QED
    BY <2>1, <2>4, <2>5, <2>6, SavedStep DEF row, next
<1>3. CASE CountBatch(r)
  <2> DEFINE row == [camp EXCEPT !.delivered = runner[r].sent]
             next == [runner[r] EXCEPT !.pc = "sending"]
  <2>1. runner[r] \in Sending /\ runner[r].pc = "counting"
    BY <1>0, <1>3, RunnerShapes DEF CountBatch
  <2>2. /\ row \in Camp
        /\ row.status = camp.status
    BY <1>0, <2>1 DEF CampaignsTypeOK, Sending, Camp
  <2>3. next \in RunnerState /\ \A u \in Users : StillSends(next, u) => StillSends(runner[r], u)
    BY <2>1 DEF RunnerState, Sending, StillSends
  <2>4. Saved(r, row, next) /\ UNCHANGED <<requests, inbox, armed, died>>
    BY <1>3 DEF CountBatch
  <2> HIDE DEF row, next
  <2> QED
    BY <2>2, <2>3, <2>4, SavedStep
<1>4. CASE Finish(r)
  <2> DEFINE row == [camp EXCEPT !.status = "SENT", !.delivered = runner[r].sent]
  <2>1. runner[r] \in Sending
    BY <1>0, <1>4, RunnerShapes DEF Finish
  <2>2. /\ row \in Camp
        /\ row.status = "SENT"
    BY <1>0, <2>1 DEF CampaignsTypeOK, Sending, CampStatuses, Terminal, Camp
  <2>3. Saved(r, row, Idle) /\ UNCHANGED <<requests, inbox, armed, died>>
    BY <1>4 DEF Finish
  <2> HIDE DEF row
  <2> QED
    BY <2>2, <2>3, SavedStep, IdleSendsNothing
<1>5. CASE Fail(r)
  <2> DEFINE row == [camp EXCEPT !.status = "FAILED"]
  <2>1. /\ row \in Camp
        /\ row.status = "FAILED"
    BY <1>0 DEF CampaignsTypeOK, CampStatuses, Terminal, Camp
  <2>2. Saved(r, row, Idle) /\ UNCHANGED <<requests, inbox, armed, died>>
    BY <1>5 DEF Fail
  <2> HIDE DEF row
  <2> QED
    BY <2>1, <2>2, SavedStep, IdleSendsNothing
<1>6. CASE Lost(r)
  <2>1. runner' = [runner EXCEPT ![r] = Idle] /\ UNCHANGED <<camp, requests, inbox, armed>>
    BY <1>6 DEF Lost
  <2>2. /\ runner' \in [Runners -> RunnerState]
        /\ \A o \in Runners, u \in Users : StillSends(runner[o], u)' => StillSends(runner[o], u)
    BY <1>0, <2>1, RunnerMoves, IdleSendsNothing
  <2>3. CampaignsTypeOK' /\ Unclaimed' <= Unclaimed
    BY <1>0, <2>1, <2>2 DEF CampaignsTypeOK, Unclaimed, Camp
  <2> QED
    BY <2>1, <2>2, <2>3, QuietStep
<1> QED
  BY <1>1, <1>2, <1>3, <1>4, <1>5, <1>6, ClaimStep, BatchStep DEF RunnerStep

\* The cron, the admin and the clock: a write that schedules counts.
LEMMA AdminStep ==
    ASSUME CopiesInv,
           \/ Create \/ TimePasses \/ CronTick \/ Crash
           \/ \E op \in Ops : Checked(op)
           \/ \E op \in requests : Written(op)
    PROVE  CopiesInv'
<1>0. CampaignsTypeOK
  BY DEF CopiesInv
<1> DEFINE NoMore == /\ runner' \in [Runners -> RunnerState]
                     /\ \A r \in Runners, u \in Users :
                          StillSends(runner[r], u)' => StillSends(runner[r], u)
<1>1. UNCHANGED runner \/ Kicked => NoMore
  BY <1>0, KickedRunner DEF CampaignsTypeOK, StillSends
<1>2. Unclaimed \in {0, 1} /\ Unclaimed' \in {0, 1}
  BY DEF Unclaimed
<1>3. CASE Create
  <2>1. /\ UNCHANGED <<requests, inbox>> /\ (UNCHANGED runner \/ Kicked)
        /\ camp.status = "none"
    BY <1>3 DEF Create
  <2>2. PICK at \in {"unset", "later", "due"} :
          /\ camp' = [camp EXCEPT !.sendAt = at,
                        !.status = IF at = "unset" THEN "DRAFT" ELSE "SCHEDULED"]
          /\ armed' = IF at = "unset" THEN armed ELSE armed + 1
    BY <1>3 DEF Create
  <2>3. CampaignsTypeOK'
    <3>1. camp' \in Camp
      BY <1>0, <2>2 DEF CampaignsTypeOK, CampStatuses, Camp
    <3>2. armed' \in Nat
      BY <1>0, <2>2 DEF CampaignsTypeOK
    <3> QED
      BY <1>0, <1>1, <2>1, <3>1, <3>2 DEF CampaignsTypeOK
  <2>4. (armed' = armed /\ Unclaimed' <= Unclaimed) \/ armed' = armed + 1
    BY <1>0, <1>2, <2>2 DEF CampaignsTypeOK, Unclaimed, Camp
  <2> QED
    BY <1>1, <2>1, <2>3, <2>4, QuietStep
<1>4. CASE TimePasses
  <2>1. /\ UNCHANGED <<runner, requests, inbox, armed>>
        /\ camp' = [camp EXCEPT !.sendAt = "due"]
    BY <1>4 DEF TimePasses
  <2>2. CampaignsTypeOK' /\ Unclaimed' = Unclaimed
    BY <1>0, <2>1 DEF CampaignsTypeOK, Unclaimed, Camp
  <2> QED
    BY <1>1, <1>2, <2>1, <2>2, QuietStep
<1>5. CASE CronTick
  <2>1. UNCHANGED <<camp, requests, inbox, armed>> /\ Kicked
    BY <1>5 DEF CronTick
  <2>2. CampaignsTypeOK' /\ Unclaimed' = Unclaimed
    BY <1>0, <1>1, <2>1 DEF CampaignsTypeOK, Unclaimed, Camp
  <2> QED
    BY <1>1, <1>2, <2>1, <2>2, QuietStep
<1>6. CASE Crash
  <2>1. /\ runner' = [r \in Runners |-> Idle] /\ requests' = {}
        /\ UNCHANGED <<camp, inbox, armed>>
    BY <1>6 DEF Crash
  <2>2. CampaignsTypeOK' /\ NoMore /\ Unclaimed' = Unclaimed
    BY <1>0, <2>1, IdleSendsNothing DEF CampaignsTypeOK, Unclaimed, Camp
  <2> QED
    BY <1>2, <2>1, <2>2, QuietStep
<1>7. ASSUME NEW op \in Ops, Checked(op) PROVE CopiesInv'
  <2>1. UNCHANGED <<camp, runner, inbox, armed>> /\ requests' = requests \cup {op}
    BY <1>7 DEF Checked
  <2>2. CampaignsTypeOK' /\ Unclaimed' = Unclaimed
    BY <1>0, <2>1 DEF CampaignsTypeOK, Unclaimed, Camp
  <2> QED
    BY <1>1, <1>2, <2>1, <2>2, QuietStep
<1>8. ASSUME NEW op \in requests, Written(op) PROVE CopiesInv'
  <2>1. requests' \subseteq requests /\ inbox' = inbox
    BY <1>8 DEF Written
  <2>2. CASE camp.status = "gone" /\ UNCHANGED <<camp, runner, armed>>
    <3>1. CampaignsTypeOK' /\ Unclaimed' = Unclaimed
      BY <1>0, <2>1, <2>2 DEF CampaignsTypeOK, Unclaimed, Camp
    <3> QED
      BY <1>1, <1>2, <2>1, <2>2, <3>1, QuietStep
  <2>3. CASE /\ armed' = armed + 1
             /\ \E at \in {"later", "due"} :
                  /\ camp' = [camp EXCEPT !.status = "SCHEDULED", !.sendAt = at]
                  /\ IF at = "due" THEN Kicked ELSE UNCHANGED runner
    <3>1. camp' \in Camp
      BY <1>0, <2>3 DEF CampaignsTypeOK, CampStatuses, Camp
    <3>2. runner' \in [Runners -> RunnerState]
      BY <1>1, <2>3
    <3>3. CampaignsTypeOK'
      BY <1>0, <2>1, <2>3, <3>1, <3>2 DEF CampaignsTypeOK
    <3> QED
      BY <1>1, <2>1, <2>3, <3>3, QuietStep
  <2>4. CASE /\ op # "dispatch"
             /\ camp' = CASE op = "update" -> [camp EXCEPT !.text = @ + 1]
                          [] op = "cancel" -> [camp EXCEPT !.status = "CANCELLED",
                                                           !.sendAt = "unset"]
                          [] op = "remove" -> [camp EXCEPT !.status = "gone"]
             /\ UNCHANGED <<runner, armed, died>>
    <3>1. op \in {"update", "cancel", "remove"}
      BY <1>0, <2>4, CampaignsAssumption DEF CampaignsTypeOK, Camp
    <3>2. /\ camp' \in Camp
          /\ camp'.status # "SCHEDULED" \/ camp'.status = camp.status
      <4>1. CASE op = "update"
        <5>1. camp' = [camp EXCEPT !.text = camp.text + 1]
          BY <2>4, <4>1
        <5> QED
          BY <1>0, <5>1 DEF CampaignsTypeOK, Camp
      <4>2. CASE op = "cancel"
        <5>1. camp' = [camp EXCEPT !.status = "CANCELLED", !.sendAt = "unset"]
          BY <2>4, <4>2
        <5> QED
          BY <1>0, <5>1 DEF CampaignsTypeOK, CampStatuses, Terminal, Camp
      <4>3. CASE op = "remove"
        <5>1. camp' = [camp EXCEPT !.status = "gone"]
          BY <2>4, <4>3
        <5> QED
          BY <1>0, <5>1 DEF CampaignsTypeOK, CampStatuses, Terminal, Camp
      <4> QED
        BY <3>1, <4>1, <4>2, <4>3
    <3>3. CampaignsTypeOK' /\ Unclaimed' <= Unclaimed
      <4>1. UNCHANGED <<runner, armed>>
        BY <2>4
      <4>2. CampaignsTypeOK'
        BY <1>0, <2>1, <3>2, <4>1 DEF CampaignsTypeOK
      <4>3. Unclaimed' <= Unclaimed
        BY <3>2 DEF Unclaimed
      <4> QED
        BY <4>2, <4>3
    <3> QED
      BY <1>1, <2>1, <2>4, <3>3, QuietStep
  <2> QED
    BY <1>8, <2>2, <2>3, <2>4 DEF Written
<1> QED
  BY <1>3, <1>4, <1>5, <1>6, <1>7, <1>8

LEMMA CopiesStep == CopiesInv /\ [Next]_vars => CopiesInv'
<1> SUFFICES ASSUME CopiesInv, [Next]_vars PROVE CopiesInv'
  OBVIOUS
<1>1. CASE UNCHANGED vars
  BY <1>1 DEF vars, CopiesInv, CampaignsTypeOK, Senders, StillSends, Unclaimed
<1> QED
  BY <1>1, RunStep, AdminStep DEF Next

\* Nobody gets more copies of a campaign than the times it was scheduled, however
\* many runs of CampaignDispatchService overlap and die: each scheduling is
\* claimed by one run, and a run sends each user of its audience one copy.
THEOREM CopiesAreBounded == Spec => []OncePerArming
<1>1. CopiesInv => OncePerArming
  <2> SUFFICES ASSUME CopiesInv, NEW u \in Users PROVE Len(inbox[u]) <= armed
    BY DEF OncePerArming
  <2>1. /\ Len(inbox[u]) \in Nat /\ armed \in Nat /\ Unclaimed \in {0, 1}
        /\ Cardinality(Senders(u)) \in Nat
        /\ Len(inbox[u]) + Cardinality(Senders(u)) + Unclaimed <= armed
    BY SendersCount DEF CopiesInv, CampaignsTypeOK, Unclaimed, Camp
  <2> QED
    BY <2>1
<1> QED
  BY <1>1, CopiesInit, CopiesStep, PTL DEF Spec

-----------------------------------------------------------------------------
(* A campaign scheduled once.  One run at most holds it, and what it has   *)
(* sent, with what it is yet to send, is the audience it resolved.         *)

Active(r) == runner[r].pc \in {"claimed", "loaded", "sending", "counting"}

Reached == {u \in Users : inbox[u] # <<>>}

\* Those reached have the run's text and are as many as it says; those left are
\* the others of the audience.
SendsRest(r) ==
    /\ \A u \in Reached : inbox[u] = <<runner[r].text>> /\ u \notin runner[r].left
    /\ Cardinality(Reached) = runner[r].sent
    /\ camp.total = runner[r].sent + Cardinality(runner[r].left)

OneRun ==
    /\ \A q, r \in Runners : Active(q) /\ Active(r) => q = r
    /\ \A r \in Runners : Active(r) => armed = 1 /\ camp.status \in {"SENDING", "CANCELLED", "gone"}
    /\ \A r \in Runners :
         /\ runner[r].pc \in {"claimed", "loaded"} => Reached = {}
         /\ runner[r].pc \in {"sending", "counting"} => SendsRest(r)
    /\ armed = 0 => camp.status # "SCHEDULED"
    /\ armed = 0 \/ camp.status = "SCHEDULED" => Reached = {}
    /\ SentMeansAll

SentInv == armed <= 1 => OneRun

LEMMA SentInit == Init => SentInv
<1> SUFFICES ASSUME Init PROVE OneRun
  BY DEF SentInv
<1>1. Reached = {}
  BY DEF Init, Reached
<1>2. \A r \in Runners : runner[r].pc = "idle"
  BY DEF Init, Idle
<1> QED
  BY <1>1, <1>2 DEF Init, OneRun, Active, SentMeansAll

\* SentMeansAll, in terms of those reached.
LEMMA SentIsReached ==
    SentMeansAll <=>
        (camp.status = "SENT" /\ armed = 1 =>
            /\ camp.delivered = camp.total /\ Cardinality(Reached) = camp.total
            /\ \A u, v \in Reached : inbox[u] = inbox[v])
BY DEF SentMeansAll, Reached

\* A step that sends nothing, lets runs only stay as they are or end, and gives no
\* status that a run in progress has not.
LEMMA CalmStep ==
    ASSUME OneRun, UNCHANGED <<inbox, armed>>,
           camp'.total = camp.total, camp'.delivered = camp.delivered,
           \A r \in Runners : Active(r)' => runner'[r] = runner[r],
           \/ camp'.status = camp.status
           \/ camp'.status \in {"CANCELLED", "gone"}
           \/ camp'.status \notin {"SENT", "SCHEDULED"} /\ \A r \in Runners : ~Active(r)'
    PROVE  OneRun'
<1>1. Reached' = Reached
  BY DEF Reached
<1>2. \A r \in Runners : Active(r)' => Active(r)
  BY DEF Active
<1>3. \A r \in Runners : /\ runner'[r].pc \in {"claimed", "loaded"} => Reached' = {}
                         /\ runner'[r].pc \in {"sending", "counting"} => SendsRest(r)'
  BY <1>1 DEF OneRun, SendsRest, Active
<1>4. SentMeansAll'
  BY <1>1, SentIsReached DEF SentMeansAll, OneRun
<1> QED
  BY <1>1, <1>2, <1>3, <1>4 DEF OneRun

\* A step that schedules: what came before has sent nothing.
LEMMA ArmedStep ==
    ASSUME CampaignsTypeOK, SentInv, inbox' = inbox, armed' = armed + 1,
           \A r \in Runners : Active(r)' => runner'[r] = runner[r],
           camp'.status = "SCHEDULED"
    PROVE  SentInv'
<1> SUFFICES ASSUME armed' <= 1 PROVE OneRun'
  BY DEF SentInv
<1>1. armed = 0 /\ armed' = 1 /\ OneRun
  BY DEF CampaignsTypeOK, SentInv
<1>2. Reached' = {}
  BY <1>1 DEF OneRun, Reached
<1>3. \A r \in Runners : ~Active(r)'
  BY <1>1 DEF OneRun, Active
<1> QED
  BY <1>1, <1>2, <1>3 DEF OneRun, SentMeansAll, Active

\* A run that takes a step of its own is the only one.
LEMMA OnlyActive ==
    ASSUME CampaignsTypeOK, OneRun, NEW r \in Runners, Active(r), NEW state,
           runner' = [runner EXCEPT ![r] = state]
    PROVE  /\ runner'[r] = state
           /\ \A q \in Runners \ {r} : runner'[q] = runner[q] /\ ~Active(q) /\ ~Active(q)'
BY DEF CampaignsTypeOK, OneRun, Active

LEMMA KickedIsCalm ==
    ASSUME CampaignsTypeOK, Kicked
    PROVE  \A r \in Runners : Active(r)' => runner'[r] = runner[r]
BY DEF Kicked, CampaignsTypeOK, Active

\* A run that ends without having sent everybody.
LEMMA RunEnds ==
    ASSUME CampaignsTypeOK, OneRun, NEW r \in Runners, UNCHANGED <<inbox, armed>>,
           runner' = [runner EXCEPT ![r] = Idle],
           camp' = camp \/ (Active(r) /\ camp' = [camp EXCEPT !.status = "FAILED"])
    PROVE  OneRun'
<1>1. \A q \in Runners : Active(q)' => runner'[q] = runner[q]
  BY DEF CampaignsTypeOK, Active, Idle
<1>2. CASE camp' = camp
  BY <1>1, <1>2, CalmStep
<1>3. CASE Active(r) /\ camp' = [camp EXCEPT !.status = "FAILED"]
  <2>1. runner'[r] = Idle /\ \A q \in Runners \ {r} : ~Active(q)'
    BY <1>3, OnlyActive
  <2>2. \A q \in Runners : ~Active(q)'
    BY <2>1 DEF Active, Idle
  <2>3. /\ camp'.total = camp.total /\ camp'.delivered = camp.delivered
        /\ camp'.status = "FAILED"
    BY <1>3 DEF CampaignsTypeOK, Camp
  <2> QED
    BY <1>1, <2>2, <2>3, CalmStep
<1> QED
  BY <1>2, <1>3

LEMMA ClaimIsOne ==
    ASSUME CampaignsTypeOK, OneRun, armed <= 1, NEW r \in Runners, Claim(r)
    PROVE  OneRun'
<1>1. UNCHANGED <<inbox, armed>>
  BY DEF Claim
<1>2. CASE ~Claimable
  BY <1>1, <1>2, RunEnds DEF Claim
<1>3. CASE Claimable
  <2>1. /\ camp.status = "SCHEDULED" /\ camp' = [camp EXCEPT !.status = "SENDING"]
        /\ runner' = [runner EXCEPT ![r] = [pc |-> "claimed"]]
    BY <1>3 DEF Claim, Claimable
  <2>2. Reached = {} /\ armed = 1 /\ \A q \in Runners : ~Active(q)
    BY <2>1 DEF OneRun, CampaignsTypeOK
  <2>3. runner'[r].pc = "claimed" /\ \A q \in Runners \ {r} : ~Active(q)'
    BY <2>1, <2>2 DEF Active, CampaignsTypeOK
  <2>4. camp'.status = "SENDING" /\ Reached' = {}
    BY <1>1, <2>1, <2>2 DEF CampaignsTypeOK, Camp, Reached
  <2> QED
    BY <1>1, <2>2, <2>3, <2>4 DEF OneRun, SentMeansAll, Active
<1> QED
  BY <1>2, <1>3

\* The run in progress goes on, and the row keeps its status.
LEMMA RunGoesOn ==
    ASSUME CampaignsTypeOK, OneRun, NEW r \in Runners, Active(r), Active(r)',
           NEW state, runner' = [runner EXCEPT ![r] = state],
           armed' = armed, camp'.status = camp.status,
           runner'[r].pc \in {"claimed", "loaded"} => Reached' = {},
           runner'[r].pc \in {"sending", "counting"} => SendsRest(r)'
    PROVE  OneRun'
<1>1. armed = 1 /\ camp.status \in {"SENDING", "CANCELLED", "gone"}
  BY DEF OneRun
<1>2. \A q \in Runners \ {r} : ~Active(q)'
  BY OnlyActive
<1> QED
  BY <1>1, <1>2 DEF OneRun, SentMeansAll, Active

LEMMA LoadIsOne ==
    ASSUME CampaignsTypeOK, OneRun, NEW r \in Runners, Load(r)
    PROVE  OneRun'
<1>1. UNCHANGED <<camp, inbox, armed>> /\ runner[r].pc = "claimed"
  BY DEF Load
<1>2. CASE camp.status = "gone"
  BY <1>1, <1>2, RunEnds DEF Load
<1>3. CASE camp.status # "gone"
  <2>1. runner' = [runner EXCEPT ![r] = [pc |-> "loaded", text |-> camp.text]]
    BY <1>3 DEF Load
  <2>2. runner'[r].pc = "loaded"
    BY <2>1 DEF CampaignsTypeOK
  <2> QED
    BY <1>1, <2>1, <2>2, RunGoesOn DEF Active, OneRun, Reached
<1> QED
  BY <1>2, <1>3

LEMMA ResolveIsOne ==
    ASSUME CampaignsTypeOK, OneRun, NEW r \in Runners, ResolveAudience(r)
    PROVE  OneRun'
<1>1. UNCHANGED <<inbox, armed>> /\ runner[r].pc = "loaded" /\ Reached = {}
  BY DEF ResolveAudience, OneRun
<1>2. PICK audience \in SUBSET Users :
        Saved(r, [camp EXCEPT !.total = Cardinality(audience)],
              [pc |-> "sending", text |-> runner[r].text, left |-> audience, sent |-> 0])
  BY DEF ResolveAudience
<1>3. CASE camp.status = "gone"
  BY <1>1, <1>2, <1>3, RunEnds DEF Saved
<1>4. CASE camp.status # "gone"
  <2>1. /\ camp' = [camp EXCEPT !.total = Cardinality(audience)]
        /\ runner' = [runner EXCEPT ![r] =
             [pc |-> "sending", text |-> runner[r].text, left |-> audience, sent |-> 0]]
    BY <1>2, <1>4 DEF Saved
  <2>2. /\ runner'[r] = [pc |-> "sending", text |-> runner[r].text, left |-> audience, sent |-> 0]
        /\ camp'.total = Cardinality(audience) /\ camp'.status = camp.status
    BY <2>1 DEF CampaignsTypeOK, Camp
  <2>3. Reached' = {} /\ Cardinality(Reached') = 0 /\ Cardinality(audience) \in Nat
    BY <1>1, CommonAssumption, FS_EmptySet, SmallerCount DEF Reached
  <2>4. SendsRest(r)'
    BY <2>2, <2>3 DEF SendsRest
  <2>5. runner'[r].pc = "sending"
    BY <2>2
  <2>6. Active(r) /\ Active(r)'
    BY <1>1, <2>5 DEF Active
  <2> QED
    BY <1>1, <2>1, <2>2, <2>4, <2>5, <2>6, RunGoesOn
<1> QED
  BY <1>3, <1>4

\* A batch reaches users who were not: as many more as it has.
LEMMA CountReached ==
    ASSUME NEW S \in SUBSET Users, NEW T \in SUBSET Users, S \cap T = {}
    PROVE  /\ Cardinality(S \cup T) = Cardinality(S) + Cardinality(T)
           /\ Cardinality(S) \in Nat /\ Cardinality(T) \in Nat
<1>1. IsFiniteSet(S) /\ IsFiniteSet(T)
  BY CommonAssumption, FS_Subset
<1>2. Cardinality(S) \in Nat /\ Cardinality(T) \in Nat /\ Cardinality({}) = 0
  BY <1>1, FS_EmptySet, FS_CardinalityType
<1>3. Cardinality(S \cup T) = Cardinality(S) + Cardinality(T) - Cardinality(S \cap T)
  BY <1>1, FS_Union
<1>4. Cardinality(S \cap T) = 0
  BY <1>2, Zenon
<1> QED
  BY <1>2, <1>3, <1>4

LEMMA BatchIsOne ==
    ASSUME CampaignsTypeOK, OneRun, NEW r \in Runners, SendBatch(r)
    PROVE  OneRun'
<1>1. /\ UNCHANGED <<camp, armed>> /\ runner[r].pc = "sending"
      /\ runner[r] \in Sending /\ SendsRest(r)
  BY RunnerShapes DEF SendBatch, OneRun
<1>2. PICK batch \in SUBSET runner[r].left :
        /\ inbox' = [u \in Users |-> IF u \in batch THEN Append(inbox[u], TextSent(r)) ELSE inbox[u]]
        /\ runner' = [runner EXCEPT ![r] =
                        [pc |-> "counting", text |-> @.text, left |-> LeftAfter(@.left, batch),
                         sent |-> @.sent + Counted(batch)]]
  BY DEF SendBatch
<1> DEFINE state == [pc |-> "counting", text |-> runner[r].text, left |-> runner[r].left \ batch,
                     sent |-> runner[r].sent + Cardinality(batch)]
<1>3. runner' = [runner EXCEPT ![r] = state] /\ runner'[r] = state
  BY <1>2 DEF LeftAfter, Counted, CampaignsTypeOK
<1>4. /\ batch \subseteq Users /\ batch \cap Reached = {} /\ Reached \subseteq Users
      /\ batch \cap (runner[r].left \ batch) = {}
      /\ batch \cup (runner[r].left \ batch) = runner[r].left /\ runner[r].left \subseteq Users
  BY <1>1, <1>2 DEF Sending, SendsRest, Reached
<1>5. /\ \A u \in batch : inbox'[u] = <<runner[r].text>>
      /\ \A u \in Users \ batch : inbox'[u] = inbox[u]
  <2>1. \A u \in batch : inbox[u] = <<>>
    BY <1>4 DEF Reached
  <2>2. TextSent(r) = runner[r].text
    BY DEF TextSent
  <2>3. Append(<<>>, runner[r].text) = <<runner[r].text>>
    OBVIOUS
  <2>4. \A u \in batch : inbox'[u] = Append(inbox[u], runner[r].text)
    BY <1>2, <1>4, <2>2
  <2>5. \A u \in Users \ batch : inbox'[u] = inbox[u]
    BY <1>2
  <2> QED
    BY <2>1, <2>3, <2>4, <2>5
<1>6. Reached' = Reached \cup batch
  <2>1. <<runner[r].text>> # <<>>
    OBVIOUS
  <2> QED
    BY <1>4, <1>5, <2>1 DEF Reached
<1>7. Cardinality(Reached') = runner[r].sent + Cardinality(batch)
  BY <1>1, <1>4, <1>6, CountReached DEF SendsRest
<1>8. /\ Cardinality(runner[r].left) = Cardinality(batch) + Cardinality(runner[r].left \ batch)
      /\ Cardinality(batch) \in Nat /\ Cardinality(runner[r].left \ batch) \in Nat
  <2>1. runner[r].left \ batch \in SUBSET Users /\ batch \in SUBSET Users
    BY <1>4
  <2> QED
    BY <1>4, <2>1, CountReached
<1>9. SendsRest(r)'
  <2>1. \A u \in Reached' : inbox'[u] = <<runner[r].text>> /\ u \notin runner[r].left \ batch
    BY <1>1, <1>4, <1>5, <1>6 DEF SendsRest, Reached
  <2>2. camp.total = runner[r].sent + Cardinality(batch) + Cardinality(runner[r].left \ batch)
    BY <1>1, <1>8 DEF SendsRest, Sending
  <2> QED
    BY <1>1, <1>3, <1>7, <2>1, <2>2 DEF SendsRest
<1> HIDE DEF state
<1>10. runner'[r].pc = "counting"
  BY <1>3 DEF state
<1> QED
  BY <1>1, <1>3, <1>9, <1>10, RunGoesOn DEF Active

LEMMA CountIsOne ==
    ASSUME CampaignsTypeOK, OneRun, NEW r \in Runners, CountBatch(r)
    PROVE  OneRun'
<1>1. /\ UNCHANGED <<inbox, armed>> /\ runner[r].pc = "counting"
      /\ runner[r] \in Sending /\ SendsRest(r)
  BY RunnerShapes DEF CountBatch, OneRun
<1>2. Saved(r, [camp EXCEPT !.delivered = runner[r].sent], [runner[r] EXCEPT !.pc = "sending"])
  BY DEF CountBatch
<1>3. CASE camp.status = "gone"
  BY <1>1, <1>2, <1>3, RunEnds DEF Saved
<1>4. CASE camp.status # "gone"
  <2>1. /\ camp' = [camp EXCEPT !.delivered = runner[r].sent]
        /\ runner' = [runner EXCEPT ![r] = [runner[r] EXCEPT !.pc = "sending"]]
    BY <1>2, <1>4 DEF Saved
  <2>2. camp'.total = camp.total /\ camp'.status = camp.status
    BY <2>1 DEF CampaignsTypeOK, Camp
  <2>3. runner'[r] = [runner[r] EXCEPT !.pc = "sending"]
    BY <2>1 DEF CampaignsTypeOK
  <2>4. /\ runner'[r].pc = "sending" /\ runner'[r].text = runner[r].text
        /\ runner'[r].left = runner[r].left /\ runner'[r].sent = runner[r].sent
    BY <1>1, <2>3 DEF Sending
  <2>5. Reached' = Reached
    BY <1>1 DEF Reached
  <2>6. SendsRest(r)'
    BY <1>1, <2>2, <2>4, <2>5 DEF SendsRest
  <2>7. Active(r) /\ Active(r)'
    BY <1>1, <2>4 DEF Active
  <2> QED
    BY <1>1, <2>1, <2>2, <2>4, <2>6, <2>7, RunGoesOn
<1> QED
  BY <1>3, <1>4

\* The run that finishes has nobody left, so those it reached are the audience.
LEMMA FinishIsOne ==
    ASSUME CampaignsTypeOK, OneRun, NEW r \in Runners, Finish(r)
    PROVE  OneRun'
<1>1. /\ UNCHANGED <<inbox, armed>> /\ runner[r].pc = "sending" /\ runner[r].left = {}
      /\ runner[r] \in Sending /\ SendsRest(r) /\ Active(r)
  BY RunnerShapes DEF Finish, OneRun, Active
<1>2. Saved(r, [camp EXCEPT !.status = "SENT", !.delivered = runner[r].sent], Idle)
  BY DEF Finish
<1>3. CASE camp.status = "gone"
  BY <1>1, <1>2, <1>3, RunEnds DEF Saved
<1>4. CASE camp.status # "gone"
  <2>1. /\ camp' = [camp EXCEPT !.status = "SENT", !.delivered = runner[r].sent]
        /\ runner' = [runner EXCEPT ![r] = Idle]
    BY <1>2, <1>4 DEF Saved
  <2>2. /\ camp'.total = camp.total /\ camp'.status = "SENT"
        /\ camp'.delivered = runner[r].sent
    BY <2>1 DEF CampaignsTypeOK, Camp
  <2>3. Reached' = Reached
    BY <1>1 DEF Reached
  <2>4. camp.total = runner[r].sent /\ Cardinality(Reached) = runner[r].sent
    <3>1. Cardinality(runner[r].left) = 0
      BY <1>1, FS_EmptySet
    <3> QED
      BY <1>1, <3>1 DEF SendsRest, Sending
  <2>5. \A u, v \in Reached' : inbox'[u] = inbox'[v]
    BY <1>1, <2>3 DEF SendsRest
  <2>6. SentMeansAll'
    BY <2>2, <2>3, <2>4, <2>5 DEF SentMeansAll, Reached
  <2>7. runner'[r] = Idle /\ \A q \in Runners \ {r} : ~Active(q)'
    BY <1>1, <2>1, OnlyActive
  <2>8. \A q \in Runners : runner'[q].pc \notin {"claimed", "loaded", "sending", "counting"}
    BY <2>7 DEF Active, Idle
  <2>9. armed' = 1
    BY <1>1 DEF OneRun
  <2> QED
    BY <2>2, <2>6, <2>8, <2>9 DEF OneRun, Active
<1> QED
  BY <1>3, <1>4

\* What a run does, and how it fails.
LEMMA RunIsOne ==
    ASSUME CampaignsTypeOK, OneRun, armed <= 1, NEW r \in Runners,
           RunnerStep(r) \/ Fail(r) \/ Lost(r)
    PROVE  OneRun'
<1>1. CASE Fail(r)
  <2>1. /\ UNCHANGED <<inbox, armed>> /\ Active(r)
        /\ Saved(r, [camp EXCEPT !.status = "FAILED"], Idle)
    BY <1>1 DEF Fail, Active
  <2> QED
    BY <2>1, RunEnds DEF Saved
<1>2. CASE Lost(r)
  BY <1>2, RunEnds DEF Lost
<1> QED
  BY <1>1, <1>2, ClaimIsOne, LoadIsOne, ResolveIsOne, BatchIsOne, CountIsOne, FinishIsOne
     DEF RunnerStep

\* The cron, the clock and the admin.
LEMMA AdminIsOne ==
    ASSUME CampaignsTypeOK, SentInv,
           \/ Create \/ TimePasses \/ CronTick \/ Crash
           \/ \E op \in Ops : Checked(op)
           \/ \E op \in requests : Written(op)
    PROVE  SentInv'
<1>1. ASSUME OneRun PROVE \A r \in Runners : Active(r) => camp.status # "none"
  BY <1>1 DEF OneRun
<1>2. CASE Create
  <2>1. PICK at \in {"unset", "later", "due"} :
          /\ camp' = [camp EXCEPT !.sendAt = at,
                        !.status = IF at = "unset" THEN "DRAFT" ELSE "SCHEDULED"]
          /\ armed' = IF at = "unset" THEN armed ELSE armed + 1
          /\ IF at = "due" THEN Kicked ELSE UNCHANGED runner
    BY <1>2 DEF Create
  <2>2. inbox' = inbox /\ camp.status = "none"
    BY <1>2 DEF Create
  <2>3. /\ camp'.total = camp.total /\ camp'.delivered = camp.delivered
        /\ camp'.status = IF at = "unset" THEN "DRAFT" ELSE "SCHEDULED"
    BY <2>1 DEF CampaignsTypeOK, Camp
  <2>4. \A r \in Runners : Active(r)' => runner'[r] = runner[r]
    BY <2>1, KickedIsCalm
  <2>5. CASE at = "unset"
    <3> SUFFICES ASSUME armed' <= 1 PROVE OneRun'
      BY DEF SentInv
    <3>1. armed' = armed /\ OneRun /\ runner' = runner
      BY <2>1, <2>5 DEF SentInv
    <3>2. \A r \in Runners : ~Active(r)'
      BY <1>1, <2>2, <3>1 DEF Active
    <3> QED
      BY <2>2, <2>3, <2>4, <2>5, <3>1, <3>2, CalmStep
  <2>6. CASE at # "unset"
    BY <2>1, <2>2, <2>3, <2>4, <2>6, ArmedStep
  <2> QED
    BY <2>5, <2>6
<1>3. CASE TimePasses
  <2>1. /\ camp'.total = camp.total /\ camp'.delivered = camp.delivered
        /\ camp'.status = camp.status /\ UNCHANGED <<runner, inbox, armed>>
    BY <1>3 DEF TimePasses, CampaignsTypeOK, Camp
  <2> QED
    BY <2>1, CalmStep DEF SentInv
<1>4. CASE CronTick
  BY <1>4, KickedIsCalm, CalmStep DEF CronTick, SentInv
<1>5. CASE Crash
  <2>1. /\ UNCHANGED <<camp, inbox, armed>>
        /\ \A r \in Runners : ~Active(r)'
    BY <1>5 DEF Crash, Active, Idle
  <2> QED
    BY <2>1, CalmStep DEF SentInv
<1>6. ASSUME NEW op \in Ops, Checked(op) PROVE SentInv'
  BY <1>6, CalmStep DEF Checked, SentInv
<1>7. ASSUME NEW op \in requests, Written(op) PROVE SentInv'
  <2>1. inbox' = inbox
    BY <1>7 DEF Written
  <2>2. CASE UNCHANGED <<camp, runner, armed>>
    BY <2>1, <2>2, CalmStep DEF SentInv
  <2>3. CASE /\ armed' = armed + 1
             /\ \E at \in {"later", "due"} :
                  /\ camp' = [camp EXCEPT !.status = "SCHEDULED", !.sendAt = at]
                  /\ IF at = "due" THEN Kicked ELSE UNCHANGED runner
    <3>1. camp'.status = "SCHEDULED"
      BY <2>3 DEF CampaignsTypeOK, Camp
    <3>2. \A r \in Runners : Active(r)' => runner'[r] = runner[r]
      BY <2>3, KickedIsCalm
    <3> QED
      BY <2>1, <2>3, <3>1, <3>2, ArmedStep
  <2>4. CASE /\ op # "dispatch"
             /\ camp' = CASE op = "update" -> [camp EXCEPT !.text = @ + 1]
                          [] op = "cancel" -> [camp EXCEPT !.status = "CANCELLED",
                                                           !.sendAt = "unset"]
                          [] op = "remove" -> [camp EXCEPT !.status = "gone"]
             /\ UNCHANGED <<runner, armed, died>>
    <3>1. op \in {"update", "cancel", "remove"}
      BY <2>4, CampaignsAssumption DEF CampaignsTypeOK
    <3>2. \/ camp' = [camp EXCEPT !.text = camp.text + 1]
          \/ camp' = [camp EXCEPT !.status = "CANCELLED", !.sendAt = "unset"]
          \/ camp' = [camp EXCEPT !.status = "gone"]
      BY <2>4, <3>1
    <3>3. /\ camp'.total = camp.total /\ camp'.delivered = camp.delivered
          /\ camp'.status = camp.status \/ camp'.status \in {"CANCELLED", "gone"}
      BY <3>2 DEF CampaignsTypeOK, Camp
    <3> QED
      BY <2>1, <2>4, <3>3, CalmStep DEF SentInv
  <2> QED
    BY <1>7, <2>2, <2>3, <2>4 DEF Written
<1> QED
  BY <1>2, <1>3, <1>4, <1>5, <1>6, <1>7

\* armed never falls.
LEMMA SentStep == CampaignsTypeOK /\ SentInv /\ [Next]_vars => SentInv'
<1> SUFFICES ASSUME CampaignsTypeOK, SentInv, [Next]_vars PROVE SentInv'
  OBVIOUS
<1>1. CASE UNCHANGED vars
  BY <1>1, CalmStep DEF vars, SentInv
<1>2. ASSUME NEW r \in Runners, RunnerStep(r) \/ Fail(r) \/ Lost(r) PROVE SentInv'
  <2>1. armed' = armed
    BY <1>2 DEF RunnerStep, Claim, Load, ResolveAudience, SendBatch, CountBatch, Finish,
                Fail, Lost
  <2> QED
    BY <1>2, <2>1, RunIsOne DEF SentInv
<1> QED
  BY <1>1, <1>2, AdminIsOne DEF Next

\* A campaign scheduled once that says SENT has reached its whole audience with
\* one text and counts it right, for any audience and any size of batch: the run
\* of CampaignDispatchService that claims it is the only one to send it.
THEOREM SentReachesAll == Spec => []SentMeansAll
<1>1. CopiesInv => CampaignsTypeOK
  BY DEF CopiesInv
<1>2. SentInv => SentMeansAll
  BY DEF SentInv, OneRun, SentMeansAll
<1> QED
  BY <1>1, <1>2, CopiesInit, CopiesStep, SentInit, SentStep, PTL DEF Spec

-----------------------------------------------------------------------------
(* The notifications.  What says that a message was delivered is the stamp *)
(* that follows: as long as runs do not overlap and no stamp is lost, the  *)
(* copy that is not stamped yet is in the hands of the only run.           *)

DeliversState == [pc : {"delivers"}, left : SUBSET Messages]
StampsState == [pc : {"stamps"}, left : SUBSET Messages, now : Messages]
MailerState == {Resting} \cup DeliversState \cup StampsState
NudgerState == [pc : {"rests", "due"}] \cup [pc : {"nudges"}, left : SUBSET Newcomers]

DeliveriesTypes ==
    /\ message \in [Messages -> {"none", "later", "due", "sent"}]
    /\ copies \in [Messages -> Nat]
    /\ mailer \in [Mailers -> MailerState]
    /\ nudges \in [Newcomers -> Nat]
    /\ nudger \in NudgerState
    /\ parallel \in BOOLEAN

\* Run r has delivered m and is about to say so.
InHand(r, m) == mailer[r].pc = "stamps" /\ mailer[r].now = m

\* Run r is yet to deliver m.
ToDeliver(r, m) == mailer[r] # Resting /\ m \in mailer[r].left

OneMailer == \A q, r \in Mailers : mailer[q] # Resting /\ mailer[r] # Resting => q = r

\* What was delivered says so or is about to; what is yet to be delivered was not.
Accounted(m) ==
    /\ copies[m] > 0 => message[m] = "sent" \/ \E r \in Mailers : InHand(r, m)
    /\ \A r \in Mailers :
         /\ InHand(r, m) => message[m] = "due" /\ copies[m] = 1 /\ ~ToDeliver(r, m)
         /\ ToDeliver(r, m) => message[m] = "due" /\ copies[m] = 0

MailInv ==
    ~parallel => OneMailer /\ \A m \in Messages \ unstamped : Accounted(m) /\ copies[m] <= 1

\* Whom the nudger is yet to nudge has no nudge.
NudgeInv ==
    /\ \A u \in Newcomers : nudges[u] <= 1
    /\ nudger.pc = "nudges" => nudger.left \subseteq {u \in Newcomers : nudges[u] = 0}

DeliveriesInv == DeliveriesTypes /\ MailInv /\ NudgeInv

LEMMA DeliveriesInitInv == DeliveriesInit => DeliveriesInv
<1> SUFFICES ASSUME DeliveriesInit PROVE DeliveriesInv
  OBVIOUS
<1> USE DEF DeliveriesInit
<1>1. DeliveriesTypes
  BY DEF DeliveriesTypes, MailerState, NudgerState
<1>2. \A r \in Mailers : mailer[r] = Resting /\ mailer[r].pc = "rests"
  BY DEF Resting
<1>3. MailInv
  BY <1>2 DEF MailInv, OneMailer, Accounted, InHand, ToDeliver
<1> QED
  BY <1>1, <1>3 DEF DeliveriesInv, NudgeInv

\* The nudge leaves the messages alone, and the messages the nudge.
LEMMA MailStands ==
    ASSUME DeliveriesInv, UNCHANGED mailVars
    PROVE  MailInv'
BY DEF DeliveriesInv, mailVars, MailInv, OneMailer, Accounted, InHand, ToDeliver

LEMMA NudgeStands ==
    ASSUME DeliveriesInv, UNCHANGED <<nudges, nudger>>
    PROVE  NudgeInv'
BY DEF DeliveriesInv, NudgeInv

LEMMA NudgeSteps ==
    ASSUME DeliveriesInv, NudgerStarts \/ Nudge \/ NudgerFails \/ HourPasses
    PROVE  DeliveriesInv'
<1>1. UNCHANGED mailVars
  BY DEF NudgerStarts, Nudge, NudgerFails, HourPasses
<1>2. nudges' \in [Newcomers -> Nat] /\ nudger' \in NudgerState /\ NudgeInv'
  <2>1. CASE NudgerStarts
    BY <2>1 DEF NudgerStarts, Idlers, NudgeInv, DeliveriesInv, DeliveriesTypes, NudgerState
  <2>2. CASE Nudge
    <3>1. nudger \in [pc : {"nudges"}, left : SUBSET Newcomers]
      BY <2>2 DEF Nudge, DeliveriesInv, DeliveriesTypes, NudgerState
    <3>2. PICK u \in nudger.left :
            /\ nudges' = [nudges EXCEPT ![u] = @ + 1]
            /\ nudger' = IF nudger.left = {u} THEN [pc |-> "rests"]
                         ELSE [pc |-> "nudges", left |-> nudger.left \ {u}]
      BY <2>2, <3>1 DEF Nudge
    <3> QED
      BY <2>2, <3>1, <3>2 DEF Nudge, NudgeInv, DeliveriesInv, DeliveriesTypes, NudgerState
  <2>3. CASE NudgerFails \/ HourPasses
    BY <2>3 DEF NudgerFails, HourPasses, NudgeInv, DeliveriesInv, DeliveriesTypes, NudgerState
  <2> QED
    BY <2>1, <2>2, <2>3
<1> QED
  BY <1>1, <1>2, MailStands DEF mailVars, DeliveriesInv, DeliveriesTypes

\* Without overlap, a run under way is the only one.
LEMMA OnlyRun ==
    ASSUME DeliveriesInv, ~parallel, NEW r \in Mailers, mailer[r] # Resting, NEW rest,
           mailer' = [mailer EXCEPT ![r] = rest]
    PROVE  /\ mailer'[r] = rest
           /\ \A q \in Mailers \ {r} : mailer'[q] = Resting /\ mailer'[q].pc = "rests"
           /\ OneMailer'
BY DEF DeliveriesInv, DeliveriesTypes, MailInv, OneMailer, Resting

\* What a run does with the messages it holds.
LEMMA RunSteps ==
    ASSUME DeliveriesInv, NEW r \in Mailers, Deliver(r) \/ Stamp(r) \/ MailFails(r)
    PROVE  DeliveriesInv'
<1> USE DEF DeliveriesInv
<1>0. UNCHANGED <<nudges, nudger, parallel>>
  BY DEF Deliver, Stamp, MailFails, nudgeVars
<1>1. mailer[r] \in DeliversState \cup StampsState /\ mailer[r] # Resting
  BY DEF Deliver, Stamp, MailFails, DeliveriesTypes, MailerState, DeliversState, StampsState, Resting
<1>2. SUFFICES DeliveriesTypes' /\ (~parallel => OneMailer' /\
          \A m \in Messages \ unstamped' : (Accounted(m) /\ copies[m] <= 1)')
  BY <1>0, NudgeStands DEF MailInv
<1>3. CASE Deliver(r)
  <2>1. mailer[r] \in DeliversState
    BY <1>1, <1>3 DEF Deliver, StampsState
  <2>2. PICK m \in mailer[r].left :
          /\ copies' = [copies EXCEPT ![m] = @ + 1]
          /\ mailer' = [mailer EXCEPT ![r] =
                          [pc |-> "stamps", left |-> mailer[r].left \ {m}, now |-> m]]
          /\ UNCHANGED <<message, unstamped>>
    BY <1>3 DEF Deliver
  <2>3. m \in Messages /\ DeliveriesTypes'
    BY <1>0, <2>1, <2>2 DEF DeliversState, StampsState, MailerState, DeliveriesTypes
  <2>4. ASSUME ~parallel, NEW n \in Messages \ unstamped PROVE (Accounted(n) /\ copies[n] <= 1)'
    <3>1. mailer'[r] = [pc |-> "stamps", left |-> mailer[r].left \ {m}, now |-> m]
      BY <1>1, <2>2, <2>4, OnlyRun
    <3>a. mailer'[r].pc = "stamps" /\ mailer'[r].now = m /\ mailer'[r].left = mailer[r].left \ {m}
      BY <3>1
    <3>b. mailer'[r] # Resting
      BY <3>a DEF Resting
    <3>c. \A q \in Mailers \ {r} : mailer'[q] = Resting /\ mailer'[q].pc = "rests"
      BY <1>1, <2>2, <2>4, OnlyRun
    <3>2. \A q \in Mailers : /\ InHand(q, n)' <=> q = r /\ n = m
                             /\ ToDeliver(q, n)' <=> q = r /\ n \in mailer[r].left \ {m}
      BY <3>a, <3>b, <3>c DEF InHand, ToDeliver
    <3>3. \A q \in Mailers : /\ ~InHand(q, n)
                             /\ ToDeliver(q, n) <=> q = r /\ n \in mailer[r].left
      BY <1>1, <2>1, <2>4 DEF MailInv, OneMailer, InHand, ToDeliver, DeliversState, Resting
    <3>4. Accounted(n) /\ copies[n] \in Nat
      BY <2>4 DEF MailInv, DeliveriesTypes
    <3>5. CASE n = m
      BY <2>2, <2>3, <3>2, <3>3, <3>4, <3>5 DEF Accounted, DeliveriesTypes
    <3>6. CASE n # m
      BY <2>2, <2>3, <2>4, <3>2, <3>3, <3>4, <3>6 DEF MailInv, Accounted, DeliveriesTypes
    <3> QED
      BY <3>5, <3>6
  <2> QED
    BY <1>1, <2>2, <2>3, <2>4, OnlyRun
<1>4. CASE Stamp(r)
  <2>1. mailer[r] \in StampsState /\ NextMessage(mailer[r].left) \in {Resting} \cup DeliversState
    BY <1>1, <1>4 DEF Stamp, NextMessage, DeliversState, StampsState
  <2>2. /\ message' = [message EXCEPT ![mailer[r].now] = "sent"]
        /\ mailer' = [mailer EXCEPT ![r] = NextMessage(mailer[r].left)]
        /\ UNCHANGED <<copies, unstamped>>
    BY <1>4 DEF Stamp
  <2>3. DeliveriesTypes'
    BY <1>0, <2>1, <2>2 DEF StampsState, MailerState, DeliveriesTypes
  <2>4. ASSUME ~parallel, NEW n \in Messages \ unstamped PROVE (Accounted(n) /\ copies[n] <= 1)'
    BY <1>1, <2>1, <2>2, <2>4, OnlyRun
    DEF MailInv, Accounted, InHand, ToDeliver, DeliveriesTypes, DeliversState, StampsState, NextMessage, Resting
  <2> QED
    BY <1>1, <2>2, <2>3, <2>4, OnlyRun
<1>5. CASE MailFails(r)
  <2>1. PICK left \in SUBSET mailer[r].left :
          /\ mailer' = [mailer EXCEPT ![r] = NextMessage(left)]
          /\ UNCHANGED <<message, copies>>
          /\ \/ mailer[r].pc = "delivers" /\ unstamped' = unstamped
             \/ mailer[r].pc = "stamps" /\ unstamped' = unstamped \cup {mailer[r].now}
    BY <1>5 DEF MailFails
  <2>2. NextMessage(left) \in {Resting} \cup DeliversState /\ left \subseteq Messages
    BY <1>1, <2>1 DEF NextMessage, DeliversState, StampsState
  <2>3. DeliveriesTypes'
    BY <1>0, <2>1, <2>2 DEF MailerState, DeliveriesTypes
  <2>4. ASSUME ~parallel, NEW n \in Messages \ unstamped' PROVE (Accounted(n) /\ copies[n] <= 1)'
    BY <1>1, <2>1, <2>2, <2>4, OnlyRun
    DEF MailInv, Accounted, InHand, ToDeliver, DeliveriesTypes, DeliversState, StampsState, NextMessage, Resting
  <2> QED
    BY <1>1, <2>1, <2>3, <2>4, OnlyRun
<1> QED
  BY <1>3, <1>4, <1>5

LEMMA StartStep ==
    ASSUME DeliveriesInv, MailerStarts
    PROVE  DeliveriesInv'
<1> USE DEF DeliveriesInv
<1>1. PICK r \in Mailers :
        /\ mailer[r] = Resting
        /\ mailer' = [mailer EXCEPT ![r] = [pc |-> "delivers", left |-> DueNow]]
  BY DEF MailerStarts, Mailing
<1>2. /\ parallel' = (parallel \/ Mailing # {})
      /\ UNCHANGED <<message, copies, unstamped, nudges, nudger>>
  BY DEF MailerStarts, nudgeVars
<1>3. DeliveriesTypes'
  BY <1>1, <1>2 DEF DeliveriesTypes, MailerState, DeliversState, DueNow
<1>4. MailInv'
  <2> SUFFICES ASSUME ~parallel'
               PROVE  OneMailer' /\ \A n \in Messages \ unstamped : (Accounted(n) /\ copies[n] <= 1)'
    BY <1>2 DEF MailInv
  <2>0. ~parallel /\ Mailing = {}
    BY <1>2
  <2>1. \A q \in Mailers : mailer[q] = Resting /\ mailer[q].pc = "rests"
    BY <2>0 DEF Mailing, Resting
  <2>2. mailer'[r].pc = "delivers" /\ mailer'[r].left = DueNow
    BY <1>1 DEF DeliveriesTypes
  <2>3. \A q \in Mailers \ {r} : mailer'[q] = Resting /\ mailer'[q].pc = "rests"
    BY <1>1, <2>1 DEF DeliveriesTypes
  <2>4. ASSUME NEW n \in Messages \ unstamped PROVE (Accounted(n) /\ copies[n] <= 1)'
    <3>1. /\ Accounted(n) /\ copies[n] <= 1 /\ copies[n] \in Nat
          /\ \A q \in Mailers : ~InHand(q, n)
      BY <2>0, <2>1, <2>4 DEF MailInv, InHand, DeliveriesTypes
    <3>2. \A q \in Mailers : ~InHand(q, n)' /\ (ToDeliver(q, n)' => message[n] = "due")
      BY <2>2, <2>3 DEF InHand, ToDeliver, DueNow
    <3> QED
      BY <1>2, <3>1, <3>2 DEF Accounted
  <2> QED
    BY <2>3, <2>4 DEF OneMailer
<1> QED
  BY <1>2, <1>3, <1>4, NudgeStands

\* A message is scheduled, or its moment comes.
LEMMA ScheduleSteps ==
    ASSUME DeliveriesInv, NEW m \in Messages, Schedule(m) \/ SendAtPasses(m)
    PROVE  DeliveriesInv'
<1> USE DEF DeliveriesInv
<1>1. /\ message[m] \in {"none", "later"}
      /\ \E at \in {"later", "due"} : message' = [message EXCEPT ![m] = at]
      /\ UNCHANGED <<copies, mailer, parallel, unstamped, nudges, nudger>>
  BY DEF Schedule, SendAtPasses, nudgeVars
<1>2. DeliveriesTypes'
  BY <1>1 DEF DeliveriesTypes
<1>3. MailInv'
  BY <1>1 DEF MailInv, OneMailer, Accounted, InHand, ToDeliver, DeliveriesTypes
<1> QED
  BY <1>1, <1>2, <1>3, NudgeStands

LEMMA CrashStep ==
    ASSUME DeliveriesInv, DeliveriesCrash
    PROVE  DeliveriesInv'
<1> USE DEF DeliveriesInv, DeliveriesCrash
<1>1. DeliveriesTypes' /\ NudgeInv'
  BY DEF DeliveriesTypes, NudgeInv, MailerState, NudgerState
<1>2. \A r \in Mailers : mailer'[r] = Resting /\ mailer'[r].pc = "rests"
  BY DEF Resting
<1>3. ASSUME NEW m \in Messages \ unstamped' PROVE \A r \in Mailers : ~InHand(r, m)
  BY <1>3 DEF InHand
<1>4. MailInv'
  BY <1>2, <1>3 DEF MailInv, OneMailer, Accounted, InHand, ToDeliver
<1> QED
  BY <1>1, <1>4

LEMMA DeliveriesStepInv == DeliveriesInv /\ [DeliveriesNext]_deliveriesVars => DeliveriesInv'
<1> SUFFICES ASSUME DeliveriesInv, [DeliveriesNext]_deliveriesVars PROVE DeliveriesInv'
  OBVIOUS
<1>1. CASE UNCHANGED deliveriesVars
  BY <1>1, MailStands, NudgeStands DEF deliveriesVars, mailVars, DeliveriesInv, DeliveriesTypes
<1>2. ASSUME NEW u \in Newcomers, NewcomerChanges(u) PROVE DeliveriesInv'
  BY <1>2, MailStands, NudgeStands DEF NewcomerChanges, mailVars, DeliveriesInv, DeliveriesTypes
<1> QED
  BY <1>1, <1>2, NudgeSteps, RunSteps, StartStep, ScheduleSteps, CrashStep DEF DeliveriesNext

\* ScheduledNotificationService delivers a message twice only when runs overlap or
\* a stamp was lost, and OnboardingNudgeService never nudges anybody twice.
THEOREM NothingIsSentTwice == DeliveriesSpec => []AtMostOneCopy
<1>1. DeliveriesInv => AtMostOneCopy
  BY DEF DeliveriesInv, DeliveriesTypes, MailInv, NudgeInv, AtMostOneCopy
<1> QED
  BY <1>1, DeliveriesInitInv, DeliveriesStepInv, PTL DEF DeliveriesSpec
-----------------------------------------------------------------------------
(* The signals.  A page that shows something else than the truth, and was  *)
(* not missed, is about to be told: through each hand the signal goes, from *)
(* the writer or the clock to the page.                                     *)

Instants == Nat
Buses == [pending : SUBSET Rooms, timer : BOOLEAN]
Rows == [status : Statuses, kickoff : KickoffInstants, closed : BOOLEAN,
         write : 0..MaxWrites, at : Instants]
PollState == {Waiting} \cup [pc : {"updates"}, now : Instants]

RealtimeTypes ==
    /\ instant \in Instants
    /\ stored \in Rows
    /\ sent \subseteq [by : {"refresh", "other"}, at : Instants]
    /\ emitting \subseteq Rooms
    /\ poll \in PollState
    /\ cursor \in [tick : Instants, update : Instants, sig : Statuses \cup {Unseen}]
    /\ bus \in Buses
    /\ page \in [room : Rooms, connected : BOOLEAN, told : BOOLEAN,
                 shows : Truths]
    /\ missed \in BOOLEAN /\ unheard \in BOOLEAN

\* Nothing is stamped, or polled, at a moment that is yet to come.
StampsArePast ==
    /\ stored.at <= instant
    /\ \A w \in sent : w.at <= instant
    /\ cursor.update <= instant /\ cursor.tick <= instant
    /\ poll # Waiting => poll.now <= instant

\* The poll will find the write, and say so to the page's room.
PollWillFind ==
    /\ stored.at > cursor.update
    /\ page.room = "match" \/ unheard \/ cursor.sig # stored.status

\* The kickoff is in the interval of the poll to come.
PollWillClose ==
    Closes(stored, IF poll = Waiting THEN cursor.tick ELSE poll.now, instant)

\* A connected page that does not show the truth will be told, unless it was missed.
SignalUnderWay ==
    page.connected /\ ~missed /\ page.shows # Seen(stored, instant, page.room) =>
        \/ page.told
        \/ page.room \in bus.pending \cup emitting
        \/ PollWillFind
        \/ PollWillClose

\* A room is never left pending with the timer stopped.
TimerRuns == bus.pending # {} => bus.timer

RealtimeInv == RealtimeTypes /\ StampsArePast /\ SignalUnderWay /\ TimerRuns

LEMMA SeenType ==
    ASSUME NEW r \in Rooms, NEW m \in Rows, NEW now
    PROVE  Seen(m, now, r) \in Truths
BY RealtimeAssumption DEF Seen, Open, Rows, Rooms, Truths

LEMMA RealtimeInitInv == RealtimeInit => RealtimeInv
<1> SUFFICES ASSUME RealtimeInit PROVE RealtimeInv
  OBVIOUS
<1> USE RealtimeAssumption DEF RealtimeInit
<1>1. stored \in Rows /\ page.room \in Rooms
  BY DEF Rows, Instants
<1>2. page.shows = Seen(stored, instant, page.room) /\ page.shows \in Truths
  BY <1>1, SeenType
<1>3. cursor \in [tick : Instants, update : Instants, sig : Statuses \cup {Unseen}]
  BY DEF Instants
<1>4. page \in [room : Rooms, connected : BOOLEAN, told : BOOLEAN, shows : Truths]
  BY <1>2
<1>5. RealtimeTypes
  BY <1>1, <1>3, <1>4 DEF RealtimeTypes, Instants, PollState, Buses
<1> QED
  BY <1>2, <1>5 DEF RealtimeInv, StampsArePast, SignalUnderWay, TimerRuns

\* A poll under way knows when it began.
LEMMA PollFields ==
    ASSUME RealtimeTypes, poll # Waiting
    PROVE  poll.pc = "updates" /\ poll.now \in Instants
BY DEF RealtimeTypes, PollState

LEMMA PollAwaits ==
    ASSUME RealtimeTypes, poll.pc = "updates"
    PROVE  poll # Waiting
BY DEF Waiting

LEMMA EmittedType ==
    ASSUME NEW b \in Buses, NEW rooms \in SUBSET Rooms
    PROVE  /\ Emitted(b, rooms) \in Buses
           /\ Emitted(b, rooms).pending = b.pending \cup rooms
           /\ Emitted(b, rooms).timer = TRUE
BY DEF Emitted, Buses

\* The two ends of a poll: the write is found, or there is none to find.
LEMMA PollOutcome ==
    ASSUME RealtimeTypes, PollUpdates
    PROVE  /\ poll # Waiting /\ poll.now \in Instants
           /\ \/ /\ stored.at > cursor.update
                 /\ cursor' = [tick |-> poll.now, update |-> stored.at, sig |-> stored.status]
                 /\ \E rooms \in {Rooms, {"match"}} :
                      /\ bus' = Emitted(bus, rooms)
                      /\ Changed(cursor.sig, stored) => rooms = Rooms
              \/ /\ ~(stored.at > cursor.update)
                 /\ cursor' = [tick |-> poll.now, update |-> cursor.update, sig |-> cursor.sig]
                 /\ bus' = bus
<1>1. poll # Waiting /\ poll.now \in Instants
  BY PollAwaits, PollFields DEF PollUpdates
<1>2. CASE stored.at > cursor.update
  BY <1>1, <1>2 DEF PollUpdates, CursorAfter
<1>3. CASE ~(stored.at > cursor.update)
  <2>1. bus' = bus /\ cursor' = [cursor EXCEPT !.tick = poll.now]
    BY <1>3 DEF PollUpdates
  <2> QED
    BY <1>1, <1>3, <2>1 DEF RealtimeTypes
<1> QED
  BY <1>2, <1>3

LEMMA PollMisses ==
    ASSUME RealtimeTypes, PollUpdates
    PROVE  missed' \in {missed, TRUE}
<1>1. CASE stored.at > cursor.update
  <2>1. missed' = (missed \/ (page.room = "tournament" /\ unheard /\ cursor.sig = stored.status))
    BY <1>1 DEF PollUpdates
  <2> QED
    BY <2>1, Zenon DEF RealtimeTypes
<1>2. CASE ~(stored.at > cursor.update)
  BY <1>2 DEF PollUpdates
<1> QED
  BY <1>1, <1>2

\* Only a page that reads shows something else, and forgets what it missed.
LEMMA OnlyRefetchShows ==
    ASSUME RealtimeTypes, [RealtimeNext]_realtimeVars, ~Refetch
    PROVE  /\ page'.shows = page.shows /\ page'.room = page.room
           /\ missed' \in {missed, TRUE}
<1> USE DEF RealtimeTypes
<1>1. CASE UNCHANGED realtimeVars
  BY <1>1 DEF realtimeVars
<1>2. CASE TimerFires
  BY <1>2 DEF TimerFires
<1>3. CASE WriterThrows \/ RefreshCommits \/ OtherCommits
  <2>1. \E b \in BOOLEAN : missed' = (missed \/ b)
    <3>1. CASE WriterThrows
      <4>1. (page.room \in emitting /\ stored.at <= cursor.update) \in BOOLEAN
        OBVIOUS
      <4> QED
        BY <3>1, <4>1, Zenon DEF WriterThrows
    <3>2. CASE RefreshCommits
      <4>1. PICK w \in sent : missed' = (missed \/ (page.room = "match" /\ w.at <= cursor.update))
        BY <3>2 DEF RefreshCommits
      <4>2. (page.room = "match" /\ w.at <= cursor.update) \in BOOLEAN
        OBVIOUS
      <4> QED
        BY <4>1, <4>2, Zenon
    <3>3. CASE OtherCommits
      <4>1. PICK w \in sent : missed' = (missed \/ w.at <= cursor.update)
        BY <3>3 DEF OtherCommits
      <4>2. (w.at <= cursor.update) \in BOOLEAN
        OBVIOUS
      <4> QED
        BY <4>1, <4>2, Zenon
    <3> QED
      BY <1>3, <3>1, <3>2, <3>3
  <2> QED
    BY <1>3, <2>1 DEF WriterThrows, RefreshCommits, OtherCommits
<1>4. CASE PollUpdates
  BY <1>4, PollMisses DEF PollUpdates
<1>5. CASE PollFails
  <2>1. missed' = missed \/ missed' = (missed \/ Closes(stored, cursor.tick, instant))
    BY <1>5 DEF PollFails
  <2>2. missed' \in {missed, TRUE}
    BY <2>1, Zenon
  <2> QED
    BY <1>5, <2>2 DEF PollFails
<1>6. CASE RobotWrites \/ AdminWrites \/ Emit \/ WriteIsSent \/ PollKickoffs \/ InstantPasses
  BY <1>6 DEF RobotWrites, AdminWrites, Emit, WriteIsSent, PollKickoffs, InstantPasses
<1>7. CASE Disconnect \/ Reconnect \/ RealtimeRestart
  BY <1>7 DEF Disconnect, Reconnect, RealtimeRestart
<1> QED
  BY <1>1, <1>2, <1>3, <1>4, <1>5, <1>6, <1>7 DEF RealtimeNext

LEMMA LandsType ==
    ASSUME NEW status \in Statuses, NEW kickoff \in KickoffInstants, NEW closed \in BOOLEAN,
           NEW at \in Instants, stored \in Rows, Lands(status, kickoff, closed, at)
    PROVE  /\ stored' \in Rows
           /\ stored'.status = status /\ stored'.kickoff = kickoff /\ stored'.closed = closed
           /\ stored'.at = at /\ stored'.write = stored.write + 1
BY RealtimeAssumption DEF Lands, Rows

LEMMA RealtimeTypesStep ==
    ASSUME RealtimeTypes, [RealtimeNext]_realtimeVars
    PROVE  RealtimeTypes'
<1> USE RealtimeAssumption DEF RealtimeTypes, Buses
<1>1. CASE UNCHANGED realtimeVars
  BY <1>1 DEF realtimeVars
<1>2. CASE TimerFires
  BY <1>2 DEF TimerFires, Stopped
<1>3. CASE RobotWrites \/ AdminWrites
  <2>1. emitting' \subseteq Rooms
    BY <1>3 DEF RobotWrites, AdminWrites, Rooms
  <2>2. PICK status \in Statuses, kickoff \in KickoffInstants, closed \in BOOLEAN :
          Lands(status, kickoff, closed, instant)
    <3>1. stored.kickoff \in KickoffInstants /\ stored.closed \in BOOLEAN
      BY DEF Rows
    <3>2. CASE RobotWrites
      <4>1. PICK st \in Statuses : Lands(st, stored.kickoff, stored.closed, instant)
        BY <3>2 DEF RobotWrites
      <4> QED
        BY <3>1, <4>1
    <3>3. CASE AdminWrites
      BY <3>3 DEF AdminWrites
    <3> QED
      BY <1>3, <3>2, <3>3
  <2>3. stored' \in Rows
    BY <2>2, LandsType
  <2> QED
    BY <1>3, <2>1, <2>3 DEF RobotWrites, AdminWrites
<1>4. CASE Emit
  BY <1>4 DEF Emit, Emitted
<1>5. CASE WriteIsSent
  BY <1>5 DEF WriteIsSent
<1>6. CASE RefreshCommits \/ OtherCommits
  <2>1. PICK w \in sent, status \in Statuses, kickoff \in KickoffInstants, closed \in BOOLEAN :
          Lands(status, kickoff, closed, w.at)
    BY <1>6 DEF RefreshCommits, OtherCommits, Rows
  <2>2. stored' \in Rows
    BY <2>1, LandsType
  <2>3. missed' \in BOOLEAN
    BY <1>6, OnlyRefetchShows DEF RefreshCommits, OtherCommits, Refetch
  <2>4. unheard' \in BOOLEAN
    <3>1. CASE RefreshCommits
      BY <3>1 DEF RefreshCommits
    <3>2. CASE OtherCommits
      <4>1. PICK st \in Statuses, ki \in KickoffInstants, cl \in BOOLEAN :
              unheard' = (unheard \/ Altered(stored, st, ki, cl))
        BY <3>2 DEF OtherCommits
      <4>2. Altered(stored, st, ki, cl) \in BOOLEAN
        BY DEF Altered
      <4> QED
        BY <4>1, <4>2, Zenon
    <3> QED
      BY <1>6, <3>1, <3>2
  <2> QED
    BY <1>6, <2>2, <2>3, <2>4 DEF RefreshCommits, OtherCommits, Rooms
<1>7. CASE PollKickoffs
  BY <1>7 DEF PollKickoffs, Emitted, Rooms, PollState
<1>8. CASE PollUpdates
  <2>1. stored.at \in Instants /\ stored.status \in Statuses
    BY DEF Rows
  <2>2. cursor' \in [tick : Instants, update : Instants, sig : Statuses \cup {Unseen}]
    BY <1>8, <2>1, PollOutcome
  <2>3. bus' \in Buses
    <3>1. CASE bus' = bus
      BY <3>1
    <3>2. ASSUME NEW rooms \in SUBSET Rooms, bus' = Emitted(bus, rooms) PROVE bus' \in Buses
      BY <3>2, EmittedType
    <3> QED
      BY <1>8, <3>1, <3>2, PollOutcome DEF Rooms
  <2> QED
    BY <1>8, <2>2, <2>3, PollMisses DEF PollUpdates, PollState
<1>9. CASE PollFails
  BY <1>9, PollFields DEF PollFails, PollState
<1>10. CASE Refetch
  BY <1>10, SeenType DEF Refetch
<1>11. CASE Disconnect \/ Reconnect
  BY <1>11 DEF Disconnect, Reconnect
<1>12. CASE RealtimeRestart
  <2>1. sent' = {[by |-> "other", at |-> w.at] : w \in sent}
    BY <1>12 DEF RealtimeRestart
  <2>2. sent' \subseteq [by : {"refresh", "other"}, at : Instants]
    BY <2>1
  <2>3. cursor' \in [tick : Instants, update : Instants, sig : Statuses \cup {Unseen}]
    BY <1>12 DEF RealtimeRestart
  <2>4. UNCHANGED <<instant, stored, missed>> /\ emitting' = {} /\ poll' = Waiting /\ unheard' = FALSE
    BY <1>12 DEF RealtimeRestart
  <2>5. /\ bus' \in [pending : SUBSET Rooms, timer : BOOLEAN]
        /\ page' \in [room : Rooms, connected : BOOLEAN, told : BOOLEAN, shows : Truths]
    BY <1>12 DEF RealtimeRestart
  <2> QED
    BY <2>2, <2>3, <2>4, <2>5 DEF PollState
<1>13. CASE InstantPasses
  BY <1>13 DEF InstantPasses, Instants
<1>14. CASE WriterThrows
  <2>1. missed' \in BOOLEAN
    BY <1>14, OnlyRefetchShows DEF WriterThrows, Refetch
  <2>2. unheard' \in BOOLEAN
    <3>1. ("tournament" \in emitting) \in BOOLEAN
      OBVIOUS
    <3> QED
      BY <1>14, <3>1, Zenon DEF WriterThrows
  <2> QED
    BY <1>14, <2>1, <2>2 DEF WriterThrows
<1> QED
  BY <1>1, <1>2, <1>3, <1>4, <1>5, <1>6, <1>7, <1>8, <1>9, <1>10, <1>11, <1>12, <1>13, <1>14 DEF RealtimeNext

LEMMA StampsStep ==
    ASSUME RealtimeTypes, StampsArePast, TimerRuns, [RealtimeNext]_realtimeVars
    PROVE  StampsArePast' /\ TimerRuns'
<1> USE DEF RealtimeTypes, StampsArePast, TimerRuns, Instants, Rows, Buses
<1>1. CASE UNCHANGED realtimeVars
  BY <1>1 DEF realtimeVars
<1>2. CASE TimerFires
  BY <1>2 DEF TimerFires, Stopped
<1>3. CASE RobotWrites \/ AdminWrites \/ RefreshCommits \/ OtherCommits
  BY <1>3 DEF RobotWrites, AdminWrites, RefreshCommits, OtherCommits, Lands
<1>4. CASE Emit \/ WriterThrows \/ WriteIsSent
  BY <1>4 DEF Emit, Emitted, WriterThrows, WriteIsSent
<1>5. CASE PollKickoffs
  BY <1>5 DEF PollKickoffs, Emitted
<1>6. CASE PollUpdates
  <2>1. TimerRuns'
    BY <1>6, PollOutcome DEF Emitted
  <2>2. poll.now <= instant /\ UNCHANGED <<instant, stored, sent>> /\ poll' = Waiting
    BY <1>6, PollOutcome DEF PollUpdates
  <2>3. cursor'.tick = poll.now /\ cursor'.update \in {stored.at, cursor.update}
    BY <1>6, PollOutcome
  <2> QED
    BY <2>1, <2>2, <2>3
<1>8. CASE PollFails
  BY <1>8, PollFields DEF PollFails
<1>7. CASE Refetch \/ Disconnect \/ Reconnect \/ RealtimeRestart \/ InstantPasses
  BY <1>7 DEF Refetch, Disconnect, Reconnect, RealtimeRestart, InstantPasses, PollState
<1> QED
  BY <1>1, <1>2, <1>3, <1>4, <1>5, <1>6, <1>7, <1>8 DEF RealtimeNext

\* What a page shows was the truth when it was read: a step either changes the
\* truth, or makes the page show it, or is not seen by the page.
LEMMA StepIsView ==
    ASSUME RealtimeInv, [RealtimeNext]_realtimeVars
    PROVE  [Promise!Change \/ Promise!Refresh]_Promise!views
<1> USE DEF RealtimeInv
<1>1. RealtimeTypes'
  BY RealtimeTypesStep
<1>2. Seen(stored, instant, page.room)' \in Truths
  BY <1>1, SeenType DEF RealtimeTypes
<1>3. CASE Refetch
  BY <1>3 DEF Refetch, Promise!Refresh, RealtimeTypes
<1>4. CASE ~Refetch
  BY <1>2, <1>4, OnlyRefetchShows DEF Promise!Change
<1> QED
  BY <1>3, <1>4

\* A write that alters nothing a tournament's page reads is nothing to tell it.
LEMMA UnalteredIsSame ==
    ASSUME RealtimeTypes, page.room = "tournament", page' = page, instant' = instant,
           ~Altered(stored, stored'.status, stored'.kickoff, stored'.closed)
    PROVE  /\ Seen(stored, instant, page.room)' = Seen(stored, instant, page.room)
           /\ poll' = poll /\ cursor' = cursor => (PollWillClose => PollWillClose')
BY DEF Altered, Seen, Open, PollWillClose, Closes

\* The writers of this instance say what they wrote, to the rooms that read it.
LEMMA LocalWriteIsTold ==
    ASSUME RealtimeInv, RobotWrites \/ AdminWrites
    PROVE  SignalUnderWay'
<1> USE DEF RealtimeInv, RealtimeTypes
<1>1. UNCHANGED <<instant, sent, poll, cursor, bus, page, missed, unheard>>
  BY DEF RobotWrites, AdminWrites
<1>2. CASE page.room \in emitting'
  BY <1>1, <1>2 DEF SignalUnderWay
<1>3. CASE page.room \notin emitting'
  <2>1. RobotWrites
    BY <1>3 DEF AdminWrites
  <2>2. PICK status \in Statuses :
          /\ Lands(status, stored.kickoff, stored.closed, instant)
          /\ emitting' = emitting \cup (IF Significant(stored, status) THEN Rooms ELSE {"match"})
    BY <2>1 DEF RobotWrites
  <2>3. page.room = "tournament" /\ stored.status = status /\ page.room \notin emitting
    BY <1>3, <2>2 DEF Significant, Rooms
  <2>4. /\ stored'.status = stored.status /\ stored'.kickoff = stored.kickoff
        /\ stored'.closed = stored.closed /\ stored'.at = instant
    BY <2>2, <2>3, LandsType DEF Rows
  <2>5. /\ Seen(stored, instant, page.room)' = Seen(stored, instant, page.room)
        /\ PollWillClose => PollWillClose'
    BY <1>1, <2>3, <2>4, UnalteredIsSame DEF Altered
  <2>6. PollWillFind => PollWillFind'
    <3>1. stored.at <= instant /\ cursor.update \in Nat /\ stored.at \in Nat /\ instant \in Nat
      BY DEF StampsArePast, Rows, Instants
    <3> QED
      BY <1>1, <2>4, <3>1 DEF PollWillFind
  <2> QED
    BY <1>1, <2>3, <2>5, <2>6 DEF SignalUnderWay
<1> QED
  BY <1>2, <1>3

\* The refresh tells the pages of the tournament; those of the match are told by the
\* poll, or missed.
LEMMA RefreshIsTold ==
    ASSUME RealtimeInv, RefreshCommits
    PROVE  SignalUnderWay'
<1> USE DEF RealtimeInv, RealtimeTypes
<1>1. PICK w \in sent, status \in Statuses, kickoff \in KickoffInstants :
        /\ Lands(status, kickoff, stored.closed, w.at)
        /\ missed' = (missed \/ (page.room = "match" /\ w.at <= cursor.update))
  BY DEF RefreshCommits
<1>2. UNCHANGED <<instant, poll, cursor, bus, page, unheard>> /\ emitting' = emitting \cup {"tournament"}
  BY DEF RefreshCommits
<1>3. CASE page.room = "tournament"
  BY <1>2, <1>3 DEF SignalUnderWay
<1>4. CASE page.room = "match"
  <2>1. stored'.at = w.at /\ w.at \in Nat /\ cursor.update \in Nat
    BY <1>1, LandsType DEF Rows, Instants
  <2>2. missed' \/ w.at > cursor.update
    <3>1. CASE w.at <= cursor.update
      BY <1>1, <1>4, <3>1, Zenon
    <3> QED
      BY <2>1, <3>1
  <2> QED
    BY <1>2, <1>4, <2>1, <2>2 DEF SignalUnderWay, PollWillFind
<1> QED
  BY <1>3, <1>4 DEF Rooms

\* The writes of other instances are found by their stamp, or missed.
LEMMA OtherIsFound ==
    ASSUME RealtimeInv, OtherCommits
    PROVE  SignalUnderWay'
<1> USE DEF RealtimeInv, RealtimeTypes
<1>1. PICK w \in sent, status \in Statuses, kickoff \in KickoffInstants, closed \in BOOLEAN :
        /\ Lands(status, kickoff, closed, w.at)
        /\ missed' = (missed \/ w.at <= cursor.update)
        /\ unheard' = (unheard \/ Altered(stored, status, kickoff, closed))
  BY DEF OtherCommits
<1>2. UNCHANGED <<instant, emitting, poll, cursor, bus, page>>
  BY DEF OtherCommits
<1>3. /\ stored' \in Rows /\ stored'.status = status /\ stored'.kickoff = kickoff
      /\ stored'.closed = closed /\ stored'.at = w.at
      /\ w.at \in Nat /\ cursor.update \in Nat
  BY <1>1, LandsType DEF Instants
<1>4. CASE w.at <= cursor.update
  BY <1>1, <1>4 DEF SignalUnderWay
<1>5. CASE ~(w.at <= cursor.update)
  <2>1. stored'.at > cursor'.update /\ missed' = missed
    BY <1>1, <1>2, <1>3, <1>5
  <2>2. CASE page.room = "match" \/ Altered(stored, status, kickoff, closed)
    BY <1>1, <1>2, <2>1, <2>2 DEF SignalUnderWay, PollWillFind
  <2>3. CASE page.room = "tournament" /\ ~Altered(stored, status, kickoff, closed)
    <3>1. unheard' = unheard /\ stored'.status = stored.status
      BY <1>1, <1>3, <2>3 DEF Altered
    <3>2. /\ Seen(stored, instant, page.room)' = Seen(stored, instant, page.room)
          /\ PollWillClose => PollWillClose'
      BY <1>2, <1>3, <2>3, UnalteredIsSame
    <3>3. PollWillFind => PollWillFind'
      BY <1>2, <2>1, <3>1 DEF PollWillFind
    <3> QED
      BY <1>2, <2>1, <3>2, <3>3 DEF SignalUnderWay
  <2> QED
    BY <2>2, <2>3 DEF Rooms
<1> QED
  BY <1>4, <1>5

\* What a writer that throws does not emit the poll finds, or was missed.
LEMMA ThrownIsFound ==
    ASSUME RealtimeInv, WriterThrows
    PROVE  SignalUnderWay'
<1> USE DEF RealtimeInv, RealtimeTypes
<1>1. /\ UNCHANGED <<instant, stored, sent, poll, cursor, bus, page>>
      /\ unheard' = (unheard \/ "tournament" \in emitting)
      /\ missed' = (missed \/ (page.room \in emitting /\ stored.at <= cursor.update))
  BY DEF WriterThrows
<1>2. stored.at \in Nat /\ cursor.update \in Nat
  BY DEF Rows, Instants
<1>3. CASE page.room \in emitting
  <2>1. missed' \/ stored.at > cursor.update
    <3>1. CASE stored.at <= cursor.update
      BY <1>1, <1>3, <3>1, Zenon
    <3> QED
      BY <1>2, <3>1
  <2>2. page.room = "match" \/ unheard'
    BY <1>1, <1>3 DEF Rooms
  <2> QED
    BY <1>1, <2>1, <2>2 DEF SignalUnderWay, PollWillFind
<1>4. CASE page.room \notin emitting
  <2>1. missed' = missed
    BY <1>1, <1>4
  <2>2. (PollWillFind => PollWillFind') /\ (PollWillClose => PollWillClose')
    BY <1>1 DEF PollWillFind, PollWillClose
  <2> QED
    BY <1>1, <1>4, <2>1, <2>2 DEF SignalUnderWay
<1> QED
  BY <1>3, <1>4

\* The poll tells what it finds to the rooms that see it.
LEMMA PollTells ==
    ASSUME RealtimeInv, PollKickoffs \/ PollUpdates
    PROVE  SignalUnderWay'
<1> USE DEF RealtimeInv, RealtimeTypes
<1>1. CASE PollKickoffs
  <2>1. /\ poll = Waiting /\ poll' = [pc |-> "updates", now |-> instant]
        /\ bus' = IF Closes(stored, cursor.tick, instant) THEN Emitted(bus, Rooms) ELSE bus
        /\ UNCHANGED <<instant, stored, emitting, cursor, page, missed, unheard>>
    BY <1>1 DEF PollKickoffs
  <2>2. CASE PollWillClose
    BY <2>1, <2>2 DEF PollWillClose, SignalUnderWay, Emitted, Buses
  <2>3. CASE ~PollWillClose
    BY <2>1, <2>3 DEF PollWillClose, PollWillFind, SignalUnderWay
  <2> QED
    BY <2>2, <2>3
<1>2. CASE PollUpdates
  <2>0. cursor'.tick = poll.now
    BY <1>2, PollOutcome
  <2>1. /\ poll # Waiting /\ poll' = Waiting /\ cursor'.tick = poll.now
        /\ UNCHANGED <<instant, stored, emitting, page>>
    BY <1>2, <2>0, PollAwaits DEF PollUpdates
  <2>2. PollWillClose => PollWillClose'
    BY <2>1 DEF PollWillClose
  <2>3. bus.pending \subseteq bus'.pending
    BY <1>2, PollOutcome DEF Emitted
  <2>4. PollWillFind /\ ~missed' => page.room \in bus'.pending
    <3> SUFFICES ASSUME PollWillFind, ~missed' PROVE page.room \in bus'.pending
      OBVIOUS
    <3>1. stored.at > cursor.update
      BY DEF PollWillFind
    <3>2. PICK rooms \in {Rooms, {"match"}} :
            bus' = Emitted(bus, rooms) /\ (Changed(cursor.sig, stored) => rooms = Rooms)
      BY <1>2, <3>1, PollOutcome
    <3>3. ~(page.room = "tournament" /\ unheard /\ cursor.sig = stored.status)
      BY <1>2, <3>1 DEF PollUpdates
    <3>4. page.room = "match" \/ Changed(cursor.sig, stored)
      BY <3>3 DEF PollWillFind, Changed, Rooms
    <3> QED
      BY <3>2, <3>4 DEF Emitted, Rooms
  <2>5. ~missed' => ~missed
    BY <1>2, PollMisses
  <2> QED
    BY <2>1, <2>2, <2>3, <2>4, <2>5 DEF SignalUnderWay
<1> QED
  BY <1>1, <1>2

\* As the kickoff passes it is in the interval of the poll to come.
LEMMA KickoffIsPolled ==
    ASSUME RealtimeInv, InstantPasses
    PROVE  SignalUnderWay'
<1> USE DEF RealtimeInv, RealtimeTypes
<1>1. instant' = instant + 1 /\ UNCHANGED <<stored, emitting, poll, cursor, bus, page, missed, unheard>>
  BY DEF InstantPasses
<1> DEFINE from == IF poll = Waiting THEN cursor.tick ELSE poll.now
<1>2. from \in Nat /\ from <= instant /\ instant \in Nat /\ stored.kickoff \in Nat
  BY PollFields, RealtimeAssumption DEF StampsArePast, Instants, Rows
<1>3. CASE Closes(stored, from, instant')
  BY <1>1, <1>3 DEF SignalUnderWay, PollWillClose
<1>4. CASE ~Closes(stored, from, instant')
  <2>1. ~Closes(stored, from, instant)
    BY <1>1, <1>2, <1>4 DEF Closes
  <2>2. stored.status = "SCHEDULED" /\ ~stored.closed =>
           (instant < stored.kickoff <=> instant' < stored.kickoff)
    BY <1>1, <1>2, <1>4 DEF Closes
  <2>3. Seen(stored, instant, page.room)' = Seen(stored, instant, page.room)
    BY <1>1, <2>2 DEF Seen, Open
  <2>4. ~PollWillClose /\ (PollWillFind => PollWillFind')
    BY <1>1, <2>1 DEF PollWillClose, PollWillFind
  <2> QED
    BY <1>1, <2>3, <2>4 DEF SignalUnderWay
<1> QED
  BY <1>3, <1>4

LEMMA RealtimeStepInv == RealtimeInv /\ [RealtimeNext]_realtimeVars => RealtimeInv'
<1> SUFFICES ASSUME RealtimeInv, [RealtimeNext]_realtimeVars PROVE RealtimeInv'
  OBVIOUS
<1> USE DEF RealtimeInv
<1>1. RealtimeTypes' /\ StampsArePast' /\ TimerRuns'
  BY RealtimeTypesStep, StampsStep
<1>2. SignalUnderWay'
  <2> USE DEF RealtimeTypes
  <2>1. CASE UNCHANGED realtimeVars
    BY <2>1 DEF realtimeVars, SignalUnderWay, PollWillFind, PollWillClose
  <2>2. CASE TimerFires
    <3>1. UNCHANGED <<instant, stored, emitting, poll, cursor, missed, unheard>>
      BY <2>2 DEF TimerFires
    <3>2. /\ page'.room = page.room /\ page'.connected = page.connected
          /\ page'.shows = page.shows /\ (page.told => page'.told)
          /\ page.connected /\ page.room \in bus.pending => page'.told
      BY <2>2 DEF TimerFires
    <3> QED
      BY <3>1, <3>2 DEF SignalUnderWay, PollWillFind, PollWillClose
  <2>3. CASE Emit
    BY <2>3 DEF Emit, Emitted, Buses, SignalUnderWay, PollWillFind, PollWillClose
  <2>4. CASE WriteIsSent
    BY <2>4 DEF WriteIsSent, SignalUnderWay, PollWillFind, PollWillClose
  <2>5. CASE PollFails
    <3>1. missed' \/ (missed' = missed /\ (PollWillClose => PollWillClose'))
      BY <2>5 DEF PollFails, PollWillClose, Closes
    <3>2. UNCHANGED <<instant, stored, emitting, bus, page, unheard>>
          /\ cursor'.update = cursor.update /\ cursor'.sig = cursor.sig
      BY <2>5 DEF PollFails
    <3>3. missed' \in {missed, TRUE}
      BY <2>5, OnlyRefetchShows DEF PollFails, Refetch
    <3> QED
      BY <3>1, <3>2, <3>3 DEF SignalUnderWay, PollWillFind
  <2>6. CASE Refetch
    BY <2>6 DEF Refetch, SignalUnderWay
  <2>7. CASE Disconnect \/ Reconnect \/ RealtimeRestart
    BY <2>7 DEF Disconnect, Reconnect, RealtimeRestart, SignalUnderWay
  <2> QED
    BY <2>1, <2>2, <2>3, <2>4, <2>5, <2>6, <2>7, LocalWriteIsTold, RefreshIsTold,
       OtherIsFound, ThrownIsFound, PollTells, KickoffIsPolled DEF RealtimeNext
<1> QED
  BY <1>1, <1>2

\* No change is forgotten between the writer, or the clock, and the page: what a
\* connected page does not show it has been told, or the bus has its room pending with
\* the timer running, or a writer is about to emit it, or the next poll of
\* MatchWindowService will find it; except what missed records.  The liveness of the
\* signals rests on it.
THEOREM NoChangeIsForgotten == RealtimeSpec => [](SignalUnderWay /\ TimerRuns)
<1>1. RealtimeInv => SignalUnderWay /\ TimerRuns
  BY DEF RealtimeInv
<1> QED
  BY <1>1, RealtimeInitInv, RealtimeStepInv, PTL DEF RealtimeSpec

\* The signals implement what Views promises, liveness aside: a page shows only what
\* was the truth when it read, and forgets that it missed a change only by reading.
THEOREM SignalsImplementViews ==
    RealtimeSpec => Promise!ViewsInit /\ [][Promise!Change \/ Promise!Refresh]_Promise!views
<1>1. RealtimeInit => Promise!ViewsInit
  <2> SUFFICES ASSUME RealtimeInit PROVE Promise!ViewsInit
    OBVIOUS
  <2>1. RealtimeTypes
    BY RealtimeInitInv DEF RealtimeInv
  <2>2. page.shows = Seen(stored, instant, page.room)
    BY DEF RealtimeInit
  <2>3. Seen(stored, instant, page.room) \in Truths
    BY <2>1, SeenType DEF RealtimeTypes
  <2> QED
    BY <2>2, <2>3 DEF RealtimeInit, Promise!ViewsInit
<1> QED
  BY <1>1, StepIsView, RealtimeInitInv, RealtimeStepInv, PTL DEF RealtimeSpec
=============================================================================
