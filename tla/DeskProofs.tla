----------------------------- MODULE DeskProofs -----------------------------
(***************************************************************************)
(* What the administration and the accounts rest on: the newsroom, for any *)
(* items, any events they are about, any number of runs and of editors and *)
(* any cap; the posts, for any posts, categories and number of saves; the  *)
(* tree of categories, for any of them and depth; the accounts and their   *)
(* photos, for any users, any number of requests in flight and of photos;  *)
(* the chat, for any tabs and any people behind them.                      *)
(***************************************************************************)
EXTENDS Newsroom, Posts, Categories, Accounts, Chat, NumberProofs, FiniteSetTheorems, TLAPS

NewsStatuses == {"absent", "removed", "DISCOVERED", "PROCESSING", "FILTERED", "DUPLICATE",
                 "PENDING_REVIEW", "PROMOTED", "REJECTED", "FAILED"}
NewsItem == [status : NewsStatuses, facts : {"none", "given", "extracted"}, keyed : BOOLEAN]

\* Where a worker of each kind can be.
CronPoints == {"check", "claim", "extract", "generate", "count", "counting", "bill", "billing"}
Points == [cron |-> CronPoints,
           search |-> {"bill", "billing", "insert"},
           editor |-> {"mark", "bill", "billing", "save"},
           review |-> {"post", "promote", "reject"},
           none |-> {"idle"}]
AllPoints == CronPoints \cup {"insert", "mark", "save", "post", "promote", "reject", "idle"}

WorkerState == [kind : {"none", "cron", "search", "editor", "review"}, at : AllPoints,
                item : Items \cup {"none"}, queue : SUBSET Items, read : Nat]

NewsTypeOK ==
    /\ item \in [Items -> NewsItem]
    /\ worker \in [Workers -> WorkerState]
    /\ usage \in Nat /\ made \in Nat
    /\ {crowded, miscounted} \subseteq BOOLEAN
    /\ \A w \in Workers :
         /\ worker[w].at \in Points[worker[w].kind]
         /\ worker[w].at \notin {"idle", "check", "insert"} /\ worker[w].kind # "search"
            => worker[w].item \in Items

-----------------------------------------------------------------------------
(* What a worker knows of its item, as long as nobody else writes it.      *)

InHand == {"extract", "generate"}
ToCount == {"count", "counting", "bill", "billing"}

Knows(w) ==
    LET i == worker[w].item
        at == worker[w].at
        status == item[i].status
    IN /\ worker[w].kind = "editor" /\ at # "mark" => i \in loose
       /\ i \notin loose =>
            /\ at \in InHand => status = "PROCESSING"
            /\ worker[w].kind = "cron" /\ at \in ToCount =>
                 status \in {"PENDING_REVIEW", "FILTERED", "DUPLICATE"}
            /\ at \in {"post", "promote"} => status = "PENDING_REVIEW"

\* An item is in the hands of one worker.
OneHand ==
    \A v, w \in Workers :
        /\ worker[v].at \in InHand /\ worker[w].at \in InHand
        /\ worker[v].item = worker[w].item /\ worker[v].item \notin loose
        => v = w

OneCron ==
    ~crowded => \A v, w \in Workers : worker[v].kind = "cron" /\ worker[w].kind = "cron" => v = w

HandsInv == NewsTypeOK /\ OneHand /\ \A w \in Workers : Knows(w)

\* The stories the robot found, by item: told and not an editor's.
Told == In({"PENDING_REVIEW", "PROMOTED"}) \ Aside
IsStory(i) == i \in Told /\ item[i].facts # "given"

StoryInv ==
    /\ HandsInv
    /\ OneCron
    /\ \A i \in Items : IsStory(i) => item[i].keyed
    /\ OneStoryPerEvent
    \* no story of the event has been told when the run writes its own
    /\ ~crowded => \A w \in Workers :
         LET i == worker[w].item IN
         worker[w].at = "generate" /\ i \notin Aside /\ item[i].facts # "given" =>
             \A j \in Items : IsStory(j) => Event[j] # Event[i]

\* Those who have taken an article up, or made it, and not counted it yet.
Begun == {w \in Workers : worker[w].at \in {"claim", "extract", "generate", "count", "counting"}}
Uncounted == {w \in Workers : worker[w].at \in {"count", "counting"}}
Leeway == IF crowded THEN Cardinality(Workers) - 1 ELSE 0

CapInv ==
    /\ NewsTypeOK /\ OneCron
    /\ ~miscounted =>
         /\ made = usage + Cardinality(Uncounted)
         /\ usage + Cardinality(Begun) <= MaxPerDay + Leeway
         /\ \A w \in Workers : worker[w].at \in Counting => worker[w].read = usage
         /\ \A v, w \in Workers : worker[v].at \in Counting /\ worker[w].at \in Counting => v = w

-----------------------------------------------------------------------------
(* What each step does, worker by worker and item by item.                 *)

Others(w) == \A v \in Workers \ {w} : worker'[v] = worker[v]
Moves(w, state) == worker' = [worker EXCEPT ![w] = state]

\* Wherever a worker goes, it is of its kind.
Placed(state) ==
    /\ state \in WorkerState
    /\ state.at \in Points[state.kind]
    /\ state.at \notin {"idle", "check", "insert"} /\ state.kind # "search"
       => state.item \in Items

LEMMA WorkerPlaced ==
    NewsTypeOK => \A w \in Workers : Placed(worker[w])
BY DEF NewsTypeOK, Placed

LEMMA MovedTyped ==
    ASSUME NewsTypeOK, NEW w \in Workers, NEW state, Placed(state), Moves(w, state),
           item' \in [Items -> NewsItem], usage' \in Nat, made' \in Nat,
           crowded' \in BOOLEAN, miscounted' \in BOOLEAN
    PROVE  NewsTypeOK' /\ worker'[w] = state /\ Others(w)
BY DEF NewsTypeOK, Placed, Moves, Others

LEMMA VacantPlaced == Placed(Vacant)
BY DEF Placed, Vacant, WorkerState, Points, AllPoints, CronPoints

\* A worker goes from a point to another of the same kind.
LEMMA GoesPlaced ==
    ASSUME NewsTypeOK, NEW w \in Workers, NEW at \in Points[worker[w].kind],
           worker[w].kind = "cron" /\ at # "check" => worker[w].item \in Items,
           worker[w].kind \in {"editor", "review", "cron"}
    PROVE  /\ Placed([worker[w] EXCEPT !.at = at])
           /\ [worker[w] EXCEPT !.at = at].at = at
           /\ [worker[w] EXCEPT !.at = at].kind = worker[w].kind
           /\ [worker[w] EXCEPT !.at = at].item = worker[w].item
<1>1. Placed(worker[w])
  BY WorkerPlaced
<1> QED
  BY <1>1 DEF Placed, WorkerState, Points, AllPoints, CronPoints

\* The worker goes on with its item, or is done.
GoesOn(w, at) ==
    /\ Others(w)
    /\ worker'[w].kind = worker[w].kind /\ worker'[w].item = worker[w].item
    /\ worker'[w].at = at
IsDone(w) == Others(w) /\ worker'[w] = Vacant

LEMMA Going ==
    ASSUME NewsTypeOK, NEW w \in Workers, NEW at \in Points[worker[w].kind], Goes(w, at),
           at = "check" \/ worker[w].item \in Items, worker[w].kind # "none",
           worker[w].kind # "search",
           item' \in [Items -> NewsItem], usage' \in Nat, made' \in Nat,
           crowded' \in BOOLEAN, miscounted' \in BOOLEAN
    PROVE  NewsTypeOK' /\ GoesOn(w, at)
<1> DEFINE state == [worker[w] EXCEPT !.at = at]
<1>1. /\ Placed(state) /\ state.at = at /\ state.kind = worker[w].kind
      /\ state.item = worker[w].item
  <2>1. worker[w].kind \in {"editor", "review", "cron"}
    BY DEF NewsTypeOK, WorkerState
  <2> QED
    BY <2>1, GoesPlaced
<1>2. Moves(w, state)
  BY DEF Goes, Moves, NewsTypeOK
<1> HIDE DEF state
<1> QED
  BY <1>1, <1>2, MovedTyped DEF GoesOn

LEMMA Ending ==
    ASSUME NewsTypeOK, NEW w \in Workers, Ends(w),
           item' \in [Items -> NewsItem], usage' \in Nat, made' \in Nat,
           crowded' \in BOOLEAN, miscounted' \in BOOLEAN
    PROVE  NewsTypeOK' /\ IsDone(w)
<1>1. Moves(w, Vacant)
  BY DEF Ends, Moves
<1> QED
  BY <1>1, VacantPlaced, MovedTyped DEF IsDone

\* A status is written.
LEMMA Becoming ==
    ASSUME NewsTypeOK, NEW i \in Items, NEW status \in NewsStatuses, Becomes(i, status)
    PROVE  /\ item' \in [Items -> NewsItem]
           /\ \A j \in Items \ {i} : item'[j] = item[j]
           /\ item'[i].status = status /\ item'[i].facts = item[i].facts
           /\ item'[i].keyed = item[i].keyed
BY DEF NewsTypeOK, Becomes, NewsItem

\* What has been found is new.
LEMMA Inserting ==
    ASSUME NewsTypeOK, NEW found \in SUBSET Items, NEW facts \in {"none", "given"},
           Inserted(found, facts)
    PROVE  /\ item' \in [Items -> NewsItem]
           /\ \A j \in Items : item'[j] = item[j]
                              \/ (item[j] = Absent /\ item'[j].status = "DISCOVERED")
<1> DEFINE new == [Absent EXCEPT !.status = "DISCOVERED", !.facts = facts]
<1>1. new \in NewsItem /\ new.status = "DISCOVERED"
  BY DEF Absent, NewsItem, NewsStatuses
<1>2. item' = [i \in Items |-> IF i \in found /\ item[i] = Absent THEN new ELSE item[i]]
  BY DEF Inserted
<1> HIDE DEF new
<1>3. ASSUME NEW j \in Items PROVE item'[j] = item[j] \/ (item[j] = Absent /\ item'[j] = new)
  <2>1. item'[j] = IF j \in found /\ item[j] = Absent THEN new ELSE item[j]
    BY <1>2
  <2> QED
    BY <2>1
<1>4. item' \in [Items -> NewsItem]
  BY <1>1, <1>2 DEF NewsTypeOK
<1> QED
  BY <1>1, <1>3, <1>4

LEMMA PointOf ==
    ASSUME NewsTypeOK, NEW w \in Workers
    PROVE  /\ worker[w] = Vacant => worker[w].at = "idle" /\ worker[w].kind = "none"
           /\ worker[w].at \in {"check", "claim", "extract", "generate", "count", "counting"}
              => worker[w].kind = "cron"
           /\ worker[w].at \in {"mark", "save"} => worker[w].kind = "editor"
           /\ worker[w].at \in {"post", "promote", "reject"} => worker[w].kind = "review"
           /\ worker[w].kind # "search" /\ worker[w].at \notin {"idle", "check", "insert"}
              => worker[w].item \in Items
           /\ worker[w].kind = "none" => worker[w].at = "idle"
BY DEF NewsTypeOK, WorkerState, Points, CronPoints, Vacant

Wrote(i, status) ==
    /\ \A j \in Items \ {i} : item'[j] = item[j]
    /\ item'[i].status = status /\ item'[i].facts = item[i].facts
    /\ item'[i].keyed = item[i].keyed
\* Nothing that was there changes.
OnlyFinds ==
    \A j \in Items : item'[j] = item[j]
                   \/ (item[j] = Absent /\ item'[j].status = "DISCOVERED")

LEMMA FoundDoes ==
    ASSUME NewsTypeOK, NEW i \in Items, Found(i)
    PROVE  /\ NewsTypeOK' /\ OnlyFinds
           /\ UNCHANGED <<usage, worker, made, crowded, miscounted, loose>>
<1>1. PICK facts \in {"none", "given"} : Inserted({i}, facts)
  BY DEF Found
<1>2. item' \in [Items -> NewsItem] /\ OnlyFinds
  BY <1>1, Inserting DEF OnlyFinds
<1> QED
  BY <1>2 DEF Found, NewsTypeOK

LEMMA SearchStartsDoes ==
    ASSUME NewsTypeOK, NEW w \in Workers, SearchStarts(w)
    PROVE  /\ NewsTypeOK' /\ Others(w) /\ worker[w].at = "idle"
           /\ worker'[w].kind = "search" /\ worker'[w].at = "bill"
           /\ UNCHANGED <<item, usage, made, crowded, miscounted, loose>>
<1> DEFINE state == [Vacant EXCEPT !.kind = "search", !.at = "bill"]
<1>1. Placed(state) /\ state.kind = "search" /\ state.at = "bill"
  BY DEF Vacant, Placed, WorkerState, Points, AllPoints, CronPoints
<1>2. Moves(w, state) /\ worker[w] = Vacant
      /\ UNCHANGED <<item, usage, made, crowded, miscounted, loose>>
  BY DEF SearchStarts, Moves
<1>3. /\ item' \in [Items -> NewsItem] /\ usage' \in Nat /\ made' \in Nat
      /\ crowded' \in BOOLEAN /\ miscounted' \in BOOLEAN
  BY <1>2 DEF NewsTypeOK
<1> HIDE DEF state
<1> QED
  BY <1>1, <1>2, <1>3, MovedTyped, PointOf

LEMMA SearchEndsDoes ==
    ASSUME NewsTypeOK, NEW w \in Workers, SearchEnds(w)
    PROVE  /\ NewsTypeOK' /\ IsDone(w) /\ OnlyFinds
           /\ worker[w].at = "insert"
           /\ UNCHANGED <<usage, made, crowded, miscounted, loose>>
<1>1. PICK found \in SUBSET Items : Inserted(found, "none")
  BY DEF SearchEnds
<1>2. item' \in [Items -> NewsItem] /\ OnlyFinds
  BY <1>1, Inserting DEF OnlyFinds
<1>3. UNCHANGED <<usage, made, crowded, miscounted, loose>> /\ Ends(w) /\ worker[w].at = "insert"
  BY DEF SearchEnds
<1>4. /\ usage' \in Nat /\ made' \in Nat /\ crowded' \in BOOLEAN /\ miscounted' \in BOOLEAN
  BY <1>3 DEF NewsTypeOK
<1> QED
  BY <1>2, <1>3, <1>4, Ending

LEMMA RunStartsDoes ==
    ASSUME NewsTypeOK, NEW w \in Workers, RunStarts(w)
    PROVE  /\ NewsTypeOK' /\ Others(w) /\ worker[w].at = "idle" /\ worker[w].kind = "none"
           /\ worker'[w].kind = "cron" /\ worker'[w].at = "check"
           /\ crowded' = (crowded \/ \E v \in Workers : worker[v].kind = "cron")
           /\ UNCHANGED <<item, usage, made, miscounted, loose>>
<1>1. PICK batch \in SUBSET Items :
        worker' = [worker EXCEPT ![w] =
                     [Vacant EXCEPT !.kind = "cron", !.at = "check", !.queue = batch]]
  BY DEF RunStarts, In
<1> DEFINE state == [Vacant EXCEPT !.kind = "cron", !.at = "check", !.queue = batch]
<1>2. Placed(state) /\ state.kind = "cron" /\ state.at = "check"
  BY DEF Vacant, Placed, WorkerState, Points, AllPoints, CronPoints
<1>3. Moves(w, state) /\ worker[w] = Vacant
      /\ UNCHANGED <<item, usage, made, miscounted, loose>>
  BY <1>1 DEF RunStarts, Moves
<1>4. crowded' = (crowded \/ \E v \in Workers : worker[v].kind = "cron")
  BY DEF RunStarts
<1>5. crowded' \in BOOLEAN
  BY <1>4
<1>6. /\ item' \in [Items -> NewsItem] /\ usage' \in Nat /\ made' \in Nat
      /\ miscounted' \in BOOLEAN
  BY <1>3 DEF NewsTypeOK
<1> HIDE DEF state
<1>7. NewsTypeOK' /\ worker'[w] = state /\ Others(w)
  BY <1>2, <1>3, <1>5, <1>6, MovedTyped
<1> QED
  BY <1>2, <1>3, <1>4, <1>7, PointOf

LEMMA NextItemDoes ==
    ASSUME NewsTypeOK, NEW w \in Workers, NextItem(w)
    PROVE  /\ NewsTypeOK' /\ Others(w) /\ worker[w].at = "check" /\ worker[w].kind = "cron"
           /\ \/ IsDone(w)
              \/ usage < MaxPerDay /\ worker'[w].kind = "cron" /\ worker'[w].at = "claim"
           /\ UNCHANGED <<item, usage, made, crowded, miscounted, loose>>
<1>1. /\ UNCHANGED <<item, usage, made, crowded, miscounted, loose>>
      /\ worker[w].at = "check" /\ worker[w].kind = "cron"
  BY PointOf DEF NextItem
<1>2. /\ item' \in [Items -> NewsItem] /\ usage' \in Nat /\ made' \in Nat
      /\ crowded' \in BOOLEAN /\ miscounted' \in BOOLEAN
  BY <1>1 DEF NewsTypeOK
<1>3. CASE worker[w].queue = {} \/ ~Room(usage)
  <2>1. Ends(w)
    BY <1>3 DEF NextItem
  <2> QED
    BY <1>1, <1>2, <2>1, Ending DEF IsDone
<1>4. CASE ~(worker[w].queue = {} \/ ~Room(usage))
  <2>1. PICK i \in worker[w].queue :
          worker' = [worker EXCEPT ![w].queue = @ \ {i}, ![w].item = i, ![w].at = "claim"]
    BY <1>4 DEF NextItem
  <2> DEFINE state == [worker[w] EXCEPT !.queue = @ \ {i}, !.item = i, !.at = "claim"]
  <2>2. Placed(worker[w])
    BY WorkerPlaced
  <2>3. Placed(state) /\ state.kind = "cron" /\ state.at = "claim"
    <3>1. i \in Items /\ worker[w].queue \ {i} \in SUBSET Items /\ worker[w] \in WorkerState
      BY <2>2 DEF Placed, WorkerState
    <3>2. /\ state \in WorkerState /\ state.kind = worker[w].kind /\ state.at = "claim"
          /\ state.item = i
      BY <3>1 DEF WorkerState, AllPoints, CronPoints
    <3> HIDE DEF state
    <3> QED
      BY <1>1, <3>1, <3>2 DEF Placed, Points, CronPoints
  <2>4. Moves(w, state)
    BY <2>1 DEF Moves, NewsTypeOK
  <2>5. usage < MaxPerDay
    BY <1>4, NewsroomAssumption DEF Room, CapReached, NewsTypeOK
  <2> HIDE DEF state
  <2>6. NewsTypeOK' /\ worker'[w] = state /\ Others(w)
    BY <1>2, <2>3, <2>4, MovedTyped
  <2> QED
    BY <1>1, <2>3, <2>5, <2>6
<1> QED
  BY <1>3, <1>4

LEMMA ClaimDoes ==
    ASSUME NewsTypeOK, NEW w \in Workers, NEW i, i = worker[w].item, Claim(w)
    PROVE  /\ NewsTypeOK' /\ worker[w].at = "claim" /\ worker[w].kind = "cron" /\ i \in Items
           /\ \/ item' = item /\ GoesOn(w, "check")
              \/ /\ item[i].status = "DISCOVERED" /\ Wrote(i, "PROCESSING")
                 /\ \/ item[i].facts = "given" /\ GoesOn(w, "generate")
                    \/ GoesOn(w, "extract")
           /\ UNCHANGED <<usage, made, crowded, miscounted, loose>>
<1>1. /\ worker[w].at = "claim" /\ worker[w].kind = "cron" /\ i \in Items
      /\ UNCHANGED <<usage, made, crowded, miscounted, loose>>
  BY PointOf DEF Claim
<1>2. /\ usage' \in Nat /\ made' \in Nat /\ crowded' \in BOOLEAN /\ miscounted' \in BOOLEAN
  BY <1>1 DEF NewsTypeOK
<1>3. {"check", "generate", "extract"} \subseteq Points[worker[w].kind]
  BY <1>1 DEF Points, CronPoints
<1>4. CASE ~Claimable(i)
  <2>1. item' = item /\ Goes(w, "check") /\ item' \in [Items -> NewsItem]
    BY <1>4 DEF Claim, NewsTypeOK
  <2> QED
    BY <1>1, <1>2, <1>3, <2>1, Going
<1>5. CASE Claimable(i)
  <2>1. Becomes(i, "PROCESSING") /\ item[i].status = "DISCOVERED"
    BY <1>5 DEF Claim, Claimable
  <2>2. item' \in [Items -> NewsItem] /\ Wrote(i, "PROCESSING")
    BY <1>1, <2>1, Becoming DEF Wrote, NewsStatuses
  <2>3. CASE item[i].facts = "given"
    <3>1. Goes(w, "generate")
      BY <1>5, <2>3 DEF Claim
    <3> QED
      BY <1>1, <1>2, <1>3, <2>1, <2>2, <2>3, <3>1, Going
  <2>4. CASE item[i].facts # "given"
    <3>1. Goes(w, "extract")
      BY <1>5, <2>4 DEF Claim
    <3> QED
      BY <1>1, <1>2, <1>3, <2>1, <2>2, <3>1, Going
  <2> QED
    BY <2>3, <2>4
<1> QED
  BY <1>4, <1>5

LEMMA ExtractedDoes ==
    ASSUME NewsTypeOK, NEW w \in Workers, NEW i, i = worker[w].item, Extracted(w)
    PROVE  /\ NewsTypeOK' /\ worker[w].at = "extract" /\ worker[w].kind = "cron" /\ i \in Items
           /\ \A j \in Items \ {i} : item'[j] = item[j]
           /\ \/ item'[i].status = "FILTERED" /\ GoesOn(w, "check")
              \/ item'[i].status \in {"FILTERED", "DUPLICATE"} /\ GoesOn(w, "bill")
              \/ item' = item /\ GoesOn(w, "generate")
           /\ UNCHANGED <<usage, made, crowded, miscounted, loose>>
<1>1. /\ worker[w].at = "extract" /\ worker[w].kind = "cron" /\ i \in Items
      /\ UNCHANGED <<usage, made, crowded, miscounted, loose>>
  BY PointOf DEF Extracted
<1>2. /\ usage' \in Nat /\ made' \in Nat /\ crowded' \in BOOLEAN /\ miscounted' \in BOOLEAN
  BY <1>1 DEF NewsTypeOK
<1>3. {"check", "generate", "bill"} \subseteq Points[worker[w].kind]
  BY <1>1 DEF Points, CronPoints
<1>4. \/ Becomes(i, "FILTERED") /\ Goes(w, "check")
      \/ item' = [item EXCEPT ![i].status = "FILTERED", ![i].facts = "extracted"] /\ Goes(w, "bill")
      \/ /\ item' = [item EXCEPT ![i] = [status |-> "DUPLICATE", facts |-> "extracted", keyed |-> TRUE]]
         /\ Goes(w, "bill")
      \/ item' = item /\ Goes(w, "generate")
  BY DEF Extracted
<1>5. CASE Becomes(i, "FILTERED") /\ Goes(w, "check")
  <2>1. item' \in [Items -> NewsItem] /\ Wrote(i, "FILTERED")
    BY <1>1, <1>5, Becoming DEF Wrote, NewsStatuses
  <2> QED
    BY <1>1, <1>2, <1>3, <1>5, <2>1, Going DEF Wrote
<1>6. CASE /\ item' = [item EXCEPT ![i].status = "FILTERED", ![i].facts = "extracted"]
           /\ Goes(w, "bill")
  <2>1. /\ item' \in [Items -> NewsItem] /\ item'[i].status = "FILTERED"
        /\ \A j \in Items \ {i} : item'[j] = item[j]
    BY <1>1, <1>6 DEF NewsTypeOK, NewsItem, NewsStatuses
  <2> QED
    BY <1>1, <1>2, <1>3, <1>6, <2>1, Going
<1>7. CASE /\ item' = [item EXCEPT ![i] = [status |-> "DUPLICATE", facts |-> "extracted", keyed |-> TRUE]]
           /\ Goes(w, "bill")
  <2>1. /\ item' \in [Items -> NewsItem] /\ item'[i].status = "DUPLICATE"
        /\ \A j \in Items \ {i} : item'[j] = item[j]
    BY <1>1, <1>7 DEF NewsTypeOK, NewsItem, NewsStatuses
  <2> QED
    BY <1>1, <1>2, <1>3, <1>7, <2>1, Going
<1>8. CASE item' = item /\ Goes(w, "generate")
  <2>1. item' \in [Items -> NewsItem]
    BY <1>8 DEF NewsTypeOK
  <2> QED
    BY <1>1, <1>2, <1>3, <1>8, <2>1, Going
<1> QED
  BY <1>4, <1>5, <1>6, <1>7, <1>8

LEMMA GeneratedDoes ==
    ASSUME NewsTypeOK, NEW w \in Workers, NEW i, i = worker[w].item, Generated(w)
    PROVE  /\ NewsTypeOK' /\ worker[w].at = "generate" /\ worker[w].kind = "cron" /\ i \in Items
           /\ GoesOn(w, "count")
           /\ \A j \in Items \ {i} : item'[j] = item[j]
           /\ item'[i].status = "PENDING_REVIEW"
           /\ item[i].facts = "given" => item'[i].facts = "given"
           /\ item[i].facts # "given" /\ i \notin keyless => item'[i].keyed
           /\ made' = IF miscounted THEN made ELSE made + 1
           /\ UNCHANGED <<usage, crowded, miscounted, loose>>
<1>1. /\ worker[w].at = "generate" /\ worker[w].kind = "cron" /\ i \in Items
      /\ UNCHANGED <<usage, crowded, miscounted, loose>> /\ Goes(w, "count")
      /\ made' = IF miscounted THEN made ELSE made + 1
  BY PointOf DEF Generated
<1>2. usage' \in Nat /\ made' \in Nat /\ crowded' \in BOOLEAN /\ miscounted' \in BOOLEAN
  BY <1>1 DEF NewsTypeOK
<1>3. "count" \in Points[worker[w].kind]
  BY <1>1 DEF Points, CronPoints
<1>4. item' = [item EXCEPT ![i] = IF @.facts = "given" THEN [@ EXCEPT !.status = "PENDING_REVIEW"]
                                  ELSE [status |-> "PENDING_REVIEW", facts |-> "extracted",
                                        keyed |-> i \notin keyless]]
  BY DEF Generated
<1>5. /\ item' \in [Items -> NewsItem]
      /\ \A j \in Items \ {i} : item'[j] = item[j]
      /\ item'[i].status = "PENDING_REVIEW"
      /\ item[i].facts = "given" => item'[i].facts = "given"
      /\ item[i].facts # "given" /\ i \notin keyless => item'[i].keyed
  <2>1. item \in [Items -> NewsItem] /\ item[i] \in NewsItem
    BY <1>1 DEF NewsTypeOK
  <2>2. CASE item[i].facts = "given"
    <3>1. item' = [item EXCEPT ![i] = [item[i] EXCEPT !.status = "PENDING_REVIEW"]]
      BY <1>1, <1>4, <2>1, <2>2
    <3> QED
      BY <1>1, <2>1, <2>2, <3>1 DEF NewsItem, NewsStatuses
  <2>3. CASE item[i].facts # "given"
    <3>1. item' = [item EXCEPT ![i] = [status |-> "PENDING_REVIEW", facts |-> "extracted",
                                       keyed |-> i \notin keyless]]
      BY <1>1, <1>4, <2>1, <2>3
    <3> QED
      BY <1>1, <2>1, <2>3, <3>1 DEF NewsItem, NewsStatuses
  <2> QED
    BY <2>2, <2>3
<1> QED
  BY <1>1, <1>2, <1>3, <1>5, Going

LEMMA CountReadDoes ==
    ASSUME NewsTypeOK, NEW w \in Workers, CountRead(w)
    PROVE  /\ NewsTypeOK' /\ Others(w) /\ worker[w].at \in {"count", "bill"}
           /\ worker'[w].kind = worker[w].kind /\ worker'[w].item = worker[w].item
           /\ worker'[w].at = (IF worker[w].at = "count" THEN "counting" ELSE "billing")
           /\ worker'[w].read = usage
           /\ miscounted' = (miscounted \/ \E v \in Workers : worker[v].at \in Counting)
           /\ UNCHANGED <<item, usage, made, crowded, loose>>
<1> DEFINE at == IF worker[w].at = "count" THEN "counting" ELSE "billing"
           state == [worker[w] EXCEPT !.read = usage, !.at = at]
<1>1. /\ worker[w].at \in {"count", "bill"} /\ UNCHANGED <<item, usage, made, crowded, loose>>
      /\ miscounted' = (miscounted \/ \E v \in Workers : worker[v].at \in Counting)
      /\ worker' = [worker EXCEPT ![w].read = usage,
                                 ![w].at = IF @ = "count" THEN "counting" ELSE "billing"]
  BY DEF CountRead
<1>2. miscounted' \in BOOLEAN
  BY <1>1
<1>3. item' \in [Items -> NewsItem] /\ usage' \in Nat /\ made' \in Nat /\ crowded' \in BOOLEAN
  BY <1>1 DEF NewsTypeOK
<1>4. Placed(worker[w]) /\ usage \in Nat
  BY WorkerPlaced DEF NewsTypeOK
<1>5. /\ state.kind = worker[w].kind /\ state.item = worker[w].item /\ state.at = at
      /\ state.read = usage /\ state \in WorkerState
  BY <1>4 DEF Placed, WorkerState, AllPoints, CronPoints
<1>6. at \in Points[worker[w].kind]
  BY <1>1, <1>4 DEF Placed, WorkerState, Points, CronPoints
<1>7. Moves(w, state)
  BY <1>1 DEF Moves, NewsTypeOK
<1> HIDE DEF state
<1>8. Placed(state)
  BY <1>1, <1>4, <1>5, <1>6 DEF Placed
<1> QED
  BY <1>1, <1>2, <1>3, <1>5, <1>7, <1>8, MovedTyped

LEMMA CountWrittenDoes ==
    ASSUME NewsTypeOK, NEW w \in Workers, CountWritten(w)
    PROVE  /\ NewsTypeOK' /\ Others(w) /\ worker[w].at \in Counting
           /\ worker'[w].kind = worker[w].kind /\ worker'[w].item = worker[w].item
           /\ worker'[w].at \in {"check", "insert", "save"}
           /\ usage' = worker[w].read + (IF worker[w].at = "counting" THEN 1 ELSE 0)
           /\ UNCHANGED <<item, made, crowded, miscounted, loose>>
<1> DEFINE at == CASE worker[w].kind = "cron"   -> "check"
                   [] worker[w].kind = "search" -> "insert"
                   [] worker[w].kind = "editor" -> "save"
           state == [worker[w] EXCEPT !.read = 0, !.at = at]
<1>1. /\ worker[w].at \in Counting /\ UNCHANGED <<item, made, crowded, miscounted, loose>>
      /\ usage' = worker[w].read + (IF worker[w].at = "counting" THEN 1 ELSE 0)
  BY DEF CountWritten
<1>2. worker' = [worker EXCEPT ![w].read = 0, ![w].at = at]
  BY DEF CountWritten
<1>3. Placed(worker[w])
  BY WorkerPlaced
<1>4. usage' \in Nat
  BY <1>1, <1>3 DEF Placed, WorkerState
<1>5. item' \in [Items -> NewsItem] /\ made' \in Nat /\ crowded' \in BOOLEAN /\ miscounted' \in BOOLEAN
  BY <1>1 DEF NewsTypeOK
<1>6. /\ at \in {"check", "insert", "save"} /\ at \in Points[worker[w].kind]
      /\ worker[w].item \in Items \/ at \in {"check", "insert"}
  BY <1>1, <1>3 DEF Placed, WorkerState, Points, CronPoints, Counting
<1> HIDE DEF at
<1>7. Moves(w, state)
  BY <1>2 DEF Moves, NewsTypeOK
<1>8. /\ state.kind = worker[w].kind /\ state.item = worker[w].item /\ state.at = at
      /\ state \in WorkerState
  BY <1>3, <1>6 DEF Placed, WorkerState, AllPoints, CronPoints
<1> HIDE DEF state
<1>9. Placed(state)
  BY <1>6, <1>8 DEF Placed
<1> QED
  BY <1>1, <1>4, <1>5, <1>6, <1>7, <1>8, <1>9, MovedTyped

\* An editor's request begins.
LEMMA RequestBegins ==
    ASSUME NewsTypeOK, NEW w \in Workers, NEW i \in Items,
           NEW kind \in {"editor", "review"}, NEW at \in Points[kind],
           worker[w] = Vacant,
           worker' = [worker EXCEPT ![w] = [Vacant EXCEPT !.kind = kind, !.at = at, !.item = i]],
           item' \in [Items -> NewsItem], UNCHANGED <<usage, made, crowded, miscounted>>
    PROVE  /\ NewsTypeOK' /\ Others(w)
           /\ worker'[w].kind = kind /\ worker'[w].at = at /\ worker'[w].item = i
           /\ worker[w].at = "idle"
<1> DEFINE state == [Vacant EXCEPT !.kind = kind, !.at = at, !.item = i]
<1>1. Placed(state) /\ state.kind = kind /\ state.at = at /\ state.item = i
  <2>1. /\ state.kind = kind /\ state.at = at /\ state.item = i
        /\ at \in AllPoints => state \in WorkerState
    BY DEF Vacant, WorkerState
  <2>2. at \in AllPoints
    BY DEF Points, AllPoints, CronPoints
  <2> HIDE DEF state
  <2> QED
    BY <2>1, <2>2 DEF Placed
<1>2. Moves(w, state)
  BY DEF Moves
<1>3. usage' \in Nat /\ made' \in Nat /\ crowded' \in BOOLEAN /\ miscounted' \in BOOLEAN
  BY DEF NewsTypeOK
<1> HIDE DEF state
<1> QED
  BY <1>1, <1>2, <1>3, MovedTyped, PointOf

LEMMA ReportedDoes ==
    ASSUME NewsTypeOK, NEW w \in Workers, NEW i \in Items, Reported(w, i)
    PROVE  /\ NewsTypeOK' /\ Others(w) /\ OnlyFinds
           /\ worker'[w].kind = "editor" /\ worker'[w].at = "mark" /\ worker'[w].item = i
           /\ worker[w].at = "idle"
           /\ UNCHANGED <<usage, made, crowded, miscounted, loose>>
<1> DEFINE new == [Absent EXCEPT !.status = "DISCOVERED", !.facts = "given"]
<1>1. new \in NewsItem /\ new.status = "DISCOVERED"
  BY DEF Absent, NewsItem, NewsStatuses
<1>2. item' = [item EXCEPT ![i] = IF @ # Absent THEN @ ELSE new]
  BY DEF Reported
<1> HIDE DEF new
<1>3. item' \in [Items -> NewsItem] /\ OnlyFinds
  <2>1. CASE item[i] # Absent
    <3>1. item' = item
      BY <1>2, <2>1 DEF NewsTypeOK
    <3> QED
      BY <3>1 DEF NewsTypeOK, OnlyFinds
  <2>2. CASE item[i] = Absent
    <3>1. item' = [item EXCEPT ![i] = new]
      BY <1>2, <2>2
    <3> QED
      BY <1>1, <2>2, <3>1 DEF NewsTypeOK, OnlyFinds
  <2> QED
    BY <2>1, <2>2
<1>4. /\ worker' = [worker EXCEPT ![w] = [Vacant EXCEPT !.kind = "editor", !.at = "mark", !.item = i]]
      /\ worker[w] = Vacant /\ UNCHANGED <<usage, made, crowded, miscounted, loose>>
  BY DEF Reported
<1>5. "mark" \in Points["editor"]
  BY DEF Points
<1> QED
  BY <1>3, <1>4, <1>5, RequestBegins

LEMMA RequestedDoes ==
    ASSUME NewsTypeOK, NEW w \in Workers, NEW i \in Items, Requested(w, i)
    PROVE  /\ NewsTypeOK' /\ Others(w)
           /\ worker'[w].kind = "editor" /\ worker'[w].at = "mark" /\ worker'[w].item = i
           /\ worker[w].at = "idle"
           /\ UNCHANGED <<item, usage, made, crowded, miscounted, loose>>
<1>1. /\ worker' = [worker EXCEPT ![w] = [Vacant EXCEPT !.kind = "editor", !.at = "mark", !.item = i]]
      /\ worker[w] = Vacant /\ UNCHANGED <<item, usage, made, crowded, miscounted, loose>>
  BY DEF Requested
<1>2. "mark" \in Points["editor"] /\ item' \in [Items -> NewsItem]
  BY <1>1 DEF Points, NewsTypeOK
<1> QED
  BY <1>1, <1>2, RequestBegins

LEMMA ReviewedDoes ==
    ASSUME NewsTypeOK, NEW w \in Workers, NEW i \in Items, NEW verdict, Reviewed(w, i, verdict)
    PROVE  /\ NewsTypeOK' /\ Others(w)
           /\ worker'[w].kind = "review" /\ worker'[w].item = i
           /\ \/ worker'[w].at = "post" /\ item[i].status = "PENDING_REVIEW"
              \/ worker'[w].at = "reject"
           /\ worker[w].at = "idle"
           /\ UNCHANGED <<item, usage, made, crowded, miscounted, loose>>
<1> DEFINE at == IF verdict = "promote" THEN "post" ELSE "reject"
<1>1. /\ worker' = [worker EXCEPT ![w] = [Vacant EXCEPT !.kind = "review", !.at = at, !.item = i]]
      /\ worker[w] = Vacant /\ UNCHANGED <<item, usage, made, crowded, miscounted, loose>>
  BY DEF Reviewed, Vacant
<1>2. at = "reject" \/ (at = "post" /\ item[i].status = "PENDING_REVIEW")
  BY DEF Reviewed
<1>3. at \in Points["review"] /\ item' \in [Items -> NewsItem]
  BY <1>1 DEF Points, NewsTypeOK
<1> HIDE DEF at
<1> QED
  BY <1>1, <1>2, <1>3, RequestBegins

LEMMA MarkedDoes ==
    ASSUME NewsTypeOK, NEW w \in Workers, NEW i, i = worker[w].item, Marked(w)
    PROVE  /\ NewsTypeOK' /\ worker[w].at = "mark" /\ worker[w].kind = "editor" /\ i \in Items
           /\ \/ item' = item /\ IsDone(w)
              \/ Wrote(i, "PROCESSING") /\ GoesOn(w, "bill")
           /\ loose' = loose \cup {i}
           /\ UNCHANGED <<usage, made, crowded, miscounted>>
<1>1. /\ worker[w].at = "mark" /\ worker[w].kind = "editor" /\ i \in Items
      /\ loose' = loose \cup {i} /\ UNCHANGED <<usage, made, crowded, miscounted>>
  BY PointOf DEF Marked
<1>2. /\ usage' \in Nat /\ made' \in Nat /\ crowded' \in BOOLEAN /\ miscounted' \in BOOLEAN
  BY <1>1 DEF NewsTypeOK
<1>3. CASE Ends(w) /\ UNCHANGED item
  <2>1. item' \in [Items -> NewsItem]
    BY <1>3 DEF NewsTypeOK
  <2> QED
    BY <1>1, <1>2, <1>3, <2>1, Ending
<1>4. CASE Becomes(i, "PROCESSING") /\ Goes(w, "bill")
  <2>1. item' \in [Items -> NewsItem] /\ Wrote(i, "PROCESSING")
    BY <1>1, <1>4, Becoming DEF Wrote, NewsStatuses
  <2>2. "bill" \in Points[worker[w].kind]
    BY <1>1 DEF Points
  <2> QED
    BY <1>1, <1>2, <1>4, <2>1, <2>2, Going
<1> QED
  BY <1>3, <1>4 DEF Marked

\* Nobody else is at an item that only one has.
Alone(i, w) == \A v \in Workers \ {w} : worker[v].item = i => worker[v].at \in {"idle", "claim"}

LEMMA SharedOrAlone ==
    ASSUME NewsTypeOK, NEW i, NEW w \in Workers, Shared(i, w)
    PROVE  loose \subseteq loose' /\ (i \in loose' \/ Alone(i, w))
<1>1. CASE Having(i, w) = {}
  <2>1. ASSUME NEW v \in Workers \ {w}, worker[v].item = i PROVE worker[v].at \in {"idle", "claim"}
    BY <1>1, <2>1, PointOf DEF Having, Busy
  <2> QED
    BY <1>1, <2>1 DEF Shared, Alone
<1>2. CASE Having(i, w) # {}
  BY <1>2 DEF Shared
<1> QED
  BY <1>1, <1>2

LEMMA RegeneratedDoes ==
    ASSUME NewsTypeOK, NEW w \in Workers, NEW i, i = worker[w].item, Regenerated(w)
    PROVE  /\ NewsTypeOK' /\ worker[w].at = "save" /\ worker[w].kind = "editor" /\ i \in Items
           /\ Wrote(i, "PENDING_REVIEW") /\ IsDone(w) /\ loose \subseteq loose'
           /\ UNCHANGED <<usage, made, crowded, miscounted>>
<1>1. /\ worker[w].at = "save" /\ worker[w].kind = "editor" /\ i \in Items
      /\ Becomes(i, "PENDING_REVIEW") /\ Ends(w) /\ Shared(i, w)
      /\ UNCHANGED <<usage, made, crowded, miscounted>>
  BY PointOf DEF Regenerated
<1>2. /\ usage' \in Nat /\ made' \in Nat /\ crowded' \in BOOLEAN /\ miscounted' \in BOOLEAN
  BY <1>1 DEF NewsTypeOK
<1>3. item' \in [Items -> NewsItem] /\ Wrote(i, "PENDING_REVIEW")
  BY <1>1, Becoming DEF Wrote, NewsStatuses
<1> QED
  BY <1>1, <1>2, <1>3, Ending, SharedOrAlone

LEMMA PostedDoes ==
    ASSUME NewsTypeOK, NEW w \in Workers, Posted(w)
    PROVE  /\ NewsTypeOK' /\ worker[w].at = "post" /\ worker[w].kind = "review"
           /\ IsDone(w) \/ GoesOn(w, "promote")
           /\ UNCHANGED <<item, usage, made, crowded, miscounted, loose>>
<1>1. /\ worker[w].at = "post" /\ worker[w].kind = "review" /\ worker[w].item \in Items
      /\ Ends(w) \/ Goes(w, "promote")
      /\ UNCHANGED <<item, usage, made, crowded, miscounted, loose>>
  BY PointOf DEF Posted
<1>2. /\ usage' \in Nat /\ made' \in Nat /\ crowded' \in BOOLEAN /\ miscounted' \in BOOLEAN
      /\ item' \in [Items -> NewsItem]
  BY <1>1 DEF NewsTypeOK
<1>3. "promote" \in Points[worker[w].kind]
  BY <1>1 DEF Points
<1> QED
  BY <1>1, <1>2, <1>3, Ending, Going

LEMMA SettledDoes ==
    ASSUME NewsTypeOK, NEW w \in Workers, NEW i, i = worker[w].item, Settled(w)
    PROVE  /\ NewsTypeOK' /\ worker[w].at \in {"promote", "reject"} /\ i \in Items
           /\ worker[w].kind = "review"
           /\ \/ item' = item
              \/ Wrote(i, IF worker[w].at = "promote" THEN "PROMOTED" ELSE "REJECTED")
           /\ IsDone(w) /\ loose \subseteq loose' /\ (i \in loose' \/ Alone(i, w))
           /\ UNCHANGED <<usage, made, crowded, miscounted>>
<1>1. /\ worker[w].at \in {"promote", "reject"} /\ i \in Items /\ worker[w].kind = "review"
      /\ Ends(w) /\ Shared(i, w) /\ UNCHANGED <<usage, made, crowded, miscounted>>
      /\ \/ item' = item
         \/ Becomes(i, IF worker[w].at = "promote" THEN "PROMOTED" ELSE "REJECTED")
  BY PointOf DEF Settled
<1>2. /\ usage' \in Nat /\ made' \in Nat /\ crowded' \in BOOLEAN /\ miscounted' \in BOOLEAN
  BY <1>1 DEF NewsTypeOK
<1>3. /\ item' \in [Items -> NewsItem]
      /\ \/ item' = item
         \/ Wrote(i, IF worker[w].at = "promote" THEN "PROMOTED" ELSE "REJECTED")
  <2>1. CASE item' = item
    BY <2>1 DEF NewsTypeOK
  <2>2. CASE Becomes(i, IF worker[w].at = "promote" THEN "PROMOTED" ELSE "REJECTED")
    BY <1>1, <2>2, Becoming DEF Wrote, NewsStatuses
  <2> QED
    BY <1>1, <2>1, <2>2
<1> QED
  BY <1>1, <1>2, <1>3, Ending, SharedOrAlone

LEMMA FailsDoes ==
    ASSUME NewsTypeOK, NEW w \in Workers, NEW i, i = worker[w].item, Fails(w)
    PROVE  /\ NewsTypeOK' /\ i \in Items
           /\ worker[w].kind = "cron" \/ (worker[w].kind = "editor" /\ worker[w].at # "mark")
           /\ worker[w].at \in Working /\ Wrote(i, "FAILED")
           /\ IsDone(w) \/ GoesOn(w, "check")
           /\ loose \subseteq loose' /\ (i \in loose' \/ Alone(i, w))
           /\ miscounted' = (miscounted \/ worker[w].at \in {"count", "counting"})
           /\ UNCHANGED <<usage, made, crowded>>
<1>1. /\ worker[w].kind \in {"cron", "editor"} /\ worker[w].at \in Working
      /\ worker[w].at \notin {"mark", "idle", "check", "insert"}
      /\ Becomes(i, "FAILED") /\ Shared(i, w) /\ UNCHANGED <<usage, made, crowded>>
      /\ miscounted' = (miscounted \/ worker[w].at \in {"count", "counting"})
  BY DEF Fails, Working, Counting, Recorded, Becomes
<1>2. i \in Items
  BY <1>1, PointOf
<1>3. miscounted' \in BOOLEAN
  BY <1>1
<1>4. usage' \in Nat /\ made' \in Nat /\ crowded' \in BOOLEAN
  BY <1>1 DEF NewsTypeOK
<1>5. item' \in [Items -> NewsItem] /\ Wrote(i, "FAILED")
  BY <1>1, <1>2, Becoming DEF Wrote, NewsStatuses
<1>6. NewsTypeOK' /\ (IsDone(w) \/ GoesOn(w, "check"))
  <2>1. CASE worker[w].kind = "cron"
    <3>1. Goes(w, "check") /\ "check" \in Points[worker[w].kind]
      BY <2>1 DEF Fails, Returns, Points, CronPoints
    <3> QED
      BY <1>1, <1>3, <1>4, <1>5, <3>1, Going
  <2>2. CASE worker[w].kind # "cron"
    <3>1. Ends(w)
      BY <2>2 DEF Fails, Returns
    <3> QED
      BY <1>3, <1>4, <1>5, <3>1, Ending
  <2> QED
    BY <2>1, <2>2
<1> QED
  BY <1>1, <1>2, <1>5, <1>6, SharedOrAlone

LEMMA DiesDoes ==
    ASSUME NewsTypeOK, NEW w \in Workers, Dies(w)
    PROVE  /\ NewsTypeOK' /\ IsDone(w) /\ miscounted'
           /\ UNCHANGED <<item, usage, made, crowded, loose>>
<1>1. Ends(w) /\ miscounted' = TRUE /\ UNCHANGED <<item, usage, made, crowded, loose>>
  BY DEF Dies
<1>2. /\ usage' \in Nat /\ made' \in Nat /\ crowded' \in BOOLEAN /\ miscounted' \in BOOLEAN
      /\ item' \in [Items -> NewsItem]
  BY <1>1 DEF NewsTypeOK
<1> QED
  BY <1>1, <1>2, Ending

\* Its item removed, a worker stops, or goes on with the next.
LEMMA VanishedDoes ==
    ASSUME NewsTypeOK, NEW w \in Workers, Vanished(w)
    PROVE  /\ NewsTypeOK' /\ (IsDone(w) \/ (worker[w].kind = "cron" /\ GoesOn(w, "check")))
           /\ UNCHANGED <<item, usage, made, crowded, miscounted, loose>>
<1>1. /\ (worker[w].at \in {"extract", "generate", "save"} /\ Returns(w)) \/ Ends(w)
      /\ UNCHANGED <<item, usage, made, crowded, miscounted, loose>>
  BY DEF Vanished
<1>2. /\ usage' \in Nat /\ made' \in Nat /\ crowded' \in BOOLEAN /\ miscounted' \in BOOLEAN
      /\ item' \in [Items -> NewsItem]
  BY <1>1 DEF NewsTypeOK
<1>3. CASE Ends(w)
  BY <1>1, <1>2, <1>3, Ending
<1>4. CASE ~Ends(w)
  <2>1. worker[w].kind = "cron" /\ Goes(w, "check") /\ "check" \in Points[worker[w].kind]
    BY <1>1, <1>4 DEF Returns, Points, CronPoints
  <2> QED
    BY <1>1, <1>2, <2>1, Going
<1> QED
  BY <1>3, <1>4

LEMMA RemovedDoes ==
    ASSUME NewsTypeOK, NEW i \in Items, Removed(i)
    PROVE  /\ NewsTypeOK' /\ \A j \in Items \ {i} : item'[j] = item[j]
           /\ item'[i] = Gone /\ loose' = loose \cup {i}
           /\ UNCHANGED <<usage, worker, made, crowded, miscounted>>
<1>1. /\ item' = [item EXCEPT ![i] = Gone] /\ loose' = loose \cup {i}
      /\ UNCHANGED <<usage, worker, made, crowded, miscounted>>
  BY DEF Removed
<1>2. Gone \in NewsItem
  BY DEF Gone, Absent, NewsItem, NewsStatuses
<1>3. /\ item' \in [Items -> NewsItem] /\ item'[i] = Gone
      /\ \A j \in Items \ {i} : item'[j] = item[j]
  BY <1>1, <1>2 DEF NewsTypeOK
<1> QED
  BY <1>1, <1>3 DEF NewsTypeOK

-----------------------------------------------------------------------------
(* Hands.                                                                  *)

\* What may change of an item when w takes a step: one that nobody has, one that w
\* has in hand, or one that is loose.
Spared(w) ==
    \A j \in Items :
        \/ item'[j].status = item[j].status
        \/ item[j].status \in {"absent", "DISCOVERED"}
        \/ j \in loose'
        \/ j = worker[w].item /\ (worker[w].at \in InHand \/ Alone(j, w))

LEMMA HandsKept ==
    ASSUME HandsInv, NewsTypeOK', NEW w \in Workers, Others(w), loose \subseteq loose', Spared(w),
           Knows(w)',
           worker'[w].at \in InHand =>
               \/ worker[w].at \in InHand /\ worker'[w].item = worker[w].item
               \/ item[worker'[w].item].status # "PROCESSING"
    PROVE  HandsInv'
<1>1. ASSUME NEW v \in Workers \ {w} PROVE Knows(v)'
  <2> DEFINE i == worker[v].item
  <2>1. worker'[v] = worker[v] /\ Knows(v)
    BY <1>1 DEF Others, HandsInv
  <2>2. CASE i \in loose'
    BY <2>1, <2>2 DEF Knows
  <2>3. CASE i \notin loose' /\ i \in Items
    <3>1. i \notin loose
      BY <2>3
    <3>2. CASE item'[i].status = item[i].status
      BY <2>1, <2>3, <3>1, <3>2 DEF Knows
    <3>3. CASE item[i].status \in {"absent", "DISCOVERED"}
      BY <2>1, <2>3, <3>1, <3>3 DEF Knows
    <3>4. CASE i = worker[w].item /\ worker[w].at \in InHand
      <4>1. item[i].status = "PROCESSING"
        BY <3>1, <3>4 DEF HandsInv, Knows
      <4>2. worker[v].at \notin InHand
        BY <1>1, <3>1, <3>4 DEF HandsInv, OneHand
      <4> QED
        BY <2>1, <2>3, <3>1, <4>1, <4>2 DEF Knows
    <3>5. CASE i = worker[w].item /\ Alone(i, w)
      <4>1. worker[v].at \in {"idle", "claim"}
        BY <1>1, <3>5 DEF Alone
      <4> QED
        BY <2>1, <2>3, <3>1, <4>1 DEF Knows, InHand, ToCount
    <3> QED
      BY <2>3, <3>2, <3>3, <3>4, <3>5 DEF Spared
  <2>4. CASE i \notin Items
    <3>1. \/ worker[v].at \in {"idle", "check", "insert"} \/ worker[v].kind = "search"
      BY <1>1, <2>4, PointOf DEF HandsInv
    <3>2. worker[v].at \notin InHand \cup {"post", "promote"}
          /\ (worker[v].kind = "cron" => worker[v].at \notin ToCount)
      BY <1>1, <3>1, PointOf DEF HandsInv, InHand, ToCount
    <3>3. worker[v].kind # "editor"
      BY <1>1, <3>1 DEF HandsInv, NewsTypeOK, Points, WorkerState
    <3> QED
      BY <2>1, <3>2, <3>3 DEF Knows
  <2> QED
    BY <2>2, <2>3, <2>4
<1>2. OneHand'
  <2> SUFFICES ASSUME NEW u \in Workers, NEW v \in Workers, worker'[u].at \in InHand,
                      worker'[v].at \in InHand, worker'[u].item = worker'[v].item,
                      worker'[u].item \notin loose', u # v
               PROVE  FALSE
    BY DEF OneHand
  <2>1. CASE u # w /\ v # w
    BY <2>1 DEF Others, HandsInv, OneHand
  <2>2. ASSUME NEW x \in Workers \ {w}, worker'[x].at \in InHand, worker'[w].at \in InHand,
               worker'[x].item = worker'[w].item, worker'[x].item \notin loose'
        PROVE  FALSE
    <3>1. worker[x].at \in InHand /\ worker[x].item = worker'[w].item /\ worker[x].item \notin loose
      BY <2>2 DEF Others
    <3>2. item[worker[x].item].status = "PROCESSING"
      BY <3>1 DEF HandsInv, Knows
    <3> QED
      BY <2>2, <3>1, <3>2 DEF HandsInv, OneHand
  <2> QED
    BY <2>1, <2>2
<1> QED
  BY <1>1, <1>2 DEF HandsInv

LEMMA DoneKnows ==
    ASSUME NEW w \in Workers, IsDone(w)
    PROVE  Knows(w)' /\ worker'[w].at = "idle" /\ worker'[w].kind = "none"
BY DEF IsDone, Vacant, Knows, InHand, ToCount

\* A step that writes no item.
LEMMA QuietHands ==
    ASSUME HandsInv, NewsTypeOK', NEW w \in Workers, Others(w), loose' = loose,
           item' = item \/ OnlyFinds,
           Knows(w)', worker'[w].at \notin InHand
    PROVE  HandsInv'
<1>1. Spared(w)
  BY DEF Spared, OnlyFinds, Absent
<1> QED
  BY <1>1, HandsKept

\* A run's steps with its item.
LEMMA RunHands ==
    ASSUME HandsInv, NEW w \in Workers, Claim(w) \/ Extracted(w) \/ Generated(w)
    PROVE  HandsInv'
<1> DEFINE i == worker[w].item
<1>0. NewsTypeOK /\ Knows(w)
  BY DEF HandsInv
<1>1. CASE Claim(w)
  <2>1. /\ NewsTypeOK' /\ worker[w].at = "claim" /\ worker[w].kind = "cron" /\ i \in Items
        /\ \/ item' = item /\ GoesOn(w, "check")
           \/ /\ item[i].status = "DISCOVERED" /\ Wrote(i, "PROCESSING")
              /\ \/ item[i].facts = "given" /\ GoesOn(w, "generate")
                 \/ GoesOn(w, "extract")
        /\ UNCHANGED <<usage, made, crowded, miscounted, loose>>
    BY <1>0, <1>1, ClaimDoes
  <2>2. CASE item' = item /\ GoesOn(w, "check")
    <3>1. Knows(w)' /\ Others(w) /\ worker'[w].at \notin InHand
      BY <1>0, <2>1, <2>2 DEF GoesOn, Knows, InHand, ToCount
    <3> QED
      BY <2>1, <2>2, <3>1, QuietHands
  <2>3. CASE item[i].status = "DISCOVERED" /\ Wrote(i, "PROCESSING")
             /\ (GoesOn(w, "generate") \/ GoesOn(w, "extract"))
    <3>1. /\ Others(w) /\ worker'[w].item = i /\ worker'[w].kind = "cron"
          /\ worker'[w].at \in InHand
      BY <2>1, <2>3 DEF GoesOn, InHand
    <3>2. Knows(w)'
      BY <2>3, <3>1 DEF Knows, Wrote, InHand, ToCount
    <3>3. Spared(w)
      BY <2>3 DEF Spared, Wrote
    <3> QED
      BY <2>1, <2>3, <3>1, <3>2, <3>3, HandsKept
  <2> QED
    BY <2>1, <2>2, <2>3
<1>2. CASE Extracted(w)
  <2>1. /\ NewsTypeOK' /\ worker[w].at = "extract" /\ worker[w].kind = "cron" /\ i \in Items
        /\ \A j \in Items \ {i} : item'[j] = item[j]
        /\ \/ item'[i].status = "FILTERED" /\ GoesOn(w, "check")
           \/ item'[i].status \in {"FILTERED", "DUPLICATE"} /\ GoesOn(w, "bill")
           \/ item' = item /\ GoesOn(w, "generate")
        /\ UNCHANGED <<usage, made, crowded, miscounted, loose>>
    BY <1>0, <1>2, ExtractedDoes
  <2>2. Spared(w)
    BY <2>1 DEF Spared, InHand
  <2>3. /\ Others(w) /\ worker'[w].kind = "cron" /\ worker'[w].item = i
        /\ \/ worker'[w].at = "check"
           \/ worker'[w].at = "bill" /\ item'[i].status \in {"FILTERED", "DUPLICATE"}
           \/ worker'[w].at = "generate" /\ item' = item
    BY <2>1 DEF GoesOn
  <2>4. Knows(w)'
    BY <1>0, <2>1, <2>3 DEF Knows, InHand, ToCount
  <2> QED
    BY <2>1, <2>2, <2>3, <2>4, HandsKept DEF InHand
<1>3. CASE Generated(w)
  <2>1. /\ NewsTypeOK' /\ worker[w].at = "generate" /\ worker[w].kind = "cron" /\ i \in Items
        /\ GoesOn(w, "count")
        /\ \A j \in Items \ {i} : item'[j] = item[j]
        /\ item'[i].status = "PENDING_REVIEW" /\ loose' = loose
    BY <1>0, <1>3, GeneratedDoes
  <2>2. Spared(w)
    BY <2>1 DEF Spared, InHand
  <2>3. Knows(w)' /\ Others(w) /\ worker'[w].at = "count"
    BY <2>1 DEF Knows, GoesOn, InHand, ToCount
  <2> QED
    BY <2>1, <2>2, <2>3, HandsKept DEF InHand
<1> QED
  BY <1>1, <1>2, <1>3

\* The other steps of the crons, of any item or of none.
LEMMA CronHands ==
    ASSUME HandsInv, NEW w \in Workers,
           \/ NextItem(w) \/ CountRead(w) \/ CountWritten(w) \/ Vanished(w)
           \/ SearchStarts(w) \/ SearchEnds(w) \/ RunStarts(w) \/ Dies(w)
    PROVE  HandsInv'
<1>0. NewsTypeOK /\ Knows(w)
  BY DEF HandsInv
<1>1. CASE NextItem(w)
  <2>1. /\ NewsTypeOK' /\ Others(w) /\ item' = item /\ loose' = loose
        /\ IsDone(w) \/ (worker'[w].kind = "cron" /\ worker'[w].at = "claim")
    BY <1>0, <1>1, NextItemDoes
  <2>2. Knows(w)' /\ worker'[w].at \notin InHand
    BY <2>1, DoneKnows DEF Knows, InHand, ToCount
  <2> QED
    BY <2>1, <2>2, QuietHands
<1>2. CASE CountRead(w)
  <2>1. /\ NewsTypeOK' /\ Others(w) /\ worker[w].at \in {"count", "bill"}
        /\ worker'[w].kind = worker[w].kind /\ worker'[w].item = worker[w].item
        /\ worker'[w].at \in {"counting", "billing"} /\ item' = item /\ loose' = loose
    BY <1>0, <1>2, CountReadDoes
  <2>2. Knows(w)' /\ worker'[w].at \notin InHand
    BY <1>0, <2>1 DEF Knows, InHand, ToCount
  <2> QED
    BY <2>1, <2>2, QuietHands
<1>3. CASE CountWritten(w)
  <2>1. /\ NewsTypeOK' /\ Others(w) /\ worker[w].at \in Counting
        /\ worker'[w].kind = worker[w].kind /\ worker'[w].item = worker[w].item
        /\ worker'[w].at \in {"check", "insert", "save"} /\ item' = item /\ loose' = loose
    BY <1>0, <1>3, CountWrittenDoes
  <2>2. Knows(w)' /\ worker'[w].at \notin InHand
    BY <1>0, <2>1 DEF Knows, InHand, ToCount, Counting
  <2> QED
    BY <2>1, <2>2, QuietHands
<1>4. CASE SearchStarts(w)
  <2>1. /\ NewsTypeOK' /\ Others(w) /\ worker'[w].kind = "search" /\ worker'[w].at = "bill"
        /\ item' = item /\ loose' = loose
    BY <1>0, <1>4, SearchStartsDoes
  <2>2. Knows(w)' /\ worker'[w].at \notin InHand
    BY <2>1 DEF Knows, InHand, ToCount
  <2> QED
    BY <2>1, <2>2, QuietHands
<1>5. CASE SearchEnds(w) \/ Dies(w)
  <2>1. NewsTypeOK' /\ IsDone(w) /\ (item' = item \/ OnlyFinds) /\ loose' = loose
    BY <1>0, <1>5, SearchEndsDoes, DiesDoes
  <2>2. Others(w) /\ Knows(w)' /\ worker'[w].at \notin InHand
    BY <2>1, DoneKnows DEF IsDone, InHand
  <2> QED
    BY <2>1, <2>2, QuietHands
<1>6. CASE RunStarts(w)
  <2>1. /\ NewsTypeOK' /\ Others(w) /\ worker'[w].kind = "cron" /\ worker'[w].at = "check"
        /\ item' = item /\ loose' = loose
    BY <1>0, <1>6, RunStartsDoes
  <2>2. Knows(w)' /\ worker'[w].at \notin InHand
    BY <2>1 DEF Knows, InHand, ToCount
  <2> QED
    BY <2>1, <2>2, QuietHands
<1>7. CASE Vanished(w)
  <2>1. /\ NewsTypeOK' /\ (IsDone(w) \/ (worker[w].kind = "cron" /\ GoesOn(w, "check")))
        /\ item' = item /\ loose' = loose
    BY <1>0, <1>7, VanishedDoes
  <2>2. Knows(w)' /\ Others(w) /\ worker'[w].at \notin InHand
    <3>1. CASE IsDone(w)
      BY <3>1, DoneKnows DEF IsDone, InHand
    <3>2. CASE worker[w].kind = "cron" /\ GoesOn(w, "check")
      BY <3>2 DEF GoesOn, Knows, InHand, ToCount
    <3> QED
      BY <2>1, <3>1, <3>2
  <2> QED
    BY <2>1, <2>2, QuietHands
<1> QED
  BY <1>1, <1>2, <1>3, <1>4, <1>5, <1>6, <1>7

\* The editors', and a failure.
LEMMA DeskHands ==
    ASSUME HandsInv, NEW w \in Workers,
           \/ Marked(w) \/ Regenerated(w) \/ Posted(w) \/ Settled(w) \/ Fails(w)
           \/ \E i \in Items : Requested(w, i)
           \/ \E i \in Items, verdict \in {"promote", "reject"} : Reviewed(w, i, verdict)
           \/ \E i \in Items : Reported(w, i)
    PROVE  HandsInv'
<1> DEFINE i == worker[w].item
<1>0. NewsTypeOK /\ Knows(w)
  BY DEF HandsInv
<1>1. CASE Marked(w)
  <2>1. /\ NewsTypeOK' /\ worker[w].kind = "editor" /\ i \in Items
        /\ \/ item' = item /\ IsDone(w)
           \/ Wrote(i, "PROCESSING") /\ GoesOn(w, "bill")
        /\ loose' = loose \cup {i}
    BY <1>0, <1>1, MarkedDoes
  <2>2. Spared(w)
    BY <2>1 DEF Spared, Wrote
  <2>3. Knows(w)' /\ Others(w) /\ worker'[w].at \notin InHand
    <3>1. CASE IsDone(w)
      BY <3>1, DoneKnows DEF IsDone, InHand
    <3>2. CASE GoesOn(w, "bill")
      BY <2>1, <3>2 DEF GoesOn, Knows, InHand, ToCount
    <3> QED
      BY <2>1, <3>1, <3>2
  <2> QED
    BY <2>1, <2>2, <2>3, HandsKept
<1>2. CASE Regenerated(w)
  <2>1. /\ NewsTypeOK' /\ worker[w].at = "save" /\ worker[w].kind = "editor" /\ i \in Items
        /\ Wrote(i, "PENDING_REVIEW") /\ IsDone(w) /\ loose \subseteq loose'
    BY <1>0, <1>2, RegeneratedDoes
  <2>2. i \in loose'
    BY <1>0, <2>1 DEF Knows
  <2>3. Spared(w)
    BY <2>1, <2>2 DEF Spared, Wrote
  <2>4. Others(w) /\ Knows(w)' /\ worker'[w].at \notin InHand
    BY <2>1, DoneKnows DEF IsDone, InHand
  <2> QED
    BY <2>1, <2>3, <2>4, HandsKept
<1>3. CASE Posted(w)
  <2>1. /\ NewsTypeOK' /\ worker[w].at = "post" /\ worker[w].kind = "review"
        /\ IsDone(w) \/ GoesOn(w, "promote")
        /\ item' = item /\ loose' = loose
    BY <1>0, <1>3, PostedDoes
  <2>2. Knows(w)' /\ Others(w) /\ worker'[w].at \notin InHand
    <3>1. CASE IsDone(w)
      BY <3>1, DoneKnows DEF IsDone, InHand
    <3>2. CASE GoesOn(w, "promote")
      BY <1>0, <2>1, <3>2 DEF GoesOn, Knows, InHand, ToCount
    <3> QED
      BY <2>1, <3>1, <3>2
  <2> QED
    BY <2>1, <2>2, QuietHands
<1>4. CASE Settled(w)
  <2>1. /\ NewsTypeOK' /\ i \in Items /\ (item' = item \/ \E status \in NewsStatuses : Wrote(i, status))
        /\ IsDone(w) /\ loose \subseteq loose' /\ (i \in loose' \/ Alone(i, w))
    BY <1>0, <1>4, SettledDoes DEF NewsStatuses
  <2>2. Spared(w)
    BY <2>1 DEF Spared, Wrote
  <2>3. Others(w) /\ Knows(w)' /\ worker'[w].at \notin InHand
    BY <2>1, DoneKnows DEF IsDone, InHand
  <2> QED
    BY <2>1, <2>2, <2>3, HandsKept
<1>5. CASE Fails(w)
  <2>1. /\ NewsTypeOK' /\ i \in Items
        /\ worker[w].kind = "cron" \/ (worker[w].kind = "editor" /\ worker[w].at # "mark")
        /\ Wrote(i, "FAILED") /\ (IsDone(w) \/ GoesOn(w, "check"))
        /\ loose \subseteq loose' /\ (i \in loose' \/ Alone(i, w))
    BY <1>0, <1>5, FailsDoes
  <2>2. Spared(w)
    BY <2>1 DEF Spared, Wrote
  <2>3. Others(w) /\ Knows(w)' /\ worker'[w].at \notin InHand
    <3>1. CASE IsDone(w)
      BY <3>1, DoneKnows DEF IsDone, InHand
    <3>2. CASE GoesOn(w, "check")
      BY <1>0, <2>1, <3>2 DEF GoesOn, Knows, InHand, ToCount
    <3> QED
      BY <2>1, <3>1, <3>2
  <2> QED
    BY <2>1, <2>2, <2>3, HandsKept
<1>6. ASSUME NEW k \in Items,
             \/ Reported(w, k)
             \/ Requested(w, k)
             \/ \E verdict \in {"promote", "reject"} : Reviewed(w, k, verdict)
      PROVE  HandsInv'
  <2>1. /\ NewsTypeOK' /\ Others(w) /\ (item' = item \/ OnlyFinds) /\ loose' = loose
        /\ \/ worker'[w].kind = "editor" /\ worker'[w].at = "mark"
           \/ worker'[w].kind = "review" /\ worker'[w].at = "reject"
           \/ /\ worker'[w].kind = "review" /\ worker'[w].at = "post" /\ worker'[w].item = k
              /\ item[k].status = "PENDING_REVIEW" /\ item' = item
    BY <1>0, <1>6, ReportedDoes, RequestedDoes, ReviewedDoes
  <2>2. Knows(w)' /\ worker'[w].at \notin InHand
    BY <2>1 DEF Knows, InHand, ToCount
  <2> QED
    BY <2>1, <2>2, QuietHands
<1> QED
  BY <1>1, <1>2, <1>3, <1>4, <1>5, <1>6

LEMMA HandsInit == NewsInit => HandsInv /\ OneCron
<1> SUFFICES ASSUME NewsInit PROVE HandsInv /\ OneCron
  OBVIOUS
<1>1. Absent \in NewsItem /\ Placed(Vacant)
  BY VacantPlaced DEF Absent, NewsItem, NewsStatuses
<1>2. NewsTypeOK
  <2>1. item \in [Items -> NewsItem] /\ worker \in [Workers -> WorkerState]
    BY <1>1 DEF NewsInit, Placed
  <2>2. usage \in Nat /\ made \in Nat /\ {crowded, miscounted} \subseteq BOOLEAN
    BY DEF NewsInit
  <2> QED
    BY <1>1, <2>1, <2>2 DEF NewsTypeOK, NewsInit, Placed
<1>3. \A w \in Workers : worker[w].at = "idle" /\ worker[w].kind = "none"
  BY DEF NewsInit, Vacant
<1> QED
  BY <1>2, <1>3 DEF HandsInv, Knows, OneHand, OneCron, InHand, ToCount

LEMMA HandsStep == HandsInv /\ [NewsNext]_newsVars => HandsInv'
<1> SUFFICES ASSUME HandsInv, [NewsNext]_newsVars PROVE HandsInv'
  OBVIOUS
<1>1. CASE UNCHANGED newsVars
  BY <1>1 DEF newsVars, HandsInv, NewsTypeOK, OneHand, Knows
<1>2. ASSUME NEW i \in Items, Found(i) PROVE HandsInv'
  <2>1. NewsTypeOK' /\ OnlyFinds /\ UNCHANGED <<worker, loose>>
    BY <1>2, FoundDoes DEF HandsInv
  <2>2. ASSUME NEW w \in Workers PROVE HandsInv'
    <3>1. Others(w) /\ Spared(w)
      BY <2>1 DEF Others, Spared, OnlyFinds, Absent
    <3>2. Knows(w)'
      <4>1. CASE worker[w].item \in Items
        BY <2>1, <2>2, <4>1 DEF Knows, HandsInv, OnlyFinds, Absent, InHand, ToCount
      <4>2. CASE worker[w].item \notin Items
        <5>1. worker[w].at \notin InHand \cup {"post", "promote"}
              /\ (worker[w].kind = "cron" => worker[w].at \notin ToCount)
          BY <2>2, <4>2, PointOf DEF HandsInv, InHand, ToCount
        <5> QED
          BY <2>1, <2>2, <5>1 DEF Knows, HandsInv
      <4> QED
        BY <4>1, <4>2
    <3> QED
      BY <2>1, <3>1, <3>2, HandsKept
  <2>3. CASE Workers = {}
    BY <2>1, <2>3 DEF HandsInv, OneHand
  <2> QED
    BY <2>2, <2>3
<1>3. ASSUME NEW i \in Items, Removed(i) PROVE HandsInv'
  <2>1. /\ NewsTypeOK' /\ \A j \in Items \ {i} : item'[j] = item[j]
        /\ loose' = loose \cup {i} /\ worker' = worker
    BY <1>3, RemovedDoes DEF HandsInv
  <2>2. ASSUME NEW w \in Workers PROVE Knows(w)'
    <3>1. Knows(w)
      BY DEF HandsInv
    <3>2. CASE worker[w].item \in Items \ {i}
      BY <2>1, <3>1, <3>2 DEF Knows
    <3>3. CASE worker[w].item = i
      BY <2>1, <3>1, <3>3 DEF Knows
    <3>4. CASE worker[w].item \notin Items
      <4>1. worker[w].at \notin InHand \cup {"post", "promote"}
            /\ (worker[w].kind = "cron" => worker[w].at \notin ToCount)
        BY <2>2, <3>4, PointOf DEF HandsInv, InHand, ToCount
      <4> QED
        BY <2>1, <3>1, <4>1 DEF Knows
    <3> QED
      BY <3>2, <3>3, <3>4
  <2>3. OneHand'
    BY <2>1 DEF HandsInv, OneHand
  <2> QED
    BY <2>1, <2>2, <2>3 DEF HandsInv
<1>4. \A w \in Runs \cup Desks : w \in Workers
  BY DEF Workers
<1> QED
  BY <1>1, <1>2, <1>3, <1>4, RunHands, CronHands, DeskHands DEF NewsNext, Works

\* Whatever overlaps, the robot writes an item only in the hands it has it in: what
\* an editor rejected or promoted in NewsItemsService stays so, unless an editor had
\* it generated again or two wrote it at once.
THEOREM VerdictsAlwaysStand == NewsSpec => VerdictStands
<1> DEFINE Verdict == {"REJECTED", "PROMOTED"}
<1>1. ASSUME HandsInv, NewsNext, NEW i \in Items, item[i].status \in Verdict, item'[i] # item[i]
      PROVE  i \in loose' \/ item'[i].status \in Verdict
  <2>0. NewsTypeOK
    BY <1>1 DEF HandsInv
  <2>1. ~OnlyFinds /\ item' # item
    BY <1>1 DEF OnlyFinds, Absent
  <2>2. ASSUME NEW w \in Workers, Claim(w) \/ Extracted(w) \/ Generated(w)
        PROVE  i \in loose'
    <3>1. /\ loose' = loose /\ i = worker[w].item
          /\ item[i].status = "DISCOVERED" \/ worker[w].at \in InHand
      BY <1>1, <2>0, <2>1, <2>2, ClaimDoes, ExtractedDoes, GeneratedDoes DEF Wrote, InHand
    <3> QED
      BY <1>1, <3>1 DEF HandsInv, Knows
  <2>3. ASSUME NEW w \in Workers, Marked(w) PROVE i \in loose'
    BY <1>1, <2>0, <2>1, <2>3, MarkedDoes DEF Wrote
  <2>4. ASSUME NEW w \in Workers, Regenerated(w) PROVE i \in loose'
    <3>1. /\ worker[w].kind = "editor" /\ worker[w].at = "save" /\ i = worker[w].item
          /\ loose \subseteq loose'
      BY <1>1, <2>0, <2>4, RegeneratedDoes DEF Wrote
    <3> QED
      BY <1>1, <3>1 DEF HandsInv, Knows
  <2>5. ASSUME NEW w \in Workers, Settled(w) PROVE item'[i].status \in Verdict
    BY <1>1, <2>0, <2>1, <2>5, SettledDoes DEF Wrote
  <2>6. ASSUME NEW w \in Workers, Fails(w) PROVE i \in loose'
    <3>1. /\ worker[w].kind = "cron" \/ (worker[w].kind = "editor" /\ worker[w].at # "mark")
          /\ worker[w].at \in Working /\ i = worker[w].item /\ loose \subseteq loose'
      BY <1>1, <2>0, <2>6, FailsDoes DEF Wrote
    <3>2. CASE worker[w].kind = "editor" /\ worker[w].at # "mark"
      BY <1>1, <3>1, <3>2 DEF HandsInv, Knows
    <3>3. CASE worker[w].kind = "cron"
      <4>1. worker[w].at \in InHand \cup ToCount
        BY <2>0, <2>6, <3>1, <3>3, PointOf DEF Working, Counting, InHand, ToCount
      <4> QED
        BY <1>1, <2>6, <3>1, <3>3, <4>1 DEF HandsInv, Knows
    <3> QED
      BY <3>1, <3>2, <3>3
  <2>7. ASSUME NEW w \in Workers,
               \/ NextItem(w) \/ CountRead(w) \/ CountWritten(w) \/ Posted(w)
               \/ SearchStarts(w) \/ SearchEnds(w) \/ RunStarts(w) \/ Dies(w) \/ Vanished(w)
               \/ \E k \in Items : Requested(w, k)
               \/ \E k \in Items, verdict \in {"promote", "reject"} : Reviewed(w, k, verdict)
               \/ \E k \in Items : Reported(w, k)
        PROVE  FALSE
    <3>1. CASE NextItem(w) \/ CountRead(w) \/ CountWritten(w) \/ Posted(w) \/ SearchStarts(w)
      BY <2>0, <2>1, <2>7, <3>1, NextItemDoes, CountReadDoes, CountWrittenDoes, PostedDoes,
         SearchStartsDoes
    <3>2. CASE SearchEnds(w) \/ RunStarts(w) \/ Dies(w) \/ Vanished(w)
      BY <2>0, <2>1, <2>7, <3>2, SearchEndsDoes, RunStartsDoes, DiesDoes, VanishedDoes
    <3> QED
      BY <2>0, <2>1, <2>7, <3>1, <3>2, RequestedDoes, ReviewedDoes, ReportedDoes
  <2>8. ASSUME NEW k \in Items, Found(k) PROVE FALSE
    BY <2>0, <2>1, <2>8, FoundDoes
  <2>9. ASSUME NEW k \in Items, Removed(k) PROVE i \in loose'
    BY <1>1, <2>0, <2>9, RemovedDoes
  <2>10. \A w \in Runs \cup Desks : w \in Workers
    BY DEF Workers
  <2> QED
    BY <1>1, <2>2, <2>3, <2>4, <2>5, <2>6, <2>7, <2>8, <2>9, <2>10 DEF NewsNext, Works
<1>2. HandsInv /\ [NewsNext]_newsVars =>
        [\A i \in Items :
            /\ item[i].status \in {"REJECTED", "PROMOTED"} /\ item'[i] # item[i]
            => \/ i \in loose'
               \/ item'[i].status \in {"REJECTED", "PROMOTED"}]_newsVars
  BY <1>1
<1> QED
  BY <1>2, HandsInit, HandsStep, PTL DEF NewsSpec, VerdictStands

-----------------------------------------------------------------------------
(* One run of the cron at a time, as long as nothing else is seen.         *)

\* A worker's step, but the start of a run.
Step(w) ==
    \/ Works(w) \/ Fails(w) \/ Dies(w) \/ SearchStarts(w)
    \/ \E i \in Items :
         \/ Reported(w, i)
         \/ Requested(w, i)
         \/ \E verdict \in {"promote", "reject"} : Reviewed(w, i, verdict)

LEMMA NextIsStep ==
    NewsNext => \/ \E i \in Items : Found(i) \/ Removed(i)
                \/ \E w \in Workers : Step(w) \/ RunStarts(w)
<1>1. Runs \subseteq Workers /\ Desks \subseteq Workers
  BY DEF Workers
<1> QED
  BY <1>1 DEF NewsNext, Step

\* The kinds of steps of a worker, by what they do to it.
LEMMA StepMoves ==
    ASSUME NewsTypeOK, NEW w \in Workers, Step(w)
    PROVE  /\ NewsTypeOK' /\ Others(w) /\ crowded' = crowded
           /\ worker'[w].kind = "cron" => worker[w].kind = "cron"
<1>1. CASE Claim(w) \/ Extracted(w) \/ Generated(w)
  BY <1>1, ClaimDoes, ExtractedDoes, GeneratedDoes DEF GoesOn
<1>2. CASE NextItem(w)
  BY <1>2, NextItemDoes
<1>3. CASE CountRead(w) \/ CountWritten(w)
  BY <1>3, CountReadDoes, CountWrittenDoes
<1>4. CASE SearchStarts(w)
  BY <1>4, SearchStartsDoes
<1>5. CASE SearchEnds(w) \/ Dies(w) \/ Regenerated(w) \/ Settled(w)
  BY <1>5, SearchEndsDoes, DiesDoes, RegeneratedDoes, SettledDoes, DoneKnows DEF IsDone
<1>6. CASE Marked(w) \/ Posted(w) \/ Fails(w)
  BY <1>6, MarkedDoes, PostedDoes, FailsDoes, DoneKnows DEF IsDone, GoesOn
<1>7. ASSUME NEW i \in Items,
             \/ Reported(w, i)
             \/ Requested(w, i)
             \/ \E verdict \in {"promote", "reject"} : Reviewed(w, i, verdict)
      PROVE  /\ NewsTypeOK' /\ Others(w) /\ crowded' = crowded
             /\ worker'[w].kind # "cron"
  BY <1>7, ReportedDoes, RequestedDoes, ReviewedDoes
<1>8. CASE Vanished(w)
  BY <1>8, VanishedDoes, DoneKnows DEF IsDone, GoesOn
<1> QED
  BY <1>1, <1>2, <1>3, <1>4, <1>5, <1>6, <1>7, <1>8 DEF Step, Works

LEMMA OneCronStep ==
    ASSUME NewsTypeOK, OneCron, [NewsNext]_newsVars
    PROVE  OneCron' /\ (crowded => crowded')
<1>1. CASE UNCHANGED newsVars
  BY <1>1 DEF newsVars, OneCron
<1>2. ASSUME NEW i \in Items, Found(i) \/ Removed(i) PROVE OneCron' /\ (crowded => crowded')
  <2>1. UNCHANGED <<worker, crowded>>
    BY <1>2, FoundDoes, RemovedDoes
  <2> QED
    BY <2>1 DEF OneCron
<1>3. ASSUME NEW w \in Workers, Step(w) PROVE OneCron' /\ (crowded => crowded')
  <2>1. /\ Others(w) /\ crowded' = crowded
        /\ worker'[w].kind = "cron" => worker[w].kind = "cron"
    BY <1>3, StepMoves
  <2> QED
    BY <2>1 DEF OneCron, Others
<1>4. ASSUME NEW w \in Workers, RunStarts(w) PROVE OneCron' /\ (crowded => crowded')
  <2>1. Others(w) /\ crowded' = (crowded \/ \E v \in Workers : worker[v].kind = "cron")
    BY <1>4, RunStartsDoes
  <2>2. crowded => crowded'
    BY <2>1, Zenon
  <2>3. ~crowded' => \A v \in Workers : worker[v].kind # "cron"
    BY <2>1, Zenon
  <2>4. ASSUME ~crowded', NEW u \in Workers, NEW v \in Workers,
               worker'[u].kind = "cron", worker'[v].kind = "cron"
        PROVE  u = v
    <3>1. u = w /\ v = w
      BY <2>1, <2>3, <2>4, Zenon DEF Others
    <3> QED
      BY <3>1
  <2> QED
    BY <2>2, <2>4 DEF OneCron
<1> QED
  BY <1>1, <1>2, <1>3, <1>4, NextIsStep

-----------------------------------------------------------------------------
(* Stories.                                                                *)

\* No story of the event that w is writing about.
Untold(w) ==
    LET i == worker[w].item IN
    worker[w].at = "generate" /\ i \notin Aside /\ item[i].facts # "given" =>
        \A j \in Items : IsStory(j) => Event[j] # Event[i]

LEMMA StoryKept ==
    ASSUME StoryInv, HandsInv', OneCron', NEW w \in Workers, Others(w), Aside \subseteq Aside',
           crowded => crowded',
           \A j \in Items : IsStory(j)' => IsStory(j) /\ item'[j].keyed,
           \/ worker[w].kind = "cron"
           \/ \A j \in Items : \/ item'[j].facts = item[j].facts
                              \/ item[j].status = "absent",
           ~crowded' => Untold(w)'
    PROVE  StoryInv'
<1>1. OneStoryPerEvent'
  <2> SUFFICES ASSUME ~crowded', NEW i \in Items, NEW j \in Items, IsStory(i)', IsStory(j)',
                      Event[i] = Event[j]
               PROVE  i = j
    BY DEF OneStoryPerEvent, IsStory, Told, In
  <2> QED
    BY DEF StoryInv, OneStoryPerEvent, IsStory, Told, In
<1>2. ASSUME ~crowded', NEW v \in Workers PROVE Untold(v)'
  <2>1. CASE v = w
    BY <1>2, <2>1
  <2>2. CASE v # w /\ worker'[v].at = "generate" /\ worker'[v].item \notin Aside'
             /\ item'[worker'[v].item].facts # "given"
    <3> DEFINE i == worker[v].item
    <3>1. /\ worker'[v] = worker[v] /\ worker[v].at = "generate" /\ i \notin Aside
          /\ ~crowded /\ Untold(v) /\ i \notin loose
      BY <1>2, <2>2 DEF Others, StoryInv, Untold, Aside
    <3>2. /\ item[i].status = "PROCESSING" /\ i \in Items /\ worker[v].kind = "cron"
      BY <1>2, <3>1, PointOf DEF StoryInv, HandsInv, Knows, InHand
    <3>3. worker[w].kind # "cron"
      BY <1>2, <2>2, <3>1, <3>2 DEF StoryInv, OneCron
    <3>4. item[i].facts # "given"
      BY <2>2, <3>1, <3>2, <3>3
    <3> QED
      BY <3>1, <3>4 DEF Untold
  <2> QED
    BY <2>1, <2>2 DEF Untold
<1> QED
  BY <1>1, <1>2 DEF StoryInv, Untold

\* What w writes of i makes no story of it.
NotTold(w, i) ==
    /\ \A j \in Items \ {i} : item'[j] = item[j]
    /\ i \in Aside' \/ item'[i].status \notin {"PENDING_REVIEW", "PROMOTED"}
    /\ worker[w].kind = "cron" \/ item'[i].facts = item[i].facts

\* A step that makes no story.
LEMMA NoStoryStep ==
    ASSUME StoryInv, HandsInv', OneCron', NEW w \in Workers, Others(w), Aside \subseteq Aside',
           crowded => crowded',
           item' = item \/ OnlyFinds \/ (\E i \in Items : NotTold(w, i)),
           ~crowded' => Untold(w)'
    PROVE  StoryInv'
<1>1. ASSUME NEW j \in Items, IsStory(j)' PROVE IsStory(j) /\ item'[j] = item[j]
  <2>1. /\ j \notin Aside' /\ item'[j].status \in {"PENDING_REVIEW", "PROMOTED"}
        /\ item'[j].facts # "given"
    BY <1>1 DEF IsStory, Told, In
  <2>2. item'[j] = item[j]
    <3>1. CASE OnlyFinds
      BY <1>1, <2>1, <3>1 DEF OnlyFinds
    <3>2. CASE \E i \in Items : NotTold(w, i)
      BY <1>1, <2>1, <3>2 DEF NotTold
    <3> QED
      BY <3>1, <3>2
  <2> QED
    BY <1>1, <2>1, <2>2 DEF IsStory, Told, In
<1>2. \A j \in Items : IsStory(j)' => IsStory(j) /\ item'[j].keyed
  <2> SUFFICES ASSUME NEW j \in Items, IsStory(j)' PROVE IsStory(j) /\ item'[j].keyed
    OBVIOUS
  <2>1. IsStory(j) /\ item'[j] = item[j]
    BY <1>1
  <2>2. item[j].keyed
    BY <2>1 DEF StoryInv
  <2> QED
    BY <2>1, <2>2, Zenon
<1>3. \/ worker[w].kind = "cron"
      \/ \A j \in Items : item'[j].facts = item[j].facts \/ item[j].status = "absent"
  <2>1. CASE OnlyFinds
    <3>1. \A j \in Items : item'[j] = item[j] \/ item[j].status = "absent"
      BY <2>1 DEF OnlyFinds, Absent
    <3> QED
      BY <3>1
  <2>2. ASSUME NEW i \in Items, NotTold(w, i), worker[w].kind # "cron"
        PROVE  \A j \in Items : item'[j].facts = item[j].facts
    <3>1. item'[i].facts = item[i].facts /\ \A j \in Items \ {i} : item'[j] = item[j]
      BY <2>2 DEF NotTold
    <3> QED
      BY <3>1
  <2> QED
    BY <2>1, <2>2
<1> QED
  BY <1>2, <1>3, StoryKept

\* What could not be matched stays so, and what is aside stays aside.
LEMMA UnmatchedGrows == NewsNext => Unmatched \subseteq Unmatched'
<1> SUFFICES ASSUME NewsNext PROVE keyless \subseteq keyless' /\ overlooked \subseteq overlooked'
  BY DEF Unmatched
<1>1. ASSUME NEW w \in Workers, Extracted(w)
      PROVE  keyless \subseteq keyless' /\ overlooked \subseteq overlooked'
  BY <1>1 DEF Extracted
<1>2. ASSUME NEW w \in Workers, Step(w) \/ RunStarts(w), ~Extracted(w)
      PROVE  UNCHANGED <<keyless, overlooked>>
  BY <1>2 DEF Step, Works, Fails, Dies, SearchStarts, RunStarts, Reported, Requested, Reviewed,
     NextItem, Claim, Generated, CountRead, CountWritten, SearchEnds, Marked, Regenerated,
     Posted, Settled, Vanished
<1>3. ASSUME NEW i \in Items, Found(i) \/ Removed(i) PROVE UNCHANGED <<keyless, overlooked>>
  BY <1>3 DEF Found, Removed
<1> QED
  BY <1>1, <1>2, <1>3, NextIsStep

LEMMA AsideGrows ==
    ASSUME loose \subseteq loose', Unmatched \subseteq Unmatched'
    PROVE  Aside \subseteq Aside' /\ loose \subseteq Aside /\ loose' \subseteq Aside'
BY DEF Aside

LEMMA ElsewhereUntold ==
    ASSUME NEW w, worker'[w].at # "generate"
    PROVE  Untold(w)'
BY DEF Untold

LEMMA RunStories ==
    ASSUME StoryInv, HandsInv', OneCron', NEW w \in Workers, Claim(w) \/ Extracted(w),
           Unmatched \subseteq Unmatched'
    PROVE  StoryInv'
<1> DEFINE i == worker[w].item
<1>0. NewsTypeOK
  BY DEF StoryInv, HandsInv
<1>1. CASE Claim(w)
  <2>1. /\ Others(w) /\ worker[w].kind = "cron" /\ loose' = loose /\ crowded' = crowded
        /\ i \in Items
        /\ \/ item' = item /\ worker'[w].at = "check"
           \/ Wrote(i, "PROCESSING") /\ worker'[w].at = "extract"
           \/ /\ Wrote(i, "PROCESSING") /\ worker'[w].at = "generate" /\ worker'[w].item = i
              /\ item[i].facts = "given"
    BY <1>0, <1>1, ClaimDoes DEF GoesOn
  <2>4. Aside \subseteq Aside' /\ loose \subseteq Aside
    BY <2>1, AsideGrows
  <2>2. item' = item \/ NotTold(w, i)
    BY <2>1 DEF Wrote, NotTold
  <2>3. Untold(w)'
    BY <2>1 DEF Untold, Wrote
  <2> QED
    BY <2>1, <2>2, <2>3, <2>4, NoStoryStep
<1>2. CASE Extracted(w)
  <2>1. /\ Others(w) /\ worker[w].kind = "cron" /\ worker[w].at = "extract"
        /\ loose' = loose /\ crowded' = crowded /\ i \in Items
        /\ \A j \in Items \ {i} : item'[j] = item[j]
        /\ worker'[w].item = i
        /\ \/ item'[i].status \in {"FILTERED", "DUPLICATE"} /\ worker'[w].at \in {"check", "bill"}
           \/ item' = item /\ worker'[w].at = "generate"
    BY <1>0, <1>2, ExtractedDoes DEF GoesOn
  <2>4. Aside \subseteq Aside' /\ loose \subseteq Aside
    BY <2>1, AsideGrows
  <2>2. item' = item \/ NotTold(w, i)
    BY <2>1 DEF NotTold
  <2>3. Untold(w)'
    <3>1. CASE worker'[w].at # "generate"
      BY <3>1, ElsewhereUntold
    <3>2. CASE worker'[w].at = "generate" /\ i \notin Aside'
      <4>0. i \notin Aside /\ i \notin loose
        BY <2>4, <3>2
      <4>1. item' = item /\ Primaries(i) = {}
        <5>1. item' = item
          BY <2>1, <3>2
        <5>2. i \notin keyless' /\ i \notin overlooked'
          BY <3>2 DEF Aside, Unmatched
        <5>3. worker[w] \in WorkerState /\ worker'[w].at = "generate"
          BY <1>0, <3>2 DEF NewsTypeOK
        <5>4. ~Goes(w, "check") /\ ~Goes(w, "bill")
          BY <1>0, <5>3 DEF Goes, NewsTypeOK, WorkerState
        <5> QED
          BY <1>2, <5>1, <5>2, <5>4 DEF Extracted
      <4>2. item[i].status = "PROCESSING"
        BY <2>1, <4>0 DEF StoryInv, HandsInv, Knows, InHand
      <4>3. ASSUME NEW j \in Items, IsStory(j) PROVE Event[j] # Event[i]
        <5>1. j # i /\ j \in In({"PENDING_REVIEW", "PROMOTED"}) /\ item[j].keyed
          BY <4>2, <4>3 DEF StoryInv, IsStory, Told, In
        <5> QED
          BY <4>1, <5>1 DEF Primaries
      <4>4. \A j \in Items : IsStory(j)' => IsStory(j)
        BY <2>4, <4>1 DEF IsStory, Told, In
      <4> QED
        BY <2>1, <4>1, <4>3, <4>4 DEF Untold
    <3>3. CASE i \in Aside'
      BY <2>1, <3>3 DEF Untold
    <3> QED
      BY <3>1, <3>2, <3>3
  <2> QED
    BY <2>1, <2>2, <2>3, <2>4, NoStoryStep
<1> QED
  BY <1>1, <1>2

\* The run writes the story it found untold.
LEMMA StoryIsNew ==
    ASSUME StoryInv, HandsInv', OneCron', NEW w \in Workers, Generated(w),
           Unmatched \subseteq Unmatched'
    PROVE  StoryInv'
<1> DEFINE i == worker[w].item
<1>0. NewsTypeOK
  BY DEF StoryInv, HandsInv
<1>1. /\ worker[w].at = "generate" /\ worker[w].kind = "cron" /\ i \in Items /\ Others(w)
      /\ worker'[w].at = "count" /\ \A j \in Items \ {i} : item'[j] = item[j]
      /\ item'[i].status = "PENDING_REVIEW" /\ crowded' = crowded /\ loose' = loose
      /\ item[i].facts = "given" => item'[i].facts = "given"
  BY <1>0, GeneratedDoes DEF GoesOn
<1>2. item[i].facts # "given" /\ i \notin Aside => item'[i].keyed
  BY <1>0, GeneratedDoes DEF Aside, Unmatched
<1>8. Aside \subseteq Aside'
  BY <1>1, AsideGrows
<1>3. ASSUME NEW j \in Items, IsStory(j)'
      PROVE  \/ j # i /\ IsStory(j)
             \/ j = i /\ i \notin Aside /\ item[i].facts # "given"
  BY <1>1, <1>3, <1>8 DEF IsStory, Told, In
<1>4. ASSUME NEW j \in Items, IsStory(j)' PROVE item'[j].keyed
  <2>1. CASE j = i
    BY <1>2, <1>3, <1>4, <2>1
  <2>2. CASE j # i
    <3>1. item[j].keyed /\ item'[j] = item[j]
      BY <1>1, <1>3, <1>4, <2>2 DEF StoryInv
    <3> QED
      BY <3>1, Zenon
  <2> QED
    BY <2>1, <2>2
<1>5. ASSUME ~crowded, NEW j \in Items, NEW k \in Items, IsStory(j)', IsStory(k)', Event[j] = Event[k]
      PROVE  j = k
  <2>1. i \notin Aside /\ item[i].facts # "given" =>
          \A l \in Items : IsStory(l) => Event[l] # Event[i]
    BY <1>1, <1>5 DEF StoryInv
  <2>2. CASE j # i /\ k # i
    <3>1. IsStory(j) /\ IsStory(k)
      BY <1>3, <1>5, <2>2
    <3> QED
      BY <1>5, <3>1 DEF StoryInv, OneStoryPerEvent, IsStory, Told
  <2> QED
    BY <1>3, <1>5, <2>1, <2>2
<1>6. OneStoryPerEvent'
  <2> SUFFICES ASSUME ~crowded', NEW j \in Items, NEW k \in Items, IsStory(j)', IsStory(k)',
                      Event[j] = Event[k]
               PROVE  j = k
    BY DEF OneStoryPerEvent, IsStory, Told, In
  <2> QED
    BY <1>1, <1>5
<1>7. ASSUME ~crowded', NEW v \in Workers PROVE Untold(v)'
  <2>1. CASE v = w
    BY <1>1, <2>1, ElsewhereUntold
  <2>2. CASE v # w
    <3>1. worker[v].kind # "cron" /\ worker'[v] = worker[v]
      BY <1>1, <1>7, <2>2 DEF StoryInv, OneCron, Others
    <3>2. worker'[v].at # "generate"
      BY <1>0, <1>7, <3>1, PointOf
    <3> QED
      BY <3>2, ElsewhereUntold
  <2> QED
    BY <2>1, <2>2
<1> QED
  BY <1>4, <1>6, <1>7 DEF StoryInv, Untold

\* A story that is promoted was one already.
LEMMA SettledStories ==
    ASSUME StoryInv, HandsInv', OneCron', NEW w \in Workers, Settled(w),
           Unmatched \subseteq Unmatched'
    PROVE  StoryInv'
<1> DEFINE i == worker[w].item
<1>0. NewsTypeOK /\ Knows(w)
  BY DEF StoryInv, HandsInv
<1>1. /\ worker[w].at \in {"promote", "reject"} /\ i \in Items /\ Others(w)
      /\ loose \subseteq loose' /\ crowded' = crowded /\ worker'[w].at = "idle"
      /\ \/ item' = item
         \/ Wrote(i, IF worker[w].at = "promote" THEN "PROMOTED" ELSE "REJECTED")
  BY <1>0, SettledDoes, DoneKnows DEF IsDone
<1>5. Aside \subseteq Aside' /\ loose \subseteq Aside
  BY <1>1, AsideGrows
<1>2. Untold(w)'
  BY <1>1, ElsewhereUntold
<1>3. CASE item' = item \/ worker[w].at = "reject"
  <2>1. item' = item \/ NotTold(w, i)
    BY <1>1, <1>3 DEF Wrote, NotTold
  <2> QED
    BY <1>1, <1>2, <1>5, <2>1, NoStoryStep
<1>4. CASE worker[w].at = "promote" /\ Wrote(i, "PROMOTED")
  <2>1. ASSUME NEW j \in Items, IsStory(j)' PROVE IsStory(j)
    <3>1. CASE j # i
      BY <1>1, <1>4, <1>5, <2>1, <3>1 DEF Wrote, IsStory, Told, In
    <3>2. CASE j = i
      <4>1. i \notin Aside /\ item[i].facts # "given"
        BY <1>1, <1>4, <1>5, <2>1, <3>2 DEF Wrote, IsStory, Told, In
      <4>2. item[i].status = "PENDING_REVIEW"
        BY <1>0, <1>4, <1>5, <4>1 DEF Knows
      <4> QED
        BY <1>1, <3>2, <4>1, <4>2 DEF IsStory, Told, In
    <3> QED
      BY <3>1, <3>2
  <2>2. ASSUME NEW j \in Items, IsStory(j)' PROVE item'[j].keyed
    <3>1. item[j].keyed
      BY <2>1, <2>2 DEF StoryInv
    <3>2. item'[j].keyed = item[j].keyed
      BY <1>4, <2>2 DEF Wrote
    <3> QED
      BY <3>1, <3>2, Zenon
  <2>3. \A j \in Items : item'[j].facts = item[j].facts
    BY <1>4 DEF Wrote
  <2> QED
    BY <1>1, <1>2, <1>5, <2>1, <2>2, <2>3, StoryKept
<1> QED
  BY <1>1, <1>3, <1>4

\* The others.
LEMMA OtherStories ==
    ASSUME StoryInv, HandsInv', OneCron', NEW w \in Workers,
           \/ Step(w) /\ ~Claim(w) /\ ~Extracted(w) /\ ~Generated(w) /\ ~Settled(w)
           \/ RunStarts(w),
           crowded => crowded', Unmatched \subseteq Unmatched'
    PROVE  StoryInv'
<1> DEFINE i == worker[w].item
<1>0. NewsTypeOK /\ Knows(w)
  BY DEF StoryInv, HandsInv
<1> DEFINE Harmless == /\ Others(w) /\ loose \subseteq loose' /\ worker'[w].at # "generate"
                       /\ item' = item \/ OnlyFinds \/ (i \in Items /\ NotTold(w, i))
<1> SUFFICES Harmless
  <2>1. Aside \subseteq Aside' /\ loose' \subseteq Aside'
    BY AsideGrows
  <2> QED
    BY <2>1, ElsewhereUntold, NoStoryStep
<1>1. CASE NextItem(w) \/ CountRead(w)
  BY <1>0, <1>1, NextItemDoes, CountReadDoes, DoneKnows
<1>2. CASE CountWritten(w) \/ SearchStarts(w)
  BY <1>0, <1>2, CountWrittenDoes, SearchStartsDoes
<1>3. CASE SearchEnds(w) \/ Dies(w)
  BY <1>0, <1>3, SearchEndsDoes, DiesDoes, DoneKnows DEF IsDone
<1>4. CASE RunStarts(w)
  BY <1>0, <1>4, RunStartsDoes
<1>5. CASE Posted(w)
  BY <1>0, <1>5, PostedDoes, DoneKnows DEF IsDone, GoesOn
<1>6. CASE Marked(w)
  <2>1. Others(w) /\ worker'[w].at # "generate" /\ i \in Items /\ i \in loose' /\ loose \subseteq loose'
    BY <1>0, <1>6, MarkedDoes, DoneKnows DEF IsDone, GoesOn
  <2>2. item' = item \/ Wrote(i, "PROCESSING")
    BY <1>0, <1>6, MarkedDoes
  <2>3. item' = item \/ NotTold(w, i)
    BY <2>1, <2>2 DEF Wrote, NotTold, Aside
  <2> QED
    BY <2>1, <2>3
<1>7. CASE Regenerated(w)
  <2>1. /\ Others(w) /\ worker'[w].at # "generate" /\ i \in Items /\ loose \subseteq loose'
        /\ Wrote(i, "PENDING_REVIEW") /\ worker[w].kind = "editor" /\ worker[w].at = "save"
    BY <1>0, <1>7, RegeneratedDoes, DoneKnows DEF IsDone
  <2>2. i \in loose'
    BY <1>0, <2>1 DEF Knows
  <2>3. NotTold(w, i)
    BY <2>1, <2>2 DEF Wrote, NotTold, Aside
  <2> QED
    BY <2>1, <2>3
<1>8. CASE Fails(w)
  <2>1. /\ Others(w) /\ worker'[w].at # "generate" /\ i \in Items /\ loose \subseteq loose'
        /\ Wrote(i, "FAILED")
    BY <1>0, <1>8, FailsDoes, DoneKnows DEF IsDone, GoesOn
  <2>2. NotTold(w, i)
    BY <2>1 DEF Wrote, NotTold, Aside
  <2> QED
    BY <2>1, <2>2
<1>9. ASSUME NEW k \in Items,
             \/ Reported(w, k)
             \/ Requested(w, k)
             \/ \E verdict \in {"promote", "reject"} : Reviewed(w, k, verdict)
      PROVE  Harmless
  BY <1>0, <1>9, ReportedDoes, RequestedDoes, ReviewedDoes
<1>10. CASE Vanished(w)
  BY <1>0, <1>10, VanishedDoes, DoneKnows DEF IsDone, GoesOn
<1> QED
  BY <1>1, <1>2, <1>3, <1>4, <1>5, <1>6, <1>7, <1>8, <1>9, <1>10 DEF Step, Works

\* The robot never writes two stories of one event, for any items and any events:
\* as long as no two runs of ContentProcessService overlap, what findPrimary reads
\* before an article is generated is still so when it is written.
THEOREM StoriesAreNew == NewsSpec => []OneStoryPerEvent
<1>1. NewsInit => StoryInv
  <2> SUFFICES ASSUME NewsInit PROVE StoryInv
    OBVIOUS
  <2>1. \A i \in Items : ~IsStory(i)
    BY DEF NewsInit, Absent, IsStory, Told, In
  <2>2. \A w \in Workers : worker[w].at # "generate"
    BY DEF NewsInit, Vacant
  <2>3. OneStoryPerEvent
    BY <2>1 DEF OneStoryPerEvent, IsStory, Told, In
  <2> QED
    BY <2>1, <2>2, <2>3, HandsInit DEF StoryInv
<1>2. StoryInv /\ [NewsNext]_newsVars => StoryInv'
  <2> SUFFICES ASSUME StoryInv, [NewsNext]_newsVars PROVE StoryInv'
    OBVIOUS
  <2>1. HandsInv' /\ OneCron' /\ (crowded => crowded') /\ NewsTypeOK
    BY HandsStep, OneCronStep DEF StoryInv, HandsInv
  <2>2. CASE UNCHANGED newsVars
    <3>1. Aside' = Aside /\ UNCHANGED <<item, worker, crowded>>
      BY <2>2 DEF newsVars, Aside, Unmatched
    <3> QED
      BY <2>1, <3>1 DEF StoryInv, OneStoryPerEvent, IsStory, Told, In
  <2>3. ASSUME NEW i \in Items, Found(i) PROVE StoryInv'
    <3>1. OnlyFinds /\ UNCHANGED <<worker, loose, crowded>> /\ Unmatched \subseteq Unmatched'
      BY <2>1, <2>3, FoundDoes, UnmatchedGrows DEF NewsNext
    <3>2. Aside \subseteq Aside' /\ loose \subseteq Aside
      BY <3>1, AsideGrows
    <3>3. \A j \in Items : IsStory(j)' => IsStory(j) /\ item'[j] = item[j]
      BY <3>1, <3>2 DEF OnlyFinds, IsStory, Told, In
    <3>4. \A j \in Items : IsStory(j)' => item'[j].keyed
      BY <3>3, Zenon DEF StoryInv
    <3>5. OneStoryPerEvent'
      BY <3>1, <3>3 DEF StoryInv, OneStoryPerEvent, IsStory, Told, In
    <3>6. ASSUME ~crowded, NEW w \in Workers PROVE Untold(w)'
      <4>1. Untold(w)
        BY <3>6 DEF StoryInv, Untold
      <4>2. CASE worker[w].at = "generate" /\ worker[w].item \notin Aside'
        <5>1. worker[w].item \in Items /\ item[worker[w].item].status = "PROCESSING"
          BY <2>1, <3>6, <3>2, <4>2, PointOf DEF StoryInv, HandsInv, Knows, InHand
        <5>2. item'[worker[w].item] = item[worker[w].item]
          BY <3>1, <5>1 DEF OnlyFinds, Absent
        <5> QED
          BY <3>1, <3>3, <3>2, <4>1, <5>2 DEF Untold
      <4>3. CASE worker'[w].at # "generate"
        BY <4>3, ElsewhereUntold
      <4>4. worker'[w] = worker[w]
        BY <3>1
      <4> QED
        BY <4>2, <4>3, <4>4 DEF Untold
    <3> QED
      BY <2>1, <3>1, <3>4, <3>5, <3>6 DEF StoryInv, Untold
  <2>6. ASSUME NEW i \in Items, Removed(i) PROVE StoryInv'
    <3>1. /\ \A j \in Items \ {i} : item'[j] = item[j]
          /\ item'[i].status = "removed" /\ loose' = loose \cup {i}
          /\ UNCHANGED <<worker, crowded>> /\ Unmatched \subseteq Unmatched'
      BY <2>1, <2>6, RemovedDoes, UnmatchedGrows DEF NewsNext, Gone, Absent
    <3>2. Aside \subseteq Aside' /\ i \in Aside'
      BY <3>1, AsideGrows
    <3>3. ASSUME NEW j \in Items, IsStory(j)' PROVE IsStory(j) /\ item'[j] = item[j]
      BY <3>1, <3>2, <3>3 DEF IsStory, Told, In
    <3>4. ASSUME NEW j \in Items, IsStory(j)' PROVE item'[j].keyed
      BY <3>3, <3>4, Zenon DEF StoryInv
    <3>5. OneStoryPerEvent'
      BY <3>1, <3>3 DEF StoryInv, OneStoryPerEvent, IsStory, Told, In
    <3>6. ASSUME ~crowded, NEW w \in Workers PROVE Untold(w)'
      <4>1. Untold(w)
        BY <3>6 DEF StoryInv, Untold
      <4>2. CASE worker[w].at = "generate" /\ worker[w].item \notin Aside'
        <5>1. worker[w].item \in Items \ {i}
          BY <2>1, <3>2, <4>2, PointOf
        <5> QED
          BY <3>1, <3>2, <3>3, <4>1, <5>1 DEF Untold
      <4>3. CASE worker'[w].at # "generate"
        BY <4>3, ElsewhereUntold
      <4>4. worker'[w] = worker[w]
        BY <3>1
      <4> QED
        BY <4>2, <4>3, <4>4 DEF Untold
    <3> QED
      BY <2>1, <3>1, <3>4, <3>5, <3>6 DEF StoryInv, Untold
  <2>4. ASSUME NEW w \in Workers, Step(w), NewsNext PROVE StoryInv'
    BY <2>1, <2>4, UnmatchedGrows, RunStories, StoryIsNew, SettledStories, OtherStories
  <2>5. ASSUME NEW w \in Workers, RunStarts(w), NewsNext PROVE StoryInv'
    BY <2>1, <2>5, UnmatchedGrows, OtherStories
  <2> QED
    BY <2>1, <2>2, <2>3, <2>4, <2>5, <2>6, NextIsStep
<1>3. StoryInv => OneStoryPerEvent
  BY DEF StoryInv
<1> QED
  BY <1>1, <1>2, <1>3, PTL DEF NewsSpec

-----------------------------------------------------------------------------
(* The cap.                                                                *)

Uncounting == {"count", "counting"}
BegunAt == {"claim", "extract", "generate"} \cup Uncounting

LEMMA WorkersCount ==
    ASSUME NEW S, S \subseteq Workers
    PROVE  /\ IsFiniteSet(S) /\ Cardinality(S) \in Nat
           /\ Cardinality(S) <= Cardinality(Workers) /\ Cardinality(Workers) \in Nat
<1>1. IsFiniteSet(Workers)
  BY NewsroomAssumption, FS_Union DEF Workers
<1> QED
  BY <1>1, FS_Subset, FS_CardinalityType

LEMMA LeewayGrows ==
    ASSUME NEW w \in Workers, crowded => crowded'
    PROVE  Leeway \in Nat /\ Leeway' \in Nat /\ Leeway <= Leeway'
<1>1. Cardinality({w}) = 1 /\ {w} \subseteq Workers
  BY FS_Singleton
<1>2. Cardinality(Workers) \in Nat /\ 1 <= Cardinality(Workers)
  BY <1>1, WorkersCount
<1>3. CASE crowded
  BY <1>2, <1>3 DEF Leeway
<1>4. CASE ~crowded
  BY <1>2, <1>4 DEF Leeway
<1> QED
  BY <1>3, <1>4

\* The counts are kept, one worker aside.
LEMMA BegunBut ==
    ASSUME NEW w \in Workers, Others(w)
    PROVE  /\ Begun' \subseteq Begun \cup {w} /\ Uncounted' \subseteq Uncounted \cup {w}
           /\ worker'[w].at \notin BegunAt => Begun' = Begun \ {w}
           /\ worker'[w].at \in BegunAt => Begun' = Begun \cup {w}
           /\ worker'[w].at \notin Uncounting => Uncounted' = Uncounted \ {w}
           /\ worker'[w].at \in Uncounting => Uncounted' = Uncounted \cup {w}
           /\ worker[w].at \in BegunAt <=> w \in Begun
           /\ worker[w].at \in Uncounting <=> w \in Uncounted
BY DEF Others, Begun, Uncounted, BegunAt, Uncounting

\* A step that takes up no article, makes none and counts none.
LEMMA CapKept ==
    ASSUME CapInv, NewsTypeOK', OneCron', NEW w \in Workers, Others(w),
           usage' = usage, made' = made, miscounted => miscounted', crowded => crowded',
           worker'[w].at \in BegunAt => worker[w].at \in BegunAt,
           worker'[w].at \notin Counting,
           ~miscounted' => (worker'[w].at \in Uncounting <=> worker[w].at \in Uncounting)
    PROVE  CapInv'
<1> SUFFICES ASSUME ~miscounted' PROVE CapInv'
  BY DEF CapInv
<1>1. ~miscounted
  OBVIOUS
<1>2. Uncounted' = Uncounted
  BY BegunBut
<1>3. Begun' \subseteq Begun
  BY BegunBut
<1>4. /\ Cardinality(Begun) \in Nat /\ Cardinality(Begun') \in Nat
      /\ Cardinality(Begun') <= Cardinality(Begun)
  <2>1. Begun \subseteq Workers /\ Begun' \subseteq Workers
    BY <1>3 DEF Begun
  <2> QED
    BY <1>3, <2>1, WorkersCount, FS_Subset
<1>5. usage + Cardinality(Begun') <= MaxPerDay + Leeway'
  <2>1. usage + Cardinality(Begun) <= MaxPerDay + Leeway /\ usage \in Nat /\ MaxPerDay \in Nat
    BY <1>1, NewsroomAssumption DEF CapInv, NewsTypeOK
  <2> QED
    BY <1>4, <2>1, LeewayGrows
<1>6. /\ made' = usage' + Cardinality(Uncounted)'
      /\ usage' + Cardinality(Begun)' <= MaxPerDay + Leeway'
  BY <1>1, <1>2, <1>5 DEF CapInv
<1>7. \A v \in Workers : worker'[v].at \in Counting => v # w /\ worker'[v] = worker[v]
  BY DEF Others
<1>8. /\ \A v \in Workers : worker'[v].at \in Counting => worker'[v].read = usage'
      /\ \A u, v \in Workers : worker'[u].at \in Counting /\ worker'[v].at \in Counting => u = v
  BY <1>1, <1>7 DEF CapInv
<1> QED
  BY <1>6, <1>8 DEF CapInv

\* An article is taken up only when there is room; those that the other runs had
\* taken up by then are the leeway.
LEMMA NextItemCap ==
    ASSUME CapInv, OneCron', NEW w \in Workers, NextItem(w)
    PROVE  CapInv'
<1>1. /\ NewsTypeOK' /\ Others(w) /\ worker[w].at = "check" /\ worker[w].kind = "cron"
      /\ \/ worker'[w].at = "idle"
         \/ usage < MaxPerDay /\ worker'[w].at = "claim"
      /\ UNCHANGED <<usage, made, crowded, miscounted>>
  BY NextItemDoes, DoneKnows DEF CapInv
<1>2. CASE worker'[w].at = "idle"
  BY <1>1, <1>2, CapKept DEF BegunAt, Uncounting, Counting
<1>3. CASE usage < MaxPerDay /\ worker'[w].at = "claim"
  <2> SUFFICES ASSUME ~miscounted' PROVE CapInv'
    BY <1>1 DEF CapInv
  <2>1. ~miscounted
    BY <1>1
  <2>2. Uncounted' = Uncounted
    BY <1>1, <1>3, BegunBut DEF Uncounting
  <2>3. usage + Cardinality(Begun') <= MaxPerDay + Leeway'
    <3>0. usage \in Nat /\ MaxPerDay \in Nat
      BY NewsroomAssumption DEF CapInv, NewsTypeOK
    <3>1. CASE crowded
      <4>1. Begun' \subseteq Workers
        BY DEF Begun
      <4>2. Cardinality(Begun') \in Nat /\ Cardinality(Begun') <= Cardinality(Workers)
            /\ Cardinality(Workers) \in Nat
        BY <4>1, WorkersCount
      <4>3. Leeway' = Cardinality(Workers) - 1
        BY <1>1, <3>1 DEF Leeway
      <4> QED
        BY <1>3, <3>0, <4>2, <4>3
    <3>2. CASE ~crowded
      <4>1. Begun \subseteq {w}
        BY <1>1, <3>2, PointOf DEF CapInv, OneCron, Begun
      <4>2. Begun' = {w}
        BY <1>1, <1>3, <4>1, BegunBut DEF BegunAt
      <4>3. Cardinality(Begun') = 1 /\ Leeway' = 0
        BY <1>1, <3>2, <4>2, FS_Singleton DEF Leeway
      <4> QED
        BY <1>3, <3>0, <4>3
    <3> QED
      BY <3>1, <3>2
  <2>4. \A v \in Workers : worker'[v].at \in Counting => worker'[v] = worker[v]
    BY <1>1, <1>3 DEF Others, Counting
  <2>5. /\ \A v \in Workers : worker'[v].at \in Counting => worker'[v].read = usage'
        /\ \A u, v \in Workers : worker'[u].at \in Counting /\ worker'[v].at \in Counting => u = v
    BY <1>1, <2>1, <2>4 DEF CapInv
  <2> QED
    BY <1>1, <2>1, <2>2, <2>3, <2>5 DEF CapInv
<1> QED
  BY <1>1, <1>2, <1>3

LEMMA GeneratedCap ==
    ASSUME CapInv, OneCron', NEW w \in Workers, Generated(w)
    PROVE  CapInv'
<1>1. /\ NewsTypeOK' /\ Others(w) /\ worker[w].at = "generate" /\ worker'[w].at = "count"
      /\ UNCHANGED <<usage, crowded, miscounted>>
      /\ ~miscounted => made' = made + 1
  BY GeneratedDoes DEF CapInv, GoesOn
<1> SUFFICES ASSUME ~miscounted' PROVE CapInv'
  BY <1>1 DEF CapInv
<1>2. ~miscounted
  BY <1>1
<1>3. Begun' = Begun
  BY <1>1, BegunBut DEF BegunAt, Uncounting
<1>4. Uncounted' = Uncounted \cup {w} /\ w \notin Uncounted
  BY <1>1, BegunBut DEF Uncounting
<1>5. Cardinality(Uncounted') = Cardinality(Uncounted) + 1 /\ Cardinality(Uncounted) \in Nat
  <2>1. Uncounted \subseteq Workers
    BY DEF Uncounted
  <2> QED
    BY <1>4, <2>1, WorkersCount, FS_AddElement
<1>6. made' = usage' + Cardinality(Uncounted')
  BY <1>1, <1>2, <1>5 DEF CapInv, NewsTypeOK
<1>7. usage' + Cardinality(Begun') <= MaxPerDay + Leeway'
  BY <1>1, <1>2, <1>3 DEF CapInv, Leeway
<1>8. \A v \in Workers : worker'[v].at \in Counting => worker'[v] = worker[v]
  BY <1>1 DEF Others, Counting
<1>9. /\ \A v \in Workers : worker'[v].at \in Counting => worker'[v].read = usage'
      /\ \A u, v \in Workers : worker'[u].at \in Counting /\ worker'[v].at \in Counting => u = v
  BY <1>1, <1>2, <1>8 DEF CapInv
<1> QED
  BY <1>1, <1>6, <1>7, <1>9 DEF CapInv

LEMMA CountReadCap ==
    ASSUME CapInv, OneCron', NEW w \in Workers, CountRead(w)
    PROVE  CapInv'
<1>1. /\ NewsTypeOK' /\ Others(w) /\ worker[w].at \in {"count", "bill"}
      /\ worker'[w].at = (IF worker[w].at = "count" THEN "counting" ELSE "billing")
      /\ worker'[w].read = usage /\ UNCHANGED <<usage, made, crowded>>
  BY CountReadDoes DEF CapInv
<1>2. miscounted' = (miscounted \/ \E v \in Workers : worker[v].at \in Counting)
  BY DEF CountRead
<1> SUFFICES ASSUME ~miscounted' PROVE CapInv'
  BY <1>1 DEF CapInv
<1>3. ~miscounted /\ \A v \in Workers : worker[v].at \notin Counting
  BY <1>2, Zenon
<1>4. Begun' = Begun
  BY <1>1, BegunBut DEF BegunAt, Uncounting
<1>5. Uncounted' = Uncounted
  BY <1>1, BegunBut DEF Uncounting
<1>6. \A v \in Workers : worker'[v].at \in Counting => v = w
  BY <1>1, <1>3 DEF Others
<1>7. /\ made' = usage' + Cardinality(Uncounted')
      /\ usage' + Cardinality(Begun') <= MaxPerDay + Leeway'
  BY <1>1, <1>3, <1>4, <1>5 DEF CapInv, Leeway
<1> QED
  BY <1>1, <1>6, <1>7 DEF CapInv

LEMMA CountWrittenCap ==
    ASSUME CapInv, OneCron', NEW w \in Workers, CountWritten(w)
    PROVE  CapInv'
<1>1. /\ NewsTypeOK' /\ Others(w) /\ worker[w].at \in Counting
      /\ worker'[w].at \in {"check", "insert", "save"}
      /\ usage' = worker[w].read + (IF worker[w].at = "counting" THEN 1 ELSE 0)
      /\ UNCHANGED <<made, crowded, miscounted>>
  BY CountWrittenDoes DEF CapInv
<1> SUFFICES ASSUME ~miscounted' PROVE CapInv'
  BY <1>1 DEF CapInv
<1>2. ~miscounted /\ worker[w].read = usage
  BY <1>1 DEF CapInv
<1>3. /\ Begun' = Begun \ {w} /\ Uncounted' = Uncounted \ {w}
      /\ Begun \subseteq Workers /\ Uncounted \subseteq Workers
  BY <1>1, BegunBut DEF BegunAt, Uncounting, Begun, Uncounted
<1>4. /\ IsFiniteSet(Begun) /\ IsFiniteSet(Uncounted)
      /\ Cardinality(Begun) \in Nat /\ Cardinality(Uncounted) \in Nat
  BY <1>3, WorkersCount
<1>5. usage \in Nat /\ MaxPerDay \in Nat /\ Leeway' = Leeway /\ Leeway \in Nat
  <2>1. Leeway' = Leeway
    BY <1>1 DEF Leeway
  <2> QED
    BY <1>1, <2>1, LeewayGrows, NewsroomAssumption DEF CapInv, NewsTypeOK
<1>6. made = usage + Cardinality(Uncounted) /\ usage + Cardinality(Begun) <= MaxPerDay + Leeway
  BY <1>2 DEF CapInv
<1>7. /\ made' = usage' + Cardinality(Uncounted')
      /\ usage' + Cardinality(Begun') <= MaxPerDay + Leeway'
  <2>1. CASE worker[w].at = "counting"
    <3>1. w \in Begun /\ w \in Uncounted /\ usage' = usage + 1
      BY <1>1, <1>2, <2>1, BegunBut DEF BegunAt, Uncounting
    <3>2. /\ Cardinality(Begun') = Cardinality(Begun) - 1
          /\ Cardinality(Uncounted') = Cardinality(Uncounted) - 1
      BY <1>3, <1>4, <3>1, FS_RemoveElement
    <3> QED
      BY <1>1, <1>4, <1>5, <1>6, <3>1, <3>2
  <2>2. CASE worker[w].at # "counting"
    <3>1. w \notin Begun /\ w \notin Uncounted
      BY <1>1, <2>2 DEF Counting, Begun, Uncounted
    <3>2. Begun' = Begun /\ Uncounted' = Uncounted
      BY <1>3, <3>1
    <3>3. usage' = usage
      BY <1>1, <1>2, <1>5, <2>2
    <3> QED
      BY <1>1, <1>5, <1>6, <3>2, <3>3
  <2> QED
    BY <2>1, <2>2
<1>8. \A v \in Workers : worker'[v].at \notin Counting
  BY <1>1, <1>2 DEF CapInv, Others, Counting
<1> QED
  BY <1>1, <1>7, <1>8 DEF CapInv

\* The others make and count nothing, but for those that lose a count.
LEMMA OtherCap ==
    ASSUME CapInv, OneCron', crowded => crowded', NEW w \in Workers,
           \/ /\ Step(w) /\ ~NextItem(w) /\ ~Generated(w)
              /\ ~CountRead(w) /\ ~CountWritten(w)
           \/ RunStarts(w)
    PROVE  CapInv'
<1>0. NewsTypeOK
  BY DEF CapInv
<1> DEFINE Uncounts == ~miscounted' => (worker'[w].at \in Uncounting <=> worker[w].at \in Uncounting)
           Nothing == /\ NewsTypeOK' /\ Others(w) /\ usage' = usage /\ made' = made
                      /\ worker'[w].at \in BegunAt => worker[w].at \in BegunAt
                      /\ worker'[w].at \notin Counting /\ Uncounts
<1> SUFFICES Nothing /\ (miscounted => miscounted')
  BY CapKept
<1>1. CASE Claim(w)
  <2>1. /\ NewsTypeOK' /\ Others(w) /\ worker[w].at = "claim"
        /\ worker'[w].at \in {"check", "generate", "extract"}
        /\ UNCHANGED <<usage, made, miscounted>>
    BY <1>0, <1>1, ClaimDoes DEF GoesOn
  <2> QED
    BY <2>1 DEF BegunAt, Uncounting, Counting
<1>2. CASE Extracted(w)
  <2>1. /\ NewsTypeOK' /\ Others(w) /\ worker[w].at = "extract"
        /\ worker'[w].at \in {"check", "generate", "bill"}
        /\ UNCHANGED <<usage, made, miscounted>>
    BY <1>0, <1>2, ExtractedDoes DEF GoesOn
  <2> QED
    BY <2>1 DEF BegunAt, Uncounting, Counting
<1>3. CASE Dies(w)
  <2>1. NewsTypeOK' /\ Others(w) /\ worker'[w].at = "idle" /\ UNCHANGED <<usage, made>>
    BY <1>0, <1>3, DiesDoes, DoneKnows DEF IsDone
  <2>2. miscounted' = TRUE
    BY <1>3 DEF Dies
  <2> QED
    BY <2>1, <2>2 DEF BegunAt, Uncounting, Counting
<1>4. CASE Fails(w)
  <2>1. /\ NewsTypeOK' /\ Others(w) /\ worker'[w].at \in {"idle", "check"}
        /\ UNCHANGED <<usage, made>>
    BY <1>0, <1>4, FailsDoes, DoneKnows DEF IsDone, GoesOn
  <2>2. miscounted' = (miscounted \/ worker[w].at \in {"count", "counting"})
    BY <1>4 DEF Fails
  <2>3. (miscounted => miscounted') /\ (~miscounted' => worker[w].at \notin {"count", "counting"})
    BY <2>2, Zenon
  <2> QED
    BY <2>1, <2>3 DEF BegunAt, Uncounting, Counting
<1>5. CASE SearchStarts(w) \/ RunStarts(w) \/ SearchEnds(w)
  <2>1. /\ NewsTypeOK' /\ Others(w) /\ worker[w].at \in {"idle", "insert"}
        /\ worker'[w].at \in {"bill", "check", "idle"} /\ UNCHANGED <<usage, made, miscounted>>
    BY <1>0, <1>5, SearchStartsDoes, RunStartsDoes, SearchEndsDoes, DoneKnows DEF IsDone
  <2> QED
    BY <2>1 DEF BegunAt, Uncounting, Counting
<1>6. CASE Marked(w) \/ Regenerated(w) \/ Posted(w) \/ Settled(w)
  <2>1. /\ NewsTypeOK' /\ Others(w) /\ worker[w].at \in {"mark", "save", "post", "promote", "reject"}
        /\ worker'[w].at \in {"bill", "idle", "promote"} /\ UNCHANGED <<usage, made, miscounted>>
    BY <1>0, <1>6, MarkedDoes, RegeneratedDoes, PostedDoes, SettledDoes, DoneKnows DEF IsDone, GoesOn
  <2> QED
    BY <2>1 DEF BegunAt, Uncounting, Counting
<1>7. ASSUME NEW k \in Items,
             \/ Reported(w, k)
             \/ Requested(w, k)
             \/ \E verdict \in {"promote", "reject"} : Reviewed(w, k, verdict)
      PROVE  Nothing /\ (miscounted => miscounted')
  <2>1. /\ NewsTypeOK' /\ Others(w) /\ worker[w].at = "idle"
        /\ worker'[w].at \in {"mark", "post", "reject"} /\ UNCHANGED <<usage, made, miscounted>>
    BY <1>0, <1>7, ReportedDoes, RequestedDoes, ReviewedDoes
  <2> QED
    BY <2>1 DEF BegunAt, Uncounting, Counting
<1>8. CASE Vanished(w)
  <2>1. /\ NewsTypeOK' /\ Others(w) /\ worker'[w].at \in {"idle", "check"}
        /\ UNCHANGED <<usage, made, miscounted>>
    BY <1>0, <1>8, VanishedDoes, DoneKnows DEF IsDone, GoesOn
  <2>2. worker[w].at \notin {"count", "counting"}
    BY <1>8 DEF Vanished
  <2> QED
    BY <2>1, <2>2 DEF BegunAt, Uncounting, Counting
<1> QED
  BY <1>1, <1>2, <1>3, <1>4, <1>5, <1>6, <1>7, <1>8 DEF Step, Works

\* The cap of ContentSettingsService, for any cap and any number of runs: each run
\* that overlaps another adds the article it had begun and no more, and no article
\* is lost from the count unless two counts overlap or one is never written.
THEOREM CapIsAlwaysKept == NewsSpec => []CapIsKept
<1>1. NewsInit => CapInv
  <2> SUFFICES ASSUME NewsInit PROVE CapInv
    OBVIOUS
  <2>1. NewsTypeOK /\ OneCron
    BY HandsInit DEF HandsInv
  <2>2. \A w \in Workers : worker[w].at = "idle"
    BY DEF NewsInit, Vacant
  <2>3. Begun = {} /\ Uncounted = {}
    BY <2>2 DEF Begun, Uncounted
  <2>4. usage = 0 /\ made = 0 /\ Leeway = 0 /\ MaxPerDay \in Nat
    BY NewsroomAssumption DEF NewsInit, Leeway
  <2> QED
    BY <2>1, <2>2, <2>3, <2>4, FS_EmptySet DEF CapInv, Counting
<1>2. CapInv /\ [NewsNext]_newsVars => CapInv'
  <2> SUFFICES ASSUME CapInv, [NewsNext]_newsVars PROVE CapInv'
    OBVIOUS
  <2>1. OneCron' /\ (crowded => crowded') /\ NewsTypeOK
    BY OneCronStep DEF CapInv
  <2>2. CASE UNCHANGED newsVars
    BY <2>1, <2>2 DEF newsVars, CapInv, NewsTypeOK, Uncounted, Begun, Leeway
  <2>3. ASSUME NEW i \in Items, Found(i) \/ Removed(i) PROVE CapInv'
    <3>1. NewsTypeOK' /\ UNCHANGED <<usage, worker, made, crowded, miscounted>>
      BY <2>1, <2>3, FoundDoes, RemovedDoes
    <3>2. Uncounted' = Uncounted /\ Begun' = Begun /\ Leeway' = Leeway
      BY <3>1 DEF Uncounted, Begun, Leeway
    <3> QED
      BY <2>1, <3>1, <3>2 DEF CapInv
  <2>4. ASSUME NEW w \in Workers, Step(w) \/ RunStarts(w) PROVE CapInv'
    BY <2>1, <2>4, NextItemCap, GeneratedCap, CountReadCap, CountWrittenCap, OtherCap
  <2> QED
    BY <2>2, <2>3, <2>4, NextIsStep
<1>3. CapInv => CapIsKept
  <2> SUFFICES ASSUME CapInv, ~miscounted PROVE
          /\ made <= MaxPerDay + (IF crowded THEN Cardinality(Workers) - 1 ELSE 0)
          /\ made = usage + Cardinality({w \in Workers : worker[w].at \in {"count", "counting"}})
    BY DEF CapIsKept
  <2>1. made = usage + Cardinality(Uncounted) /\ usage + Cardinality(Begun) <= MaxPerDay + Leeway
    BY DEF CapInv
  <2>2. Uncounted \subseteq Begun /\ Begun \subseteq Workers
    BY DEF Uncounted, Begun
  <2>3. /\ Cardinality(Uncounted) <= Cardinality(Begun)
        /\ Cardinality(Uncounted) \in Nat /\ Cardinality(Begun) \in Nat
    BY <2>2, WorkersCount, FS_Subset
  <2>4. usage \in Nat /\ MaxPerDay \in Nat /\ Leeway \in Int
    <3>1. Cardinality(Workers) \in Nat
      BY WorkersCount
    <3> QED
      BY <3>1, NewsroomAssumption DEF CapInv, NewsTypeOK, Leeway
  <2>5. made <= MaxPerDay + Leeway
    BY <2>1, <2>3, <2>4
  <2> QED
    BY <2>1, <2>5 DEF Uncounted, Leeway
<1> QED
  BY <1>1, <1>2, <1>3, PTL DEF NewsSpec

-----------------------------------------------------------------------------
(* The posts.  As long as no two requests on a post overlap, what a request *)
(* read is what it finds when it writes.                                    *)

PostStatuses == {"absent", "DRAFT", "PUBLISHED", "ARCHIVED"}
PostRow == [status : PostStatuses, live : Version, draft : Version \cup {None}]
Edit == [field : {"text"}, value : Nat] \cup [field : {"section"}, value : Sections \cup {None}]
PostOps == {"save", "publish", "archive", "discard", "remove"}
PostRequest == [op : PostOps, post : Articles, row : PostRow, edit : Edit \cup {None}]

PostsTypeOK ==
    /\ post \in [Articles -> PostRow]
    /\ sections \subseteq Sections
    /\ editing \subseteq PostRequest
    /\ saves \in [Articles -> Nat]
    /\ \A q \in editing : q.op = "save" => q.edit \in Edit
    /\ aired \in [Articles -> Version \cup {None}]
    /\ wanted \in [Articles -> Version \cup {None}]
    /\ \A a \in Articles : post[a].status # "absent" => wanted[a] \in Version
    /\ \A q \in editing : wanted[q.post] \in Version

ReadsStand ==
    \A q \in editing : q.post \notin collided =>
        q.row = post[q.post] /\ post[q.post].status # "absent"

PostsInv == PostsTypeOK /\ ReadsStand /\ VersionsStand

\* VersionsStand, of one post.
VersionStands(a) ==
    /\ post[a].status = "PUBLISHED" => post[a].live = aired[a]
    /\ post[a].status # "absent" => WorkingCopy(post[a]) = wanted[a]

LEMMA WorkingTyped ==
    ASSUME NEW row \in PostRow
    PROVE  WorkingCopy(row) \in Version
BY DEF WorkingCopy, PostRow

LEMMA MergedTyped ==
    ASSUME NEW row \in PostRow, NEW edit \in Edit
    PROVE  /\ MergedPost(row, edit.field, edit.value) \in Version
           /\ MergedPost(row, edit.field, edit.value) =
                [WorkingCopy(row) EXCEPT ![edit.field] = edit.value]
<1>1. WorkingCopy(row) \in Version
  BY WorkingTyped
<1>2. CASE edit \in [field : {"text"}, value : Nat]
  BY <1>1, <1>2 DEF MergedPost, Version
<1>3. CASE edit \in [field : {"section"}, value : Sections \cup {None}]
  BY <1>1, <1>3 DEF MergedPost, Version
<1> QED
  BY <1>2, <1>3 DEF Edit

\* A request that writes its post, and it alone.
LEMMA ServedPost ==
    ASSUME PostsInv, NEW q \in editing, Served(q), NEW row \in PostRow, Writes(q, row),
           sections' = sections, saves' \in [Articles -> Nat],
           NEW onAir \in Version \cup {None}, aired' = [aired EXCEPT ![q.post] = onAir],
           NEW want \in Version, wanted' = [wanted EXCEPT ![q.post] = want],
           q.post \notin collided =>
               /\ row.status = "PUBLISHED" => row.live = onAir
               /\ row.status # "absent" => WorkingCopy(row) = want
    PROVE  PostsInv'
<1> DEFINE a == q.post
<1>1. a \in Articles
  BY DEF PostsInv, PostsTypeOK, PostRequest
<1>2. /\ post' = [post EXCEPT ![a] = row] /\ editing' = editing \ {q}
      /\ collided \subseteq collided'
      /\ \A r \in editing' : r.post = a => a \in collided'
  BY DEF Served, Writes
<1>3. PostsTypeOK'
  BY <1>1, <1>2 DEF PostsInv, PostsTypeOK
<1>4. ASSUME NEW r \in editing', r.post \notin collided'
      PROVE  r.row = post'[r.post] /\ post'[r.post].status # "absent"
  <2>1. r.post # a /\ r \in editing /\ r.post \notin collided /\ r.post \in Articles
    BY <1>2, <1>4 DEF PostsInv, PostsTypeOK, PostRequest
  <2> QED
    BY <1>2, <2>1 DEF PostsInv, PostsTypeOK, ReadsStand
<1>5. ASSUME NEW b \in Articles, b \notin collided' PROVE VersionStands(b)'
  <2>1. CASE b = a
    <3>1. post'[b] = row /\ aired'[b] = onAir /\ wanted'[b] = want /\ b \notin collided
      BY <1>2, <1>5, <2>1 DEF PostsInv, PostsTypeOK
    <3> QED
      BY <2>1, <3>1 DEF VersionStands
  <2>2. CASE b # a
    <3>1. post'[b] = post[b] /\ aired'[b] = aired[b] /\ wanted'[b] = wanted[b] /\ b \notin collided
      BY <1>2, <1>5, <2>2 DEF PostsInv, PostsTypeOK
    <3> QED
      BY <1>5, <3>1 DEF PostsInv, VersionsStand, VersionStands
  <2> QED
    BY <2>1, <2>2
<1> QED
  BY <1>3, <1>4, <1>5 DEF PostsInv, ReadsStand, VersionsStand, VersionStands

\* What a request finds, when nothing overlapped it.
LEMMA RequestFinds ==
    ASSUME PostsInv, NEW q \in editing
    PROVE  /\ q.post \in Articles /\ q.row \in PostRow /\ post[q.post] \in PostRow
           /\ q.op = "save" => q.edit \in Edit
           /\ wanted[q.post] \in Version /\ aired[q.post] \in Version \cup {None}
           /\ q.post \notin collided => q.row = post[q.post] /\ VersionStands(q.post)
                                     /\ post[q.post].status # "absent"
BY DEF PostsInv, PostsTypeOK, PostRequest, ReadsStand, VersionsStand, VersionStands

LEMMA SavedPost ==
    ASSUME PostsInv, NEW q \in editing, Save(q)
    PROVE  PostsInv'
<1> DEFINE a == q.post
           merged == MergedPost(q.row, q.edit.field, q.edit.value)
           want == [wanted[a] EXCEPT ![q.edit.field] = q.edit.value]
<1>1. /\ q.op = "save" /\ Served(q) /\ UNCHANGED <<sections, aired>>
      /\ saves' = [saves EXCEPT ![a] = IF q.edit.field = "text" THEN @ + 1 ELSE @]
  BY DEF Save
<1>2. wanted' = [wanted EXCEPT ![a] = want]
  BY DEF Save
<1>3. /\ a \in Articles /\ q.row \in PostRow /\ post[a] \in PostRow /\ q.edit \in Edit
  BY <1>1, RequestFinds
<1>4. /\ merged \in Version /\ merged # None
      /\ merged = [WorkingCopy(q.row) EXCEPT ![q.edit.field] = q.edit.value]
  BY <1>3, MergedTyped, PostsAssumption
<1>5. want \in Version
  <2>1. wanted[a] \in Version
    BY RequestFinds
  <2>2. CASE q.edit \in [field : {"text"}, value : Nat]
    BY <2>1, <2>2 DEF Version
  <2>3. CASE q.edit \in [field : {"section"}, value : Sections \cup {None}]
    BY <2>1, <2>3 DEF Version
  <2> QED
    BY <1>3, <2>2, <2>3 DEF Edit
<1>6. ASSUME a \notin collided PROVE q.row = post[a] /\ merged = want /\ VersionStands(a)
  <2>1. q.row = post[a] /\ VersionStands(a) /\ post[a].status # "absent"
    BY <1>6, RequestFinds
  <2>2. WorkingCopy(q.row) = wanted[a]
    BY <2>1 DEF VersionStands
  <2> QED
    BY <1>4, <2>1, <2>2
<1>7. aired' = [aired EXCEPT ![a] = aired[a]] /\ aired[a] \in Version \cup {None}
  BY <1>1, RequestFinds DEF PostsInv, PostsTypeOK
<1>8. saves' \in [Articles -> Nat]
  <2>1. saves[a] \in Nat /\ saves \in [Articles -> Nat]
    BY <1>3 DEF PostsInv, PostsTypeOK
  <2>2. (IF q.edit.field = "text" THEN saves[a] + 1 ELSE saves[a]) \in Nat
    BY <2>1
  <2> QED
    BY <1>1, <2>1, <2>2
<1> HIDE DEF merged, want
<1>9. CASE Overlays(q.row) /\ Writes(q, [post[a] EXCEPT !.draft = merged])
  <2> DEFINE row == [post[a] EXCEPT !.draft = merged]
  <2>1. /\ row \in PostRow /\ row.status = post[a].status /\ row.live = post[a].live
        /\ row.draft = merged
    BY <1>3, <1>4 DEF PostRow
  <2>2. WorkingCopy(row) = merged
    BY <1>4, <2>1 DEF WorkingCopy
  <2>3. a \notin collided =>
          /\ row.status = "PUBLISHED" => row.live = aired[a]
          /\ row.status # "absent" => WorkingCopy(row) = want
    BY <1>6, <2>1, <2>2 DEF VersionStands
  <2>4. Writes(q, row)
    BY <1>9
  <2> HIDE DEF row
  <2> QED
    BY <1>1, <1>2, <1>5, <1>7, <1>8, <2>1, <2>3, <2>4, ServedPost
<1>10. CASE ~Overlays(q.row) /\ Writes(q, [post[a] EXCEPT !.live = merged, !.draft = None])
  <2> DEFINE row == [post[a] EXCEPT !.live = merged, !.draft = None]
  <2>1. /\ row \in PostRow /\ row.status = post[a].status /\ row.live = merged
        /\ row.draft = None
    BY <1>3, <1>4 DEF PostRow
  <2>2. WorkingCopy(row) = merged
    BY <2>1 DEF WorkingCopy
  <2>3. a \notin collided =>
          /\ row.status = "PUBLISHED" => row.live = aired[a]
          /\ row.status # "absent" => WorkingCopy(row) = want
    BY <1>6, <1>10, <2>1, <2>2 DEF Overlays
  <2>4. Writes(q, row)
    BY <1>10
  <2> HIDE DEF row
  <2> QED
    BY <1>1, <1>2, <1>5, <1>7, <1>8, <2>1, <2>3, <2>4, ServedPost
<1> QED
  BY <1>9, <1>10 DEF Save, merged

\* What leaves what the editors want as it is.
LEMMA OtherPost ==
    ASSUME PostsInv, NEW q \in editing, Publish(q) \/ Archive(q) \/ Discard(q) \/ RemovePost(q)
    PROVE  PostsInv'
<1> DEFINE a == q.post
<1>1. /\ a \in Articles /\ q.row \in PostRow /\ post[a] \in PostRow
      /\ wanted[a] \in Version /\ aired[a] \in Version \cup {None}
      /\ a \notin collided => q.row = post[a] /\ VersionStands(a) /\ post[a].status # "absent"
  BY RequestFinds
<1>2. /\ post[a].live \in Version /\ WorkingCopy(q.row) \in Version
  BY <1>1, WorkingTyped DEF PostRow
<1>3. wanted = [wanted EXCEPT ![a] = wanted[a]] /\ aired = [aired EXCEPT ![a] = aired[a]]
  BY <1>1 DEF PostsInv, PostsTypeOK
<1>4. CASE Publish(q)
  <2> DEFINE w == WorkingCopy(q.row)
             row == [status |-> "PUBLISHED", live |-> w, draft |-> None]
  <2>1. /\ Served(q) /\ Writes(q, row) /\ UNCHANGED <<sections, saves, wanted>>
        /\ aired' = [aired EXCEPT ![a] = w]
    BY <1>4 DEF Publish
  <2>2. row \in PostRow /\ row.live = w /\ WorkingCopy(row) = w
    BY <1>2 DEF PostRow, PostStatuses, WorkingCopy
  <2>3. a \notin collided =>
          /\ row.status = "PUBLISHED" => row.live = w
          /\ row.status # "absent" => WorkingCopy(row) = wanted[a]
    BY <1>1, <2>2 DEF VersionStands
  <2>4. saves' \in [Articles -> Nat]
    BY <2>1 DEF PostsInv, PostsTypeOK
  <2>5. w \in Version \cup {None}
    BY <1>2
  <2> HIDE DEF w, row
  <2> QED
    <3>1. /\ aired' = [aired EXCEPT ![q.post] = w] /\ sections' = sections
          /\ wanted' = [wanted EXCEPT ![q.post] = wanted[a]] /\ Served(q) /\ Writes(q, row)
      BY <1>3, <2>1
    <3> HIDE DEF a
    <3> QED
      BY <1>1, <2>2, <2>3, <2>4, <2>5, <3>1, ServedPost DEF a
<1>5. CASE Archive(q)
  <2> DEFINE row == [post[a] EXCEPT !.status = "ARCHIVED"]
  <2>1. /\ Served(q) /\ Writes(q, row) /\ UNCHANGED <<sections, saves, aired, wanted>>
    BY <1>5 DEF Archive
  <2>2. row \in PostRow /\ row.status = "ARCHIVED" /\ WorkingCopy(row) = WorkingCopy(post[a])
    BY <1>1 DEF PostRow, PostStatuses, WorkingCopy
  <2>3. a \notin collided => WorkingCopy(row) = wanted[a]
    BY <1>1, <2>2 DEF VersionStands
  <2>4. saves' \in [Articles -> Nat]
    BY <2>1 DEF PostsInv, PostsTypeOK
  <2> HIDE DEF row
  <2> QED
    BY <1>1, <1>3, <2>1, <2>2, <2>3, <2>4, ServedPost
<1>6. CASE Discard(q)
  <2> DEFINE row == [post[a] EXCEPT !.draft = None]
  <2>1. /\ Served(q) /\ Writes(q, row) /\ UNCHANGED <<sections, saves, aired>>
        /\ wanted' = [wanted EXCEPT ![a] = post[a].live]
    BY <1>6 DEF Discard
  <2>2. /\ row \in PostRow /\ row.status = post[a].status /\ row.live = post[a].live
        /\ WorkingCopy(row) = post[a].live
    BY <1>1 DEF PostRow, WorkingCopy
  <2>3. a \notin collided =>
          /\ row.status = "PUBLISHED" => row.live = aired[a]
          /\ row.status # "absent" => WorkingCopy(row) = post[a].live
    BY <1>1, <2>2 DEF VersionStands
  <2>4. saves' \in [Articles -> Nat]
    BY <2>1 DEF PostsInv, PostsTypeOK
  <2> HIDE DEF row
  <2> QED
    <3> DEFINE want == post[a].live
               onAir == aired[a]
    <3>1. /\ aired' = [aired EXCEPT ![q.post] = onAir] /\ sections' = sections
          /\ wanted' = [wanted EXCEPT ![q.post] = want] /\ Served(q) /\ Writes(q, row)
          /\ want \in Version /\ onAir \in Version \cup {None} /\ row \in PostRow
      BY <1>1, <1>2, <1>3, <2>1, <2>2
    <3>2. q.post \notin collided =>
            /\ row.status = "PUBLISHED" => row.live = onAir
            /\ row.status # "absent" => WorkingCopy(row) = want
      BY <2>3
    <3> HIDE DEF want, onAir
    <3> QED
      BY <2>4, <3>1, <3>2, ServedPost
<1>7. CASE RemovePost(q)
  <2> DEFINE row == [NoPost EXCEPT !.live = [Blank EXCEPT !.text = 1]]
  <2>1. /\ Served(q) /\ Writes(q, row) /\ UNCHANGED <<sections, saves, aired, wanted>>
    BY <1>7 DEF RemovePost
  <2>2. row \in PostRow /\ row.status = "absent"
    BY DEF PostRow, PostStatuses, NoPost, Blank, Version
  <2>4. saves' \in [Articles -> Nat]
    BY <2>1 DEF PostsInv, PostsTypeOK
  <2> HIDE DEF row
  <2> QED
    BY <1>1, <1>3, <2>1, <2>2, <2>4, ServedPost
<1> QED
  BY <1>4, <1>5, <1>6, <1>7
\* A request that reads its post, and one whose write throws.
LEMMA ReadPost ==
    ASSUME PostsInv, NEW a \in Articles, NEW op \in PostOps, NEW edit \in Edit \cup {None},
           op = "save" => edit \in Edit, ReadsPost(op, a, edit)
    PROVE  PostsInv'
<1> DEFINE new == [op |-> op, post |-> a, row |-> post[a], edit |-> edit]
<1>1. /\ post[a].status # "absent" /\ editing' = editing \cup {new}
      /\ UNCHANGED <<post, sections, saves, aired, wanted, collided>>
  BY DEF ReadsPost
<1>2. /\ new \in PostRequest /\ new.post = a /\ new.row = post[a] /\ new.op = op
      /\ new.edit = edit /\ wanted[a] \in Version
  BY <1>1 DEF PostsInv, PostsTypeOK, PostRequest
<1> HIDE DEF new
<1>3. PostsTypeOK'
  BY <1>1, <1>2 DEF PostsInv, PostsTypeOK
<1>4. ReadsStand'
  BY <1>1, <1>2 DEF PostsInv, ReadsStand
<1>5. VersionsStand'
  BY <1>1 DEF PostsInv, VersionsStand, WorkingCopy
<1> QED
  BY <1>3, <1>4, <1>5 DEF PostsInv

LEMMA ThrownPost ==
    ASSUME PostsInv, NEW q \in editing, PostThrows(q)
    PROVE  PostsInv'
<1>1. /\ editing' = editing \ {q}
      /\ UNCHANGED <<post, sections, saves, aired, wanted, collided>>
  BY DEF PostThrows
<1>2. PostsTypeOK'
  BY <1>1 DEF PostsInv, PostsTypeOK
<1>3. ReadsStand'
  BY <1>1 DEF PostsInv, ReadsStand
<1>4. VersionsStand'
  BY <1>1 DEF PostsInv, VersionsStand, WorkingCopy
<1> QED
  BY <1>2, <1>3, <1>4 DEF PostsInv

\* A new post: no request reads one that is not there, and an id is not used twice.
LEMMA CreatedPost ==
    ASSUME PostsInv, NEW a \in Articles, NEW s \in sections \cup {None},
           NEW status \in {"DRAFT", "PUBLISHED"}, CreatePost(a, s, status)
    PROVE  PostsInv'
<1> DEFINE first == [text |-> 0, section |-> s]
           row == [status |-> status, live |-> first, draft |-> None]
           onAir == IF status = "PUBLISHED" THEN first ELSE None
<1>1. /\ post[a] = NoPost /\ post' = [post EXCEPT ![a] = row]
      /\ wanted' = [wanted EXCEPT ![a] = first] /\ aired' = [aired EXCEPT ![a] = onAir]
      /\ UNCHANGED <<sections, editing, saves, collided>>
  BY DEF CreatePost
<1>2. first \in Version /\ sections \subseteq Sections
  BY DEF PostsInv, PostsTypeOK, Version
<1>3. /\ row \in PostRow /\ row.status = status /\ row.live = first /\ WorkingCopy(row) = first
      /\ onAir \in Version \cup {None} /\ (status = "PUBLISHED" => onAir = first)
  BY <1>2 DEF PostRow, PostStatuses, WorkingCopy
<1>4. row.status # "absent"
  BY <1>3
<1> HIDE DEF first, row, onAir
<1>5. \A q \in editing : q.post = a => a \in collided
  BY <1>1 DEF PostsInv, ReadsStand, NoPost
<1>6. PostsTypeOK'
  BY <1>1, <1>2, <1>3 DEF PostsInv, PostsTypeOK, PostRequest
<1>7. ReadsStand'
  BY <1>1, <1>4, <1>5 DEF PostsInv, PostsTypeOK, PostRequest, ReadsStand
<1>8. ASSUME NEW b \in Articles, b \notin collided' PROVE VersionStands(b)'
  <2>1. CASE b = a
    <3>1. post'[b] = row /\ aired'[b] = onAir /\ wanted'[b] = first
      BY <1>1, <2>1 DEF PostsInv, PostsTypeOK
    <3> QED
      BY <1>3, <3>1 DEF VersionStands
  <2>2. CASE b # a
    <3>1. post'[b] = post[b] /\ aired'[b] = aired[b] /\ wanted'[b] = wanted[b] /\ b \notin collided
      BY <1>1, <1>8, <2>2 DEF PostsInv, PostsTypeOK
    <3> QED
      BY <1>8, <3>1 DEF PostsInv, VersionsStand, VersionStands
  <2> QED
    BY <2>1, <2>2
<1> QED
  BY <1>6, <1>7, <1>8 DEF PostsInv, VersionsStand, VersionStands

LEMMA UnfiledTyped ==
    ASSUME NEW version \in Version \cup {None}, NEW s
    PROVE  /\ Unfiled(version, s) \in Version \cup {None}
           /\ version \in Version => Unfiled(version, s) \in Version
BY PostsAssumption DEF Unfiled, Version

\* A category is deleted: the columns that named it name none, and the overlays
\* that hold the post's next version keep what they say.
LEMMA UnfiledPosts ==
    ASSUME PostsInv, NEW s \in sections, RemoveSection(s)
    PROVE  PostsInv'
<1> DEFINE row(b) == [post[b] EXCEPT !.live = Unfiled(post[b].live, s)]
           want(b) == IF post[b].draft = None THEN Unfiled(wanted[b], s) ELSE wanted[b]
<1>1. /\ sections' = sections \ {s} /\ UNCHANGED <<editing, saves>>
      /\ post' = [b \in Articles |-> row(b)]
      /\ aired' = [b \in Articles |-> Unfiled(aired[b], s)]
      /\ wanted' = [b \in Articles |-> want(b)]
      /\ collided' = collided \cup {q.post : q \in editing}
  BY DEF RemoveSection
<1>2. ASSUME NEW b \in Articles
      PROVE  /\ row(b) \in PostRow /\ row(b).status = post[b].status
             /\ row(b).live = Unfiled(post[b].live, s) /\ row(b).draft = post[b].draft
             /\ want(b) \in Version \cup {None}
             /\ Unfiled(aired[b], s) \in Version \cup {None}
             /\ wanted[b] \in Version => want(b) \in Version
  <2>1. /\ post[b] \in PostRow /\ wanted[b] \in Version \cup {None}
        /\ aired[b] \in Version \cup {None}
    BY <1>2 DEF PostsInv, PostsTypeOK
  <2>2. post[b].live \in Version
    BY <2>1 DEF PostRow
  <2>3. Unfiled(post[b].live, s) \in Version
    BY <2>2, UnfiledTyped
  <2>4. /\ row(b) \in PostRow /\ row(b).status = post[b].status
        /\ row(b).live = Unfiled(post[b].live, s) /\ row(b).draft = post[b].draft
    BY <2>1, <2>3 DEF PostRow
  <2>5. /\ Unfiled(aired[b], s) \in Version \cup {None}
        /\ Unfiled(wanted[b], s) \in Version \cup {None}
        /\ wanted[b] \in Version => Unfiled(wanted[b], s) \in Version
    BY <2>1, UnfiledTyped
  <2>6. /\ want(b) \in Version \cup {None}
        /\ wanted[b] \in Version => want(b) \in Version
    BY <2>1, <2>5
  <2> QED
    BY <2>4, <2>5, <2>6
<1>3. ASSUME NEW b \in Articles PROVE post'[b] = row(b) /\ wanted'[b] = want(b)
                                    /\ aired'[b] = Unfiled(aired[b], s)
  BY <1>1, <1>3
<1>4. ASSUME NEW b \in Articles, b \notin collided' PROVE VersionStands(b)'
  <2>1. VersionStands(b)
    BY <1>1, <1>4 DEF PostsInv, VersionsStand, VersionStands
  <2>2. /\ post'[b].status = post[b].status /\ post'[b].live = Unfiled(post[b].live, s)
        /\ post'[b].draft = post[b].draft /\ aired'[b] = Unfiled(aired[b], s)
        /\ wanted'[b] = IF post[b].draft = None THEN Unfiled(wanted[b], s) ELSE wanted[b]
    <3>1. post'[b] = row(b) /\ wanted'[b] = want(b) /\ aired'[b] = Unfiled(aired[b], s)
      BY <1>3
    <3>2. /\ row(b).status = post[b].status /\ row(b).draft = post[b].draft
          /\ row(b).live = Unfiled(post[b].live, s)
      BY <1>2
    <3> HIDE DEF row
    <3> QED
      BY <3>1, <3>2
  <2> QED
    BY <2>1, <2>2 DEF VersionStands, WorkingCopy
<1> HIDE DEF row, want
<1>5. PostsTypeOK'
  <2>1. /\ post' \in [Articles -> PostRow] /\ wanted' \in [Articles -> Version \cup {None}]
        /\ aired' \in [Articles -> Version \cup {None}]
    BY <1>1, <1>2
  <2>2. \A b \in Articles : post'[b].status # "absent" => wanted'[b] \in Version
    BY <1>2, <1>3 DEF PostsInv, PostsTypeOK
  <2>3. \A q \in editing' : wanted'[q.post] \in Version
    BY <1>1, <1>2, <1>3 DEF PostsInv, PostsTypeOK, PostRequest
  <2> QED
    BY <1>1, <2>1, <2>2, <2>3 DEF PostsInv, PostsTypeOK
<1>6. ReadsStand'
  BY <1>1 DEF ReadsStand
<1> QED
  BY <1>4, <1>5, <1>6 DEF PostsInv, VersionsStand, VersionStands

LEMMA PostsBegin ==
    ASSUME PostsInit
    PROVE  PostsInv
<1>1. Blank \in Version
  BY DEF Blank, Version
<1>2. NoPost \in PostRow /\ NoPost.status = "absent"
  BY <1>1 DEF NoPost, PostRow, PostStatuses
<1> QED
  BY <1>2 DEF PostsInit, PostsInv, PostsTypeOK, ReadsStand, VersionsStand

LEMMA PostsKept ==
    ASSUME PostsInv, [PostsNext]_postsVars
    PROVE  PostsInv'
<1>1. ASSUME NEW a \in Articles, ReadsSave(a) PROVE PostsInv'
  <2>1. saves[a] \in Nat /\ sections \subseteq Sections
    BY <1>1 DEF PostsInv, PostsTypeOK
  <2>2. CASE ReadsPost("save", a, [field |-> "text", value |-> saves[a] + 1])
    <3>1. [field |-> "text", value |-> saves[a] + 1] \in Edit /\ "save" \in PostOps
      BY <2>1 DEF Edit, PostOps
    <3> QED
      BY <1>1, <2>2, <3>1, ReadPost
  <2>3. ASSUME NEW s \in sections \cup {None},
               ReadsPost("save", a, [field |-> "section", value |-> s])
        PROVE  PostsInv'
    <3>1. [field |-> "section", value |-> s] \in Edit /\ "save" \in PostOps
      BY <2>1, <2>3 DEF Edit, PostOps
    <3> QED
      BY <1>1, <2>3, <3>1, ReadPost
  <2> QED
    BY <1>1, <2>2, <2>3 DEF ReadsSave
<1>2. ASSUME NEW a \in Articles, NEW op \in {"publish", "archive", "discard", "remove"},
             ReadsPost(op, a, None)
      PROVE  PostsInv'
  <2>1. op \in PostOps /\ op # "save" /\ None \in Edit \cup {None}
    BY <1>2 DEF PostOps
  <2> QED
    BY <1>2, <2>1, ReadPost
<1>3. CASE UNCHANGED postsVars
  BY <1>3 DEF postsVars, PostsInv, PostsTypeOK, ReadsStand, VersionsStand, WorkingCopy
<1> QED
  BY <1>1, <1>2, <1>3, CreatedPost, SavedPost, OtherPost, ThrownPost, UnfiledPosts DEF PostsNext

\* What is on air is what was published last, and no edit is lost, of every post
\* that two requests did not overlap on.
THEOREM VersionsAlwaysStand == PostsSpec => []VersionsStand
<1>1. PostsInv => VersionsStand
  BY DEF PostsInv
<1> QED
  BY <1>1, PostsBegin, PostsKept, PTL DEF PostsSpec

-----------------------------------------------------------------------------
(* The tree of categories.                                                   *)

\* A function defined by repeating a step exists.
Repeats(S, x, F, n, f) ==
    /\ f \in [0 .. n -> S]
    /\ \A i \in 0 .. n : f[i] = IF i = 0 THEN x ELSE F[f[i - 1]]

LEMMA RepeatsExist ==
    ASSUME NEW S, NEW x \in S, NEW F \in [S -> S], NEW n \in Nat
    PROVE  \E f : Repeats(S, x, F, n, f)
<1> DEFINE Not == {m \in Nat : ~(\E f : Repeats(S, x, F, m, f))}
<1>1. \E f : Repeats(S, x, F, 0, f)
  <2> DEFINE f == [i \in 0 .. 0 |-> x]
  <2>1. f \in [0 .. 0 -> S]
    OBVIOUS
  <2>2. ASSUME NEW i \in 0 .. 0 PROVE f[i] = x /\ i = 0
    BY <2>2
  <2> HIDE DEF f
  <2> QED
    BY <2>1, <2>2 DEF Repeats
<1>2. ASSUME NEW m \in Nat, NEW f, Repeats(S, x, F, m, f) PROVE \E g : Repeats(S, x, F, m + 1, g)
  <2> DEFINE g == [i \in 0 .. m + 1 |-> IF i = 0 THEN x ELSE F[f[i - 1]]]
  <2>1. \A i \in 0 .. m + 1 : i # 0 => i - 1 \in 0 .. m
    OBVIOUS
  <2>2. g \in [0 .. m + 1 -> S]
    BY <1>2, <2>1 DEF Repeats
  <2>3. ASSUME NEW i \in 0 .. m + 1, i # 0 PROVE g[i] = F[g[i - 1]]
    <3>1. g[i] = F[f[i - 1]] /\ i - 1 \in 0 .. m
      BY <2>1, <2>3
    <3>2. f[i - 1] = IF i - 1 = 0 THEN x ELSE F[f[(i - 1) - 1]]
      BY <1>2, <3>1 DEF Repeats
    <3>3. i - 1 \in 0 .. m + 1
      BY <3>1
    <3>4. g[i - 1] = IF i - 1 = 0 THEN x ELSE F[f[(i - 1) - 1]]
      BY <3>3
    <3> QED
      BY <3>1, <3>2, <3>4
  <2>4. g[0] = x
    OBVIOUS
  <2> HIDE DEF g
  <2> QED
    BY <2>2, <2>3, <2>4 DEF Repeats
<1>3. Not = {}
  <2> SUFFICES ASSUME Not # {} PROVE FALSE
    OBVIOUS
  <2>1. PICK m \in Not : \A k \in Not : m <= k
    BY LeastNat
  <2>2. m # 0 /\ m \in Nat /\ ~(\E f : Repeats(S, x, F, m, f))
    BY <1>1, <2>1
  <2>3. m - 1 \in Nat /\ m - 1 \notin Not
    BY <2>1, <2>2
  <2>4. \E f : Repeats(S, x, F, m - 1, f)
    BY <2>3
  <2>5. \E f : Repeats(S, x, F, (m - 1) + 1, f)
    BY <1>2, <2>3, <2>4
  <2>6. (m - 1) + 1 = m
    BY <2>2
  <2> QED
    BY <2>2, <2>5, <2>6
<1> QED
  BY <1>3

Places == Nodes \cup {None, "absent", "deleted"}
Planted == parent \in [Nodes -> Places] /\ \A c \in Nodes : parent[c] \in Nodes => parent[c] \in Existing

\* dep is the depth of each category.
Ranked(dep) ==
    /\ dep \in [Nodes -> 1 .. MaxDepth]
    /\ \A c \in Nodes : parent[c] = None => dep[c] = 1
    /\ \A c \in Nodes : parent[c] \in Nodes => dep[c] = dep[parent[c]] + 1

LEMMA ExistingIs ==
    ASSUME Planted
    PROVE  /\ Existing \subseteq Nodes /\ None \notin Nodes
           /\ \A c \in Existing : parent[c] = None \/ parent[c] \in Existing
           /\ \A c \in Nodes : parent[c] \in Nodes \cup {None} => c \in Existing
BY CategoriesAssumption DEF Planted, Existing, Places, CategoriesAssumption

\* The depth is counted right, as long as no branch is longer than allowed.
Further(g) == [d \in Nodes |-> 1 + (IF parent[d] \in Nodes THEN g[parent[d]] ELSE 0)]
Lengths(f) ==
    [steps \in 0 .. MaxDepth |->
       [d \in Nodes |-> 1 + (IF parent[d] \in Nodes /\ steps # 0 THEN f[steps - 1][parent[d]] ELSE 0)]]

LEMMA DepthIsChosen == \A c : DepthOf(c) = (CHOOSE f : f = Lengths(f))[MaxDepth][c]
BY DEF DepthOf, Lengths

LEMMA LengthsExist == \E f : f = Lengths(f)
<1> DEFINE S == [Nodes -> Nat]
           F == [g \in S |-> Further(g)]
           x == [d \in Nodes |-> 1]
<1>0. MaxDepth \in Nat
  BY CategoriesAssumption DEF CategoriesAssumption
<1>1. F \in [S -> S] /\ x \in S
  BY DEF Further
<1>2. PICK f : Repeats(S, x, F, MaxDepth, f)
  <2> HIDE DEF S, F, x
  <2> QED
    BY <1>0, <1>1, RepeatsExist
<1>3. ASSUME NEW i \in 0 .. MaxDepth PROVE f[i] = Lengths(f)[i]
  <2>1. CASE i = 0
    <3>1. f[i] = x
      BY <1>2, <2>1 DEF Repeats
    <3>2. Lengths(f)[i] = [d \in Nodes |-> 1 + (IF parent[d] \in Nodes /\ FALSE THEN f[i - 1][parent[d]] ELSE 0)]
      BY <2>1 DEF Lengths
    <3> QED
      BY <3>1, <3>2
  <2>2. CASE i # 0
    <3>1. i - 1 \in 0 .. MaxDepth
      BY <1>0, <2>2
    <3>2. f[i] = F[f[i - 1]] /\ f[i - 1] \in S
      BY <1>2, <2>2, <3>1 DEF Repeats
    <3>3. f[i] = Further(f[i - 1])
      BY <3>2
    <3> QED
      BY <2>2, <3>3 DEF Further, Lengths
  <2> QED
    BY <2>1, <2>2
<1>4. f = [i \in 0 .. MaxDepth |-> f[i]] /\ Lengths(f) = [i \in 0 .. MaxDepth |-> Lengths(f)[i]]
  BY <1>2 DEF Repeats, Lengths
<1> QED
  BY <1>3, <1>4

LEMMA DepthIs ==
    ASSUME Planted, NEW dep, Ranked(dep), NEW c \in Existing
    PROVE  DepthOf(c) = dep[c]
<1> DEFINE f == CHOOSE h : h = Lengths(h)
<1>1. f = Lengths(f)
  BY LengthsExist, Zenon
<1>2. DepthOf(c) = f[MaxDepth][c]
  BY DepthIsChosen, Zenon
<1> HIDE DEF f
<1>0. MaxDepth \in Nat /\ Existing \subseteq Nodes /\ None \notin Nodes
  BY CategoriesAssumption, ExistingIs DEF CategoriesAssumption
<1>3. ASSUME NEW i \in 0 .. MaxDepth, NEW d \in Nodes
      PROVE  f[i][d] = 1 + (IF parent[d] \in Nodes /\ i # 0 THEN f[i - 1][parent[d]] ELSE 0)
  <2>1. Lengths(f)[i][d] = 1 + (IF parent[d] \in Nodes /\ i # 0 THEN f[i - 1][parent[d]] ELSE 0)
    BY DEF Lengths
  <2> QED
    BY <1>1, <2>1, Zenon
<1> DEFINE Right(i) == i <= MaxDepth => \A d \in Existing : i >= dep[d] - 1 => f[i][d] = dep[d]
           Not == {i \in Nat : ~Right(i)}
<1>4. Not = {}
  <2> SUFFICES ASSUME Not # {} PROVE FALSE
    OBVIOUS
  <2>1. PICK i \in Not : \A k \in Not : i <= k
    BY LeastNat
  <2>2. i \in 0 .. MaxDepth
    BY <1>0, <2>1
  <2>3. PICK d \in Existing : i >= dep[d] - 1 /\ f[i][d] # dep[d]
    BY <2>1
  <2>4. dep \in [Nodes -> 1 .. MaxDepth] /\ d \in Nodes
    BY <1>0 DEF Ranked
  <2>5. parent[d] \in Nodes
    <3>1. CASE parent[d] = None
      <4>1. dep[d] = 1 /\ f[i][d] = 1
        BY <1>0, <1>3, <2>2, <2>4, <3>1 DEF Ranked
      <4> QED
        BY <2>3, <4>1
    <3> QED
      BY <1>0, <3>1, ExistingIs
  <2>6. dep[d] = dep[parent[d]] + 1 /\ dep[parent[d]] \in 1 .. MaxDepth /\ parent[d] \in Existing
    BY <2>4, <2>5 DEF Ranked, Planted
  <2>7. i # 0 /\ i - 1 \in Nat /\ i - 1 <= MaxDepth /\ i - 1 >= dep[parent[d]] - 1
    BY <1>0, <2>2, <2>3, <2>6
  <2>8. Right(i - 1)
    BY <2>1, <2>7
  <2>9. f[i - 1][parent[d]] = dep[parent[d]]
    BY <2>6, <2>7, <2>8
  <2> QED
    BY <1>3, <2>2, <2>3, <2>4, <2>5, <2>6, <2>7, <2>9
<1>5. Right(MaxDepth)
  BY <1>0, <1>4
<1>6. dep[c] \in 1 .. MaxDepth
  BY <1>0 DEF Ranked
<1> QED
  BY <1>0, <1>2, <1>5, <1>6

\* The levels below a category: each is the children of the one before.
Levels(c, f) == [i \in 0 .. MaxDepth |-> IF i = 0 THEN {c} ELSE Children(f[i - 1])]

LEMMA LevelIsChosen == \A c : Level(c) = CHOOSE f : f = Levels(c, f)
BY DEF Level, Levels

LEMMA LevelsExist == ASSUME NEW c \in Nodes PROVE \E f : f = Levels(c, f)
<1> DEFINE S == SUBSET Nodes
           F == [cs \in S |-> Children(cs)]
<1>0. MaxDepth \in Nat
  BY CategoriesAssumption DEF CategoriesAssumption
<1>1. F \in [S -> S] /\ {c} \in S
  BY DEF Children
<1>2. PICK f : Repeats(S, {c}, F, MaxDepth, f)
  <2> HIDE DEF S, F
  <2> QED
    BY <1>0, <1>1, RepeatsExist
<1>3. ASSUME NEW i \in 0 .. MaxDepth PROVE f[i] = Levels(c, f)[i]
  <2>1. CASE i = 0
    BY <1>2, <2>1 DEF Repeats, Levels
  <2>2. CASE i # 0
    <3>1. i - 1 \in 0 .. MaxDepth
      BY <1>0, <2>2
    <3>2. f[i] = F[f[i - 1]] /\ f[i - 1] \in S
      BY <1>2, <2>2, <3>1 DEF Repeats
    <3>3. f[i] = Children(f[i - 1])
      BY <3>2
    <3> QED
      BY <2>2, <3>3 DEF Levels
  <2> QED
    BY <2>1, <2>2
<1>4. f = [i \in 0 .. MaxDepth |-> f[i]] /\ Levels(c, f) = [i \in 0 .. MaxDepth |-> Levels(c, f)[i]]
  BY <1>2 DEF Repeats, Levels
<1> QED
  BY <1>3, <1>4

LEMMA LevelIs ==
    ASSUME NEW c \in Nodes
    PROVE  /\ Level(c)[0] = {c}
           /\ \A i \in 0 .. MaxDepth : i # 0 => Level(c)[i] = Children(Level(c)[i - 1])
<1>1. Level(c) = Levels(c, Level(c))
  BY LevelIsChosen, LevelsExist, Zenon
<1>2. Levels(c, Level(c))[0] = {c}
  BY CategoriesAssumption DEF CategoriesAssumption, Levels
<1>3. \A i \in 0 .. MaxDepth : i # 0 => Levels(c, Level(c))[i] = Children(Level(c)[i - 1])
  BY DEF Levels
<1>4. Level(c)[0] = {c}
  BY <1>1, <1>2, Zenon
<1>5. \A i \in 0 .. MaxDepth : i # 0 => Level(c)[i] = Children(Level(c)[i - 1])
  BY <1>1, <1>3, Zenon
<1> QED
  BY <1>4, <1>5

\* The categories i levels below one are i levels deeper.
LEMMA LevelsDeepen ==
    ASSUME Planted, NEW dep, Ranked(dep), NEW c \in Existing
    PROVE  \A i \in 0 .. MaxDepth : \A d \in Level(c)[i] : d \in Existing /\ dep[d] = dep[c] + i
<1>0. MaxDepth \in Nat /\ Existing \subseteq Nodes /\ dep \in [Nodes -> 1 .. MaxDepth]
  BY CategoriesAssumption, ExistingIs DEF CategoriesAssumption, Ranked
<1> DEFINE Deepens(i) == i <= MaxDepth => \A d \in Level(c)[i] : d \in Existing /\ dep[d] = dep[c] + i
           Not == {i \in Nat : ~Deepens(i)}
<1>1. Deepens(0)
  BY <1>0, LevelIs
<1>2. ASSUME NEW i \in Nat, Deepens(i) PROVE Deepens(i + 1)
  <2> SUFFICES ASSUME i + 1 <= MaxDepth, NEW d \in Level(c)[i + 1]
               PROVE  d \in Existing /\ dep[d] = dep[c] + (i + 1)
    OBVIOUS
  <2>1. i + 1 \in 0 .. MaxDepth /\ i + 1 # 0 /\ (i + 1) - 1 = i /\ i <= MaxDepth
    BY <1>0
  <2>2. Level(c)[i + 1] = Children(Level(c)[(i + 1) - 1])
    BY <1>0, <2>1, LevelIs
  <2>3. d \in Nodes /\ parent[d] \in Level(c)[i]
    BY <2>1, <2>2 DEF Children
  <2>4. parent[d] \in Existing /\ dep[parent[d]] = dep[c] + i
    BY <1>2, <2>1, <2>3
  <2>5. d \in Existing /\ dep[d] = dep[parent[d]] + 1
    BY <1>0, <2>3, <2>4, ExistingIs DEF Ranked
  <2>6. dep[c] \in Nat
    BY <1>0
  <2> QED
    BY <2>4, <2>5, <2>6
<1> HIDE DEF Deepens
<1>3. Not = {}
  <2> SUFFICES ASSUME Not # {} PROVE FALSE
    OBVIOUS
  <2>1. PICK i \in Not : \A k \in Not : i <= k
    BY LeastNat
  <2>2. i # 0 /\ i \in Nat /\ ~Deepens(i)
    BY <1>1, <2>1
  <2>3. i - 1 \in Nat /\ i - 1 \notin Not /\ (i - 1) + 1 = i
    BY <2>1, <2>2
  <2>4. Deepens((i - 1) + 1)
    BY <1>2, <2>3
  <2> QED
    BY <2>2, <2>3, <2>4
<1> QED
  BY <1>0, <1>3 DEF Deepens

\* A subtree: the category and what hangs from it.
Subtree(c, s) ==
    /\ s \subseteq Existing /\ c \in s
    /\ \A d \in Existing \ {c} : d \in s <=> parent[d] \in s

\* The descendants are the subtree, all deeper than its root, and the height is
\* that of the deepest.
LEMMA DescendantsAre ==
    ASSUME Planted, NEW dep, Ranked(dep), NEW c \in Existing
    PROVE  /\ Subtree(c, DescendantIds(c))
           /\ \A d \in DescendantIds(c) : dep[d] >= dep[c] /\ (d # c => dep[d] > dep[c])
           /\ SubtreeHeight(c) \in Nat
           /\ \A d \in DescendantIds(c) : dep[d] - dep[c] + 1 <= SubtreeHeight(c)
<1>0. MaxDepth \in Nat /\ Existing \subseteq Nodes /\ dep \in [Nodes -> 1 .. MaxDepth] /\ None \notin Nodes
  BY CategoriesAssumption, ExistingIs DEF CategoriesAssumption, Ranked
<1>1. \A i \in 0 .. MaxDepth : \A d \in Level(c)[i] : d \in Existing /\ dep[d] = dep[c] + i
  BY LevelsDeepen
<1>2. /\ Level(c)[0] = {c}
      /\ \A i \in 0 .. MaxDepth : i # 0 => Level(c)[i] = Children(Level(c)[i - 1])
  BY <1>0, LevelIs
<1> DEFINE D == DescendantIds(c)
<1>3. \A d : d \in D <=> \E i \in 0 .. MaxDepth : d \in Level(c)[i]
  BY DEF DescendantIds
<1> HIDE DEF D
<1>4. c \in D /\ D \subseteq Existing
  <2>1. c \in D
    BY <1>0, <1>2, <1>3
  <2>2. D \subseteq Existing
    BY <1>1, <1>3
  <2> QED
    BY <2>1, <2>2
<1>5. ASSUME NEW d \in Existing, d # c, d \in D PROVE parent[d] \in D
  <2>1. PICK i \in 0 .. MaxDepth : d \in Level(c)[i]
    BY <1>3, <1>5
  <2>2. i # 0
    BY <1>2, <1>5, <2>1
  <2>3. i - 1 \in 0 .. MaxDepth
    BY <1>0, <2>2
  <2>4. d \in Children(Level(c)[i - 1])
    BY <1>2, <2>1, <2>2
  <2>5. parent[d] \in Level(c)[i - 1]
    BY <2>4 DEF Children
  <2> QED
    BY <1>3, <2>3, <2>5
<1>6. ASSUME NEW d \in Existing, parent[d] \in D PROVE d \in D
  <2>1. PICK i \in 0 .. MaxDepth : parent[d] \in Level(c)[i]
    BY <1>3, <1>6
  <2>2. parent[d] \in Existing /\ dep[parent[d]] = dep[c] + i
    BY <1>1, <2>1
  <2>3. d \in Nodes /\ dep[d] = dep[c] + i + 1 /\ dep[d] \in 1 .. MaxDepth /\ dep[c] \in 1 .. MaxDepth
    BY <1>0, <2>2 DEF Ranked
  <2>4. i + 1 \in 0 .. MaxDepth /\ i + 1 # 0 /\ (i + 1) - 1 = i
    BY <1>0, <2>3
  <2>5. Level(c)[i + 1] = Children(Level(c)[i])
    BY <1>2, <2>4
  <2>6. d \in Level(c)[i + 1]
    BY <2>1, <2>3, <2>5 DEF Children
  <2> QED
    BY <1>3, <2>4, <2>6
<1>7. Subtree(c, D)
  BY <1>4, <1>5, <1>6 DEF Subtree
<1>8. ASSUME NEW d \in D PROVE dep[d] >= dep[c] /\ (d # c => dep[d] > dep[c])
  <2>1. PICK i \in 0 .. MaxDepth : d \in Level(c)[i]
    BY <1>3, <1>8
  <2>2. dep[d] = dep[c] + i /\ dep[c] \in Nat
    BY <1>0, <1>1, <2>1
  <2>3. d # c => i # 0
    BY <1>2, <2>1
  <2> QED
    BY <2>2, <2>3
<1> DEFINE Tall == {i \in 0 .. MaxDepth : Level(c)[i] # {}}
<1>9. SubtreeHeight(c) = Cardinality(Tall)
  BY DEF SubtreeHeight
<1>10. IsFiniteSet(Tall) /\ Cardinality(Tall) \in Nat
  <2>1. IsFiniteSet(0 .. MaxDepth)
    BY <1>0, FS_Interval
  <2>2. Tall \in SUBSET (0 .. MaxDepth)
    OBVIOUS
  <2> HIDE DEF Tall
  <2>3. IsFiniteSet(Tall)
    BY <2>1, <2>2, FS_Subset
  <2> QED
    BY <2>3, FS_CardinalityType
<1>11. \A i \in Tall : i # 0 => i - 1 \in Tall
  BY <1>0, <1>2 DEF Children
<1>12. ASSUME NEW d \in D PROVE dep[d] - dep[c] + 1 <= Cardinality(Tall)
  <2>1. PICK i \in 0 .. MaxDepth : d \in Level(c)[i]
    BY <1>3, <1>12
  <2>2. dep[d] = dep[c] + i /\ dep[c] \in Nat
    BY <1>0, <1>1, <2>1
  <2>3. i \in Tall
    BY <2>1
  <2> DEFINE Short == {k \in Nat : k <= i /\ i - k \notin Tall}
  <2> HIDE DEF Tall
  <2>4. Short = {}
    <3> SUFFICES ASSUME Short # {} PROVE FALSE
      OBVIOUS
    <3>1. PICK k \in Short : \A m \in Short : k <= m
      BY LeastNat
    <3>2. k # 0 /\ k \in Nat /\ k <= i /\ i - k \notin Tall
      BY <2>3, <3>1
    <3>3. k - 1 \in Nat /\ k - 1 <= i /\ k - 1 \notin Short
      BY <3>1, <3>2
    <3>4. i - (k - 1) \in Tall /\ i - (k - 1) # 0
      BY <3>2, <3>3
    <3>5. (i - (k - 1)) - 1 \in Tall
      BY <1>11, <3>4
    <3> QED
      BY <3>2, <3>5
  <2>5. 0 .. i \subseteq Tall
    <3> SUFFICES ASSUME NEW k \in 0 .. i PROVE k \in Tall
      OBVIOUS
    <3>1. i - k \in Nat /\ i - k <= i /\ i - (i - k) = k
      OBVIOUS
    <3> QED
      BY <2>4, <3>1
  <2>6. Cardinality(0 .. i) <= Cardinality(Tall)
    BY <1>10, <2>5, FS_Subset
  <2>7. Cardinality(0 .. i) = i + 1
    BY FS_Interval
  <2> QED
    BY <1>10, <2>2, <2>6, <2>7
<1> QED
  BY <1>7, <1>8, <1>9, <1>10, <1>12 DEF D

\* What holds a category, as the hub climbs to it.
Rise(s) == s \cup {parent[d] : d \in s \cap Existing}
Ups(c, f) == [i \in 0 .. Cardinality(Nodes) |-> IF i = 0 THEN {c} ELSE Rise(f[i - 1])]
Up(c) == CHOOSE f : f = Ups(c, f)

LEMMA HoldingIs == \A c : Holding(c) = Up(c)[Cardinality(Nodes)] \cap Nodes
BY DEF Holding, Up, Ups, Rise

LEMMA CountOfNodes == Cardinality(Nodes) \in Nat
BY CategoriesAssumption, FS_CardinalityType DEF CategoriesAssumption

LEMMA UpsExist == ASSUME Planted, NEW c \in Nodes PROVE \E f : f = Ups(c, f)
<1> DEFINE S == SUBSET Places
           F == [s \in S |-> Rise(s)]
           n == Cardinality(Nodes)
<1>0. n \in Nat
  BY CountOfNodes
<1> HIDE DEF n
<1>1. F \in [S -> S] /\ {c} \in S
  <2>1. {c} \in S
    BY DEF Places
  <2>2. ASSUME NEW s \in S PROVE Rise(s) \in S
    BY ExistingIs DEF Planted, Places, Rise
  <2> QED
    BY <2>1, <2>2
<1>2. PICK f : Repeats(S, {c}, F, n, f)
  <2> HIDE DEF S, F
  <2> QED
    BY <1>0, <1>1, RepeatsExist
<1>3. ASSUME NEW i \in 0 .. n PROVE f[i] = Ups(c, f)[i]
  <2>1. CASE i = 0
    BY <1>2, <2>1 DEF Repeats, Ups, n
  <2>2. CASE i # 0
    <3>1. i - 1 \in 0 .. n
      BY <1>0, <2>2
    <3>2. f[i] = F[f[i - 1]] /\ f[i - 1] \in S
      BY <1>2, <2>2, <3>1 DEF Repeats
    <3>3. f[i] = Rise(f[i - 1])
      BY <3>2
    <3> QED
      BY <2>2, <3>3 DEF Ups, n
  <2> QED
    BY <2>1, <2>2
<1>4. f = [i \in 0 .. n |-> f[i]] /\ Ups(c, f) = [i \in 0 .. n |-> Ups(c, f)[i]]
  BY <1>2 DEF Repeats, Ups, n
<1> QED
  BY <1>3, <1>4

LEMMA UpIs ==
    ASSUME Planted, NEW c \in Nodes
    PROVE  /\ Up(c)[0] = {c}
           /\ \A i \in 0 .. Cardinality(Nodes) : i # 0 => Up(c)[i] = Rise(Up(c)[i - 1])
<1>1. Up(c) = Ups(c, Up(c))
  BY UpsExist, Zenon DEF Up
<1>2. Ups(c, Up(c))[0] = {c}
  BY CountOfNodes DEF Ups
<1>3. \A i \in 0 .. Cardinality(Nodes) : i # 0 => Ups(c, Up(c))[i] = Rise(Up(c)[i - 1])
  BY DEF Ups
<1>4. Up(c)[0] = {c}
  BY <1>1, <1>2, Zenon
<1>5. \A i \in 0 .. Cardinality(Nodes) : i # 0 => Up(c)[i] = Rise(Up(c)[i - 1])
  BY <1>1, <1>3, Zenon
<1> QED
  BY <1>4, <1>5

\* A category is found from those below it, after as many steps as there are levels
\* between them, and is kept from then on.
LEMMA ClimbsFrom ==
    ASSUME Planted, NEW d \in Existing, parent[d] \in Nodes
    PROVE  \A i \in 0 .. Cardinality(Nodes) :
              i # 0 => Up(parent[d])[i - 1] \subseteq Up(d)[i]
<1> DEFINE n == Cardinality(Nodes)
<1>0. n \in Nat /\ d \in Nodes
  BY CountOfNodes, ExistingIs
<1> DEFINE Climbs(i) == i + 1 <= n => Up(parent[d])[i] \subseteq Up(d)[i + 1]
           Not == {i \in Nat : ~Climbs(i)}
<1>1. /\ Up(d)[0] = {d} /\ Up(parent[d])[0] = {parent[d]}
      /\ \A i \in 0 .. n : i # 0 => /\ Up(d)[i] = Rise(Up(d)[i - 1])
                                  /\ Up(parent[d])[i] = Rise(Up(parent[d])[i - 1])
  BY <1>0, UpIs
<1> HIDE DEF n
<1>2. Climbs(0)
  <2> SUFFICES ASSUME 1 <= n PROVE parent[d] \in Up(d)[1]
    BY <1>1
  <2>1. 1 \in 0 .. n /\ 1 # 0 /\ 1 - 1 = 0
    BY <1>0
  <2>2. Up(d)[1] = Rise(Up(d)[1 - 1])
    BY <1>1, <2>1
  <2>3. Up(d)[1] = Rise({d})
    BY <1>1, <2>1, <2>2
  <2> QED
    BY <2>3 DEF Rise
<1>3. ASSUME NEW i \in Nat, Climbs(i) PROVE Climbs(i + 1)
  <2> SUFFICES ASSUME (i + 1) + 1 <= n PROVE Up(parent[d])[i + 1] \subseteq Up(d)[(i + 1) + 1]
    OBVIOUS
  <2>1. /\ i + 1 \in 0 .. n /\ i + 1 # 0 /\ (i + 1) - 1 = i
        /\ (i + 1) + 1 \in 0 .. n /\ (i + 1) + 1 # 0 /\ ((i + 1) + 1) - 1 = i + 1
    BY <1>0
  <2>2. Up(parent[d])[i + 1] = Rise(Up(parent[d])[(i + 1) - 1])
    BY <1>1, <2>1
  <2>3. Up(d)[(i + 1) + 1] = Rise(Up(d)[((i + 1) + 1) - 1])
    BY <1>1, <2>1
  <2>4. Up(parent[d])[i] \subseteq Up(d)[i + 1]
    BY <1>3, <2>1
  <2>5. Rise(Up(parent[d])[i]) \subseteq Rise(Up(d)[i + 1])
    BY <2>4 DEF Rise
  <2> QED
    BY <2>1, <2>2, <2>3, <2>5
<1> HIDE DEF Climbs
<1>4. Not = {}
  <2> SUFFICES ASSUME Not # {} PROVE FALSE
    OBVIOUS
  <2>1. PICK i \in Not : \A k \in Not : i <= k
    BY LeastNat
  <2>2. i # 0 /\ i \in Nat /\ ~Climbs(i)
    BY <1>2, <2>1
  <2>3. i - 1 \in Nat /\ i - 1 \notin Not /\ (i - 1) + 1 = i
    BY <2>1, <2>2
  <2>4. Climbs((i - 1) + 1)
    BY <1>3, <2>3
  <2> QED
    BY <2>2, <2>3, <2>4
<1>5. ASSUME NEW i \in 0 .. n, i # 0 PROVE Up(parent[d])[i - 1] \subseteq Up(d)[i]
  <2>1. i - 1 \in Nat /\ (i - 1) + 1 = i /\ (i - 1) + 1 <= n
    BY <1>0, <1>5
  <2>2. Climbs(i - 1)
    BY <1>4, <2>1
  <2> QED
    BY <2>1, <2>2 DEF Climbs
<1> QED
  BY <1>5 DEF n

LEMMA UpGrows ==
    ASSUME Planted, NEW d \in Nodes, NEW i \in 0 .. Cardinality(Nodes)
    PROVE  Up(d)[i] \subseteq Up(d)[Cardinality(Nodes)]
<1> DEFINE n == Cardinality(Nodes)
           Not == {k \in Nat : k <= n - i /\ ~(Up(d)[i] \subseteq Up(d)[i + k])}
<1>0. n \in Nat
  BY CountOfNodes
<1>1. \A j \in 0 .. n : j # 0 => Up(d)[j - 1] \subseteq Up(d)[j]
  BY UpIs DEF Rise
<1> HIDE DEF n
<1>2. i \in 0 .. n
  BY DEF n
<1>3. Not = {}
  <2> SUFFICES ASSUME Not # {} PROVE FALSE
    OBVIOUS
  <2>1. PICK k \in Not : \A m \in Not : k <= m
    BY LeastNat
  <2>2. k # 0 /\ k \in Nat /\ k <= n - i /\ ~(Up(d)[i] \subseteq Up(d)[i + k])
    BY <1>2, <2>1
  <2>3. k - 1 \in Nat /\ k - 1 <= n - i /\ k - 1 \notin Not
    BY <1>0, <1>2, <2>1, <2>2
  <2>4. Up(d)[i] \subseteq Up(d)[i + (k - 1)]
    BY <2>3
  <2>5. i + k \in 0 .. n /\ i + k # 0 /\ (i + k) - 1 = i + (k - 1)
    BY <1>0, <1>2, <2>2
  <2> QED
    BY <1>1, <2>2, <2>4, <2>5
<1>4. n - i \in Nat /\ n - i <= n - i /\ i + (n - i) = n
  BY <1>0, <1>2
<1>5. Up(d)[i] \subseteq Up(d)[i + (n - i)]
  <2> DEFINE k == n - i
  <2>1. k \in Nat /\ k <= n - i /\ k \notin Not
    BY <1>3, <1>4
  <2> QED
    BY <2>1
<1> QED
  BY <1>4, <1>5 DEF n

\* A category is as deep as it has categories above it, itself included: no deeper
\* than there are categories.
LEMMA NoDeeperThanMany ==
    ASSUME Planted, NEW dep, Ranked(dep), NEW c \in Existing
    PROVE  dep[c] <= Cardinality(Nodes)
<1>0. /\ MaxDepth \in Nat /\ Existing \subseteq Nodes /\ dep \in [Nodes -> 1 .. MaxDepth]
      /\ IsFiniteSet(Nodes) /\ None \notin Nodes
  BY CategoriesAssumption, ExistingIs DEF CategoriesAssumption, Ranked
<1> DEFINE Not == {k \in Nat : k < dep[c] /\ ~\E e \in Existing : dep[e] = dep[c] - k}
<1>1. dep[c] \in 1 .. MaxDepth
  BY <1>0
<1>2. Not = {}
  <2> SUFFICES ASSUME Not # {} PROVE FALSE
    OBVIOUS
  <2>1. PICK k \in Not : \A m \in Not : k <= m
    BY LeastNat
  <2>2. k \in Nat /\ k < dep[c] /\ ~\E e \in Existing : dep[e] = dep[c] - k
    BY <2>1
  <2>3. k # 0
    BY <1>1, <2>2
  <2>4. k - 1 \in Nat /\ k - 1 < dep[c] /\ k - 1 \notin Not
    BY <1>1, <2>1, <2>2, <2>3
  <2>5. PICK e \in Existing : dep[e] = dep[c] - (k - 1)
    BY <2>4
  <2>6. dep[e] # 1
    BY <1>1, <2>2, <2>5
  <2>7. parent[e] \in Existing
    BY <1>0, <2>6, ExistingIs DEF Ranked
  <2>8. dep[e] = dep[parent[e]] + 1 /\ dep[parent[e]] \in 1 .. MaxDepth
    BY <1>0, <2>7 DEF Ranked
  <2>9. dep[parent[e]] = dep[c] - k
    BY <1>1, <2>2, <2>5, <2>8
  <2> QED
    BY <2>2, <2>7, <2>9
<1> DEFINE Depths == {dep[e] : e \in Nodes}
<1>3. 1 .. dep[c] \subseteq Depths
  <2> SUFFICES ASSUME NEW k \in 1 .. dep[c] PROVE k \in Depths
    OBVIOUS
  <2>1. dep[c] - k \in Nat /\ dep[c] - k < dep[c] /\ dep[c] - (dep[c] - k) = k
    BY <1>1
  <2>2. PICK e \in Existing : dep[e] = dep[c] - (dep[c] - k)
    BY <1>2, <2>1
  <2> QED
    BY <1>0, <2>1, <2>2
<1>4. IsFiniteSet(Depths) /\ Cardinality(Depths) <= Cardinality(Nodes)
  <2>1. dep \in Surjection(Nodes, Depths)
    BY <1>0 DEF Surjection
  <2> HIDE DEF Depths
  <2> QED
    BY <1>0, <2>1, FS_Surjection
<1>5. Cardinality(1 .. dep[c]) <= Cardinality(Depths) /\ Cardinality(1 .. dep[c]) \in Nat
  <2> HIDE DEF Depths
  <2> QED
    BY <1>3, <1>4, FS_Subset, FS_CardinalityType
<1>6. Cardinality(1 .. dep[c]) = dep[c]
  BY <1>1, FS_Interval
<1>7. Cardinality(Depths) \in Nat /\ Cardinality(Nodes) \in Nat
  BY <1>0, <1>4, FS_CardinalityType
<1> QED
  BY <1>1, <1>4, <1>5, <1>6, <1>7

\* What holds a category is what it descends from.
LEMMA DescendantClimbs ==
    ASSUME Planted, NEW dep, Ranked(dep), NEW c \in Existing, NEW d \in DescendantIds(c)
    PROVE  c \in Holding(d)
<1> DEFINE n == Cardinality(Nodes)
           Climbs(i) == \A e \in Existing : dep[e] = dep[c] + i /\ e \in DescendantIds(c) => c \in Up(e)[i]
           Not == {i \in Nat : ~Climbs(i)}
<1>0. /\ MaxDepth \in Nat /\ Existing \subseteq Nodes /\ dep \in [Nodes -> 1 .. MaxDepth]
      /\ None \notin Nodes /\ n \in Nat
  BY CategoriesAssumption, ExistingIs, CountOfNodes DEF CategoriesAssumption, Ranked
<1>1. /\ Subtree(c, DescendantIds(c))
      /\ \A e \in DescendantIds(c) : dep[e] >= dep[c] /\ (e # c => dep[e] > dep[c])
  BY DescendantsAre
<1>2. Climbs(0)
  <2> SUFFICES ASSUME NEW e \in Existing, dep[e] = dep[c] + 0, e \in DescendantIds(c)
               PROVE  c \in Up(e)[0]
    OBVIOUS
  <2>1. e = c
    BY <1>0, <1>1
  <2> QED
    BY <1>0, <2>1, UpIs
<1>3. ASSUME NEW i \in Nat, Climbs(i) PROVE Climbs(i + 1)
  <2> SUFFICES ASSUME NEW e \in Existing, dep[e] = dep[c] + (i + 1), e \in DescendantIds(c)
               PROVE  c \in Up(e)[i + 1]
    OBVIOUS
  <2>1. e # c /\ dep[e] \in Nat /\ dep[c] \in 1 .. MaxDepth
    BY <1>0
  <2>2. parent[e] \in DescendantIds(c) /\ DescendantIds(c) \subseteq Existing
    BY <1>1, <2>1 DEF Subtree
  <2>3. parent[e] \in Existing /\ dep[e] = dep[parent[e]] + 1 /\ dep[parent[e]] \in Nat
    BY <1>0, <2>2 DEF Ranked
  <2>4. c \in Up(parent[e])[i]
    BY <1>3, <2>1, <2>2, <2>3
  <2>5. dep[e] <= n
    BY NoDeeperThanMany
  <2>6. i + 1 \in 0 .. n /\ i + 1 # 0 /\ (i + 1) - 1 = i
    BY <1>0, <2>1, <2>5
  <2>7. Up(parent[e])[(i + 1) - 1] \subseteq Up(e)[i + 1]
    BY <1>0, <2>3, <2>6, ClimbsFrom
  <2> QED
    BY <2>4, <2>6, <2>7
<1> HIDE DEF Climbs
<1>4. Not = {}
  <2> SUFFICES ASSUME Not # {} PROVE FALSE
    OBVIOUS
  <2>1. PICK i \in Not : \A k \in Not : i <= k
    BY LeastNat
  <2>2. i # 0 /\ i \in Nat /\ ~Climbs(i)
    BY <1>2, <2>1
  <2>3. i - 1 \in Nat /\ i - 1 \notin Not /\ (i - 1) + 1 = i
    BY <2>1, <2>2
  <2>4. Climbs((i - 1) + 1)
    BY <1>3, <2>3
  <2> QED
    BY <2>2, <2>3, <2>4
<1> DEFINE j == dep[d] - dep[c]
<1>5. d \in Existing /\ dep[d] \in 1 .. MaxDepth /\ dep[c] \in 1 .. MaxDepth /\ dep[d] >= dep[c] /\ dep[d] <= n
  BY <1>0, <1>1, NoDeeperThanMany DEF Subtree
<1>6. j \in Nat /\ dep[d] = dep[c] + j /\ j \in 0 .. n
  BY <1>0, <1>5
<1> HIDE DEF j
<1>7. c \in Up(d)[j]
  BY <1>4, <1>5, <1>6 DEF Climbs
<1>8. c \in Up(d)[n]
  BY <1>0, <1>5, <1>6, <1>7, UpGrows
<1> HIDE DEF n
<1> QED
  BY <1>0, <1>8, HoldingIs DEF n

\* What descends from a category descends from its parent.
LEMMA DescendWithin ==
    ASSUME Planted, NEW dep, Ranked(dep), NEW f \in Existing, parent[f] \in Nodes
    PROVE  DescendantIds(f) \subseteq DescendantIds(parent[f])
<1>0. /\ MaxDepth \in Nat /\ Existing \subseteq Nodes /\ dep \in [Nodes -> 1 .. MaxDepth] /\ None \notin Nodes
  BY CategoriesAssumption, ExistingIs DEF CategoriesAssumption, Ranked
<1> DEFINE D == DescendantIds(parent[f])
           Out == {dep[e] : e \in DescendantIds(f) \ D}
<1>1. parent[f] \in Existing
  BY <1>0 DEF Planted
<1>2. Subtree(parent[f], D) /\ Subtree(f, DescendantIds(f))
  BY <1>1, DescendantsAre
<1> HIDE DEF D
<1>3. dep[f] = dep[parent[f]] + 1 /\ dep[parent[f]] \in Nat
  BY <1>0 DEF Ranked
<1>4. f \in D
  BY <1>2, <1>3 DEF Subtree
<1>5. Out \subseteq Nat
  BY <1>0, <1>2 DEF Subtree
<1>6. Out = {}
  <2> SUFFICES ASSUME Out # {} PROVE FALSE
    OBVIOUS
  <2>1. PICK m \in Out : \A k \in Out : m <= k
    BY <1>5, LeastNat
  <2>2. PICK e \in DescendantIds(f) \ D : dep[e] = m
    BY <2>1
  <2>3. e \in Existing /\ e # f
    BY <1>2, <1>4, <2>2 DEF Subtree
  <2>4. parent[e] \in DescendantIds(f)
    BY <1>2, <2>2, <2>3 DEF Subtree
  <2>5. parent[e] \in Existing
    BY <1>2, <2>4 DEF Subtree
  <2>6. parent[e] \notin D
    <3>1. CASE e = parent[f]
      BY <1>2, <2>2, <3>1 DEF Subtree
    <3>2. CASE e # parent[f]
      BY <1>2, <2>2, <2>3, <3>2 DEF Subtree
    <3> QED
      BY <3>1, <3>2
  <2>7. dep[e] = dep[parent[e]] + 1 /\ dep[parent[e]] \in Nat /\ dep[parent[e]] \in Out
    BY <1>0, <2>3, <2>4, <2>5, <2>6 DEF Ranked
  <2>8. m <= dep[parent[e]]
    BY <2>1, <2>7
  <2> QED
    BY <2>2, <2>7, <2>8
<1> QED
  BY <1>6 DEF D

LEMMA ClimbDescends ==
    ASSUME Planted, NEW dep, Ranked(dep), NEW d \in Existing, NEW c \in Holding(d)
    PROVE  c \in Existing /\ d \in DescendantIds(c)
<1> DEFINE n == Cardinality(Nodes)
           Descends(i) == i <= n => \A e \in Up(d)[i] : e \in Nodes => e \in Existing /\ d \in DescendantIds(e)
           Not == {i \in Nat : ~Descends(i)}
<1>0. /\ MaxDepth \in Nat /\ Existing \subseteq Nodes /\ dep \in [Nodes -> 1 .. MaxDepth]
      /\ None \notin Nodes /\ n \in Nat
  BY CategoriesAssumption, ExistingIs, CountOfNodes DEF CategoriesAssumption, Ranked
<1>1. Up(d)[0] = {d} /\ \A i \in 0 .. n : i # 0 => Up(d)[i] = Rise(Up(d)[i - 1])
  BY <1>0, UpIs
<1> HIDE DEF n
<1>2. Descends(0)
  BY <1>1, DescendantsAre DEF Subtree
<1>3. ASSUME NEW f \in Existing, parent[f] \in Nodes PROVE DescendantIds(f) \subseteq DescendantIds(parent[f])
  BY <1>3, DescendWithin
<1>4. ASSUME NEW i \in Nat, Descends(i) PROVE Descends(i + 1)
  <2> SUFFICES ASSUME i + 1 <= n, NEW e \in Up(d)[i + 1], e \in Nodes
               PROVE  e \in Existing /\ d \in DescendantIds(e)
    OBVIOUS
  <2>1. i + 1 \in 0 .. n /\ i + 1 # 0 /\ (i + 1) - 1 = i /\ i <= n
    BY <1>0
  <2>2. Up(d)[i + 1] = Rise(Up(d)[i])
    BY <1>1, <2>1
  <2>3. \A f \in Up(d)[i] : f \in Nodes => f \in Existing /\ d \in DescendantIds(f)
    BY <1>4, <2>1
  <2>4. CASE e \in Up(d)[i]
    BY <2>3, <2>4
  <2>5. ASSUME NEW f \in Up(d)[i] \cap Existing, e = parent[f] PROVE e \in Existing /\ d \in DescendantIds(e)
    <3>1. d \in DescendantIds(f)
      BY <1>0, <2>3, <2>5
    <3>2. DescendantIds(f) \subseteq DescendantIds(parent[f])
      BY <1>3, <2>5
    <3>3. e \in Existing
      BY <1>0, <2>5 DEF Planted
    <3> QED
      BY <2>5, <3>1, <3>2, <3>3
  <2> QED
    BY <2>2, <2>4, <2>5 DEF Rise
<1> HIDE DEF Descends
<1>5. Not = {}
  <2> SUFFICES ASSUME Not # {} PROVE FALSE
    OBVIOUS
  <2>1. PICK i \in Not : \A k \in Not : i <= k
    BY LeastNat
  <2>2. i # 0 /\ i \in Nat /\ ~Descends(i)
    BY <1>2, <2>1
  <2>3. i - 1 \in Nat /\ i - 1 \notin Not /\ (i - 1) + 1 = i
    BY <2>1, <2>2
  <2>4. Descends((i - 1) + 1)
    BY <1>4, <2>3
  <2> QED
    BY <2>2, <2>3, <2>4
<1>6. Descends(n)
  BY <1>0, <1>5
<1> QED
  BY <1>0, <1>6, HoldingIs DEF Descends, n

\* In a forest no deeper than allowed, each category hangs from a root and both totals
\* count its subtree.
LEMMA ForestFromRanks ==
    ASSUME Planted, NEW dep, Ranked(dep), NEW c \in Existing
    PROVE  /\ \E root \in Holding(c) : parent[root] = None
           /\ DepthOf(c) <= MaxDepth
           /\ HubTotal(c) = PageTotal(c)
<1>0. /\ MaxDepth \in Nat /\ Existing \subseteq Nodes /\ dep \in [Nodes -> 1 .. MaxDepth] /\ None \notin Nodes
  BY CategoriesAssumption, ExistingIs DEF CategoriesAssumption, Ranked
<1>1. \E root \in Holding(c) : parent[root] = None
  <2> DEFINE High == {dep[e] : e \in Holding(c)}
  <2>1. Holding(c) \subseteq Existing
    BY ClimbDescends
  <2>2. c \in Holding(c)
    BY DescendantsAre, DescendantClimbs DEF Subtree
  <2>3. High \subseteq Nat /\ High # {}
    BY <1>0, <2>1, <2>2
  <2>4. PICK m \in High : \A k \in High : m <= k
    BY <2>3, LeastNat
  <2>5. PICK e \in Holding(c) : dep[e] = m
    BY <2>4
  <2>6. CASE parent[e] = None
    BY <2>5, <2>6
  <2>7. CASE parent[e] # None
    <3>1. e \in Existing /\ parent[e] \in Existing
      BY <2>1, <2>7, ExistingIs
    <3>2. dep[e] = dep[parent[e]] + 1 /\ dep[parent[e]] \in Nat
      BY <1>0, <3>1 DEF Ranked
    <3>3. Subtree(parent[e], DescendantIds(parent[e])) /\ Subtree(e, DescendantIds(e))
      BY <3>1, DescendantsAre
    <3>4. c \in DescendantIds(e)
      BY ClimbDescends
    <3>5. parent[e] \in Holding(c)
      <4>1. Planted /\ Ranked(dep) /\ parent[e] \in Nodes
        BY <1>0, <3>1
      <4>2. DescendantIds(e) \subseteq DescendantIds(parent[e])
        BY <3>1, <4>1, DescendWithin
      <4> QED
        BY <3>1, <3>4, <4>2, DescendantClimbs
    <3>6. m <= dep[parent[e]]
      BY <2>4, <3>5
    <3> QED
      BY <2>5, <3>2, <3>6
  <2> QED
    BY <2>6, <2>7
<1>2. DepthOf(c) <= MaxDepth
  BY <1>0, DepthIs
<1>3. HubTotal(c) = PageTotal(c)
  <2>1. {d \in Existing : c \in Holding(d)} = DescendantIds(c)
    BY DescendantsAre, DescendantClimbs, ClimbDescends DEF Subtree
  <2> QED
    BY <2>1 DEF HubTotal, PageTotal
<1> QED
  BY <1>1, <1>2, <1>3

Base(dep, p) == IF p = None THEN 0 ELSE dep[p]

\* s is the subtree of c and fits under p.
Fitting(dep, c, p, s) ==
    /\ Subtree(c, s) /\ p \notin s
    /\ \A d \in s : dep[d] >= dep[c] /\ Base(dep, p) + 1 + dep[d] - dep[c] <= MaxDepth

\* What the checks of a pending write have seen still holds, if it can be written.
Held(dep, q) ==
    /\ q.under # None => parent[q.under] # "absent"
    /\ q.op = "create" /\ q.under \in Existing => dep[q.under] < MaxDepth
    /\ q.op = "move" => parent[q.node] # "absent"
    /\ q.op = "move" /\ q.node \in Existing /\ q.under \in Existing \cup {None} =>
          \E s : Fitting(dep, q.node, q.under, s)

Filings == [op : {"create", "move"}, node : Nodes, under : Nodes \cup {None}]
Allowed(dep) == Ranked(dep) /\ \A q \in filing : Held(dep, q)

ForestInv ==
    /\ Planted /\ filing \subseteq Filings /\ tangled \in BOOLEAN
    /\ ~tangled => \E dep : Allowed(dep)

LEMMA ForestInit == CategoriesInit => ForestInv
<1> SUFFICES ASSUME CategoriesInit PROVE ForestInv
  OBVIOUS
<1> USE CategoriesAssumption DEF CategoriesAssumption
<1>1. Planted /\ filing \subseteq Filings /\ tangled \in BOOLEAN
  BY DEF CategoriesInit, Planted, Places, Existing
<1> DEFINE dep == [c \in Nodes |-> 1]
<1>2. Ranked(dep)
  BY DEF CategoriesInit, Ranked
<1> HIDE DEF dep
<1>3. Allowed(dep)
  BY <1>2 DEF Allowed, CategoriesInit
<1> QED
  BY <1>1, <1>3 DEF ForestInv

LEMMA ChecksKeepForest ==
    ASSUME ForestInv, NEW op \in {"create", "move"}, NEW c \in Nodes, NEW p \in Nodes \cup {None},
           Checks(op, c, p)
    PROVE  ForestInv'
<1> DEFINE new == [op |-> op, node |-> c, under |-> p]
<1>0. /\ Planted /\ MaxDepth \in Nat \ {0} /\ Existing \subseteq Nodes /\ None \notin Nodes
      /\ filing' = filing \cup {new} /\ UNCHANGED <<parent, tangled>>
  BY CategoriesAssumption, ExistingIs DEF CategoriesAssumption, ForestInv, Checks
<1>1. Planted' /\ filing' \subseteq Filings /\ tangled' \in BOOLEAN
  BY <1>0 DEF ForestInv, Planted, Existing, Filings
<1>2. ASSUME NEW dep, Allowed(dep) PROVE Held(dep, new)
  <2>0. Ranked(dep) /\ dep \in [Nodes -> 1 .. MaxDepth]
    BY <1>2 DEF Allowed, Ranked
  <2>1. CASE op = "create"
    <3>1. MayHold(p)
      BY <2>1 DEF Checks
    <3>2. p # None => parent[p] # "absent" /\ dep[p] < MaxDepth
      BY <1>0, <2>0, <3>1, DepthIs DEF MayHold, Existing
    <3> QED
      BY <1>0, <2>1, <3>2 DEF Held
  <2>2. CASE op = "move"
    <3>1. c \in Existing /\ MayMove(c, p)
      BY <2>2 DEF Checks
    <3> DEFINE D == DescendantIds(c)
    <3>2. /\ Subtree(c, D) /\ SubtreeHeight(c) \in Nat
          /\ \A d \in D : dep[d] >= dep[c] /\ dep[d] - dep[c] + 1 <= SubtreeHeight(c)
      BY <1>0, <2>0, <3>1, DescendantsAre
    <3>3. CASE p = None
      <4>1. p \notin D
        BY <1>0, <3>2, <3>3 DEF Subtree
      <4>2. \A d \in D : Base(dep, p) + 1 + dep[d] - dep[c] <= MaxDepth
        BY <1>0, <2>0, <3>1, <3>2, <3>3 DEF Base, Subtree
      <4>3. Fitting(dep, c, p, D)
        BY <3>2, <4>1, <4>2 DEF Fitting
      <4> QED
        BY <1>0, <2>2, <3>1, <3>3, <4>3 DEF Held, Existing
    <3>4. CASE p # None
      <4>1. p \in Existing /\ p \notin D /\ DepthOf(p) + SubtreeHeight(c) <= MaxDepth
        BY <3>1, <3>4 DEF MayMove, MayHold, Fits
      <4>2. dep[p] + SubtreeHeight(c) <= MaxDepth
        BY <1>0, <2>0, <4>1, DepthIs
      <4>3. \A d \in D : Base(dep, p) + 1 + dep[d] - dep[c] <= MaxDepth
        <5> SUFFICES ASSUME NEW d \in D PROVE dep[p] + 1 + dep[d] - dep[c] <= MaxDepth
          BY <3>4 DEF Base
        <5>1. dep[d] \in Nat /\ dep[c] \in Nat /\ dep[p] \in Nat
          BY <1>0, <2>0, <3>1, <3>2, <4>1 DEF Subtree
        <5>2. dep[d] - dep[c] + 1 <= SubtreeHeight(c)
          BY <3>2
        <5> HIDE DEF D
        <5> QED
          BY <1>0, <3>2, <4>2, <5>1, <5>2
      <4>4. Fitting(dep, c, p, D)
        BY <3>2, <4>1, <4>3 DEF Fitting
      <4> QED
        BY <1>0, <2>2, <3>1, <4>1, <4>4 DEF Held, Existing
    <3> QED
      BY <3>3, <3>4
  <2> QED
    BY <2>1, <2>2
<1> HIDE DEF new
<1>3. ASSUME NEW dep, Allowed(dep) PROVE Allowed(dep)'
  <2>1. \A q \in filing' : Held(dep, q)
    BY <1>0, <1>2, <1>3 DEF Allowed
  <2>2. Existing' = Existing
    BY <1>0 DEF Existing
  <2>3. \A q : Held(dep, q) => Held(dep, q)'
    BY <1>0, <2>2 DEF Held, Fitting, Subtree, Base
  <2>4. Ranked(dep)'
    BY <1>0, <1>3 DEF Allowed, Ranked
  <2> QED
    BY <2>1, <2>3, <2>4 DEF Allowed
<1>4. ~tangled' => \E dep : Allowed(dep)'
  BY <1>0, <1>3 DEF ForestInv
<1> QED
  BY <1>1, <1>4 DEF ForestInv

\* A write that is refused leaves the tree as it was.
LEMMA RefusalKeepsForest ==
    ASSUME ForestInv, NEW q \in filing, Files(q), ~Writable(q)
    PROVE  ForestInv'
<1>0. parent' = parent /\ filing' = filing \ {q} /\ (~tangled' => ~tangled) /\ tangled' \in BOOLEAN
  BY DEF Files, ForestInv
<1>1. Planted' /\ filing' \subseteq Filings
  BY <1>0 DEF ForestInv, Planted, Existing, Filings
<1>2. ASSUME NEW dep, Allowed(dep) PROVE Allowed(dep)'
  <2>2. Existing' = Existing
    BY <1>0 DEF Existing
  <2>3. \A o : Held(dep, o) => Held(dep, o)'
    BY <1>0, <2>2 DEF Held, Fitting, Subtree, Base
  <2>4. Ranked(dep)'
    BY <1>0, <1>2 DEF Allowed, Ranked
  <2> QED
    BY <1>0, <1>2, <2>3, <2>4 DEF Allowed
<1>3. ~tangled' => \E dep : Allowed(dep)'
  BY <1>0, <1>2 DEF ForestInv
<1> QED
  BY <1>0, <1>1, <1>3 DEF ForestInv

LEMMA WriteKeepsPlanted ==
    ASSUME ForestInv, NEW q \in filing, Files(q), Writable(q)
    PROVE  /\ Planted' /\ filing' = filing \ {q} /\ filing' \subseteq Filings /\ tangled' \in BOOLEAN
           /\ q \in Filings /\ parent' = [parent EXCEPT ![q.node] = q.under]
           /\ Existing' = Existing \cup {q.node}
           /\ ~tangled' => ~tangled /\ (q.op = "move" => filing' = {}) /\ \A o \in filing' : o.op = "create"
<1> USE CategoriesAssumption DEF CategoriesAssumption
<1>0. /\ parent' = [parent EXCEPT ![q.node] = q.under] /\ filing' = filing \ {q} /\ filing \subseteq Filings
      /\ tangled' = (tangled \/ \E o \in filing \ {q} : "move" \in {q.op, o.op}) /\ tangled \in BOOLEAN
      /\ Planted
  BY DEF Files, ForestInv
<1>1. q \in Filings /\ q.node \in Nodes /\ q.under \in Nodes \cup {None}
      /\ (q.under = None \/ q.under \in Existing)
  BY <1>0 DEF Filings, Writable
<1>2. Existing' = Existing \cup {q.node}
  BY <1>0, <1>1 DEF Existing, Planted, Places
<1>3. Planted'
  <2>1. parent' \in [Nodes -> Places]
    BY <1>0, <1>1 DEF Planted, Places
  <2>2. ASSUME NEW c \in Nodes, parent'[c] \in Nodes PROVE parent'[c] \in Existing'
    <3>1. CASE c = q.node
      BY <1>0, <1>1, <1>2, <2>2, <3>1 DEF Planted
    <3>2. CASE c # q.node
      BY <1>0, <1>1, <1>2, <2>2, <3>2 DEF Planted
    <3> QED
      BY <3>1, <3>2
  <2> QED
    BY <2>1, <2>2 DEF Planted
<1>4. ~tangled' => ~tangled /\ (q.op = "move" => filing' = {}) /\ \A o \in filing' : o.op = "create"
  BY <1>0 DEF Filings
<1> QED
  BY <1>0, <1>1, <1>2, <1>3, <1>4

LEMMA CreateKeepsForest ==
    ASSUME ForestInv, NEW q \in filing, Files(q), Writable(q), q.op = "create"
    PROVE  ForestInv'
<1>0. /\ Planted /\ MaxDepth \in Nat \ {0} /\ Existing \subseteq Nodes /\ None \notin Nodes
  BY CategoriesAssumption, ExistingIs DEF CategoriesAssumption, ForestInv
<1>1. /\ Planted' /\ filing' = filing \ {q} /\ filing' \subseteq Filings /\ tangled' \in BOOLEAN
      /\ q \in Filings /\ parent' = [parent EXCEPT ![q.node] = q.under]
      /\ Existing' = Existing \cup {q.node}
      /\ ~tangled' => ~tangled /\ \A o \in filing' : o.op = "create"
  BY WriteKeepsPlanted
<1>2. /\ q.node \in Nodes /\ parent[q.node] = "absent" /\ q.node \notin Existing
      /\ (q.under = None \/ q.under \in Existing)
  BY <1>1 DEF Writable, Filings, Existing
<1>3. \A c \in Nodes : c # q.node => parent'[c] = parent[c]
  BY <1>0, <1>1 DEF Planted
<1>4. parent'[q.node] = q.under
  BY <1>0, <1>1, <1>2 DEF Planted
<1>5. ASSUME NEW dep, Allowed(dep), \A o \in filing' : o.op = "create" PROVE \E e : Allowed(e)'
  <2> DEFINE e == [dep EXCEPT ![q.node] = Base(dep, q.under) + 1]
  <2>1. dep \in [Nodes -> 1 .. MaxDepth] /\ Ranked(dep) /\ \A o \in filing : Held(dep, o)
    BY <1>5 DEF Allowed, Ranked
  <2>2. Base(dep, q.under) + 1 \in 1 .. MaxDepth
    <3>1. CASE q.under = None
      BY <1>0, <3>1 DEF Base
    <3>2. CASE q.under # None
      <4>1. dep[q.under] < MaxDepth /\ q.under \in Nodes
        BY <1>0, <1>2, <2>1, <3>2 DEF Held
      <4> QED
        BY <1>0, <2>1, <3>2, <4>1 DEF Base
    <3> QED
      BY <3>1, <3>2
  <2>3. /\ e \in [Nodes -> 1 .. MaxDepth] /\ e[q.node] = Base(dep, q.under) + 1
        /\ \A c \in Nodes : c # q.node => e[c] = dep[c]
    BY <1>2, <2>1, <2>2
  <2> HIDE DEF e
  <2>4. ASSUME NEW c \in Nodes, parent'[c] = None PROVE e[c] = 1
    <3>1. CASE c = q.node
      BY <1>4, <2>3, <2>4, <3>1 DEF Base
    <3>2. CASE c # q.node
      BY <1>3, <2>1, <2>3, <2>4, <3>2 DEF Ranked
    <3> QED
      BY <3>1, <3>2
  <2>5. ASSUME NEW c \in Nodes, parent'[c] \in Nodes PROVE e[c] = e[parent'[c]] + 1
    <3>1. CASE c = q.node
      <4>1. q.under \in Existing /\ q.under # q.node /\ q.under \in Nodes /\ q.under # None
        BY <1>0, <1>2, <1>4, <2>5, <3>1
      <4> QED
        BY <1>4, <2>3, <3>1, <4>1 DEF Base
    <3>2. CASE c # q.node
      <4>1. parent[c] \in Nodes /\ parent[c] = parent'[c]
        BY <1>3, <2>5, <3>2
      <4>2. parent[c] # q.node
        BY <1>0, <1>2, <4>1 DEF Planted
      <4>3. dep[c] = dep[parent[c]] + 1
        BY <2>1, <4>1 DEF Ranked
      <4> QED
        BY <2>3, <3>2, <4>1, <4>2, <4>3
    <3> QED
      BY <3>1, <3>2
  <2>6. Ranked(e)'
    BY <2>3, <2>4, <2>5 DEF Ranked
  <2>7. ASSUME NEW o \in filing' PROVE Held(e, o)'
    <3>1. o.op = "create" /\ o \in filing /\ Held(dep, o) /\ o.under \in Nodes \cup {None}
      BY <1>1, <1>5, <2>1 DEF Filings
    <3>2. CASE o.under = None
      BY <1>0, <1>1, <1>2, <3>1, <3>2 DEF Held
    <3>3. CASE o.under # None
      <4>1. o.under \in Nodes /\ parent[o.under] # "absent"
        BY <3>1, <3>3 DEF Held
      <4>2. o.under # q.node
        BY <1>2, <4>1
      <4>3. parent'[o.under] # "absent"
        BY <1>3, <4>1, <4>2
      <4>4. o.under \in Existing' => e[o.under] < MaxDepth
        BY <1>1, <2>3, <3>1, <4>1, <4>2 DEF Held
      <4> QED
        BY <3>1, <4>3, <4>4 DEF Held
    <3> QED
      BY <3>2, <3>3
  <2> QED
    BY <2>6, <2>7 DEF Allowed
<1>6. ~tangled' => \E dep : Allowed(dep)'
  BY <1>1, <1>5 DEF ForestInv
<1> QED
  BY <1>1, <1>6 DEF ForestInv

LEMMA MoveKeepsForest ==
    ASSUME ForestInv, NEW q \in filing, Files(q), Writable(q), q.op = "move"
    PROVE  ForestInv'
<1>0. /\ Planted /\ MaxDepth \in Nat \ {0} /\ Existing \subseteq Nodes /\ None \notin Nodes
  BY CategoriesAssumption, ExistingIs DEF CategoriesAssumption, ForestInv
<1>1. /\ Planted' /\ filing' \subseteq Filings /\ tangled' \in BOOLEAN
      /\ q \in Filings /\ parent' = [parent EXCEPT ![q.node] = q.under]
      /\ ~tangled' => ~tangled /\ filing' = {}
  BY WriteKeepsPlanted
<1>2. q.node \in Existing /\ (q.under = None \/ q.under \in Existing)
  BY <1>1 DEF Writable
<1>3. \A c \in Nodes : c # q.node => parent'[c] = parent[c]
  BY <1>0, <1>1 DEF Planted
<1>4. parent'[q.node] = q.under
  BY <1>0, <1>1, <1>2 DEF Planted
<1>5. ASSUME NEW dep, Allowed(dep), filing' = {} PROVE \E e : Allowed(e)'
  <2>1. dep \in [Nodes -> 1 .. MaxDepth] /\ Ranked(dep) /\ Held(dep, q)
    BY <1>5 DEF Allowed, Ranked
  <2>2. PICK s : Fitting(dep, q.node, q.under, s)
    BY <1>2, <2>1 DEF Held
  <2> DEFINE base == Base(dep, q.under)
             e == [d \in Nodes |-> IF d \in s THEN base + 1 + dep[d] - dep[q.node] ELSE dep[d]]
  <2>3. base \in Nat
    BY <1>0, <1>2, <2>1 DEF Base
  <2>4. /\ q.node \in s /\ s \subseteq Existing /\ q.under \notin s
        /\ \A d \in Existing : d # q.node => (d \in s <=> parent[d] \in s)
        /\ \A d \in s : dep[d] >= dep[q.node] /\ base + 1 + dep[d] - dep[q.node] <= MaxDepth
    BY <2>2 DEF Fitting, Subtree
  <2> HIDE DEF base
  <2>5. e \in [Nodes -> 1 .. MaxDepth]
    <3> SUFFICES ASSUME NEW d \in s PROVE base + 1 + dep[d] - dep[q.node] \in 1 .. MaxDepth
      BY <2>1
    <3>1. dep[d] \in Nat /\ dep[q.node] \in Nat /\ dep[d] >= dep[q.node]
          /\ base + 1 + dep[d] - dep[q.node] <= MaxDepth
      BY <1>0, <1>2, <2>1, <2>4
    <3> QED
      BY <1>0, <2>3, <3>1
  <2>6. \A d \in Nodes : e[d] = IF d \in s THEN base + 1 + dep[d] - dep[q.node] ELSE dep[d]
    OBVIOUS
  <2> HIDE DEF e
  <2>7. e[q.node] = base + 1
    <3>1. dep[q.node] \in Nat
      BY <1>0, <1>2, <2>1
    <3> QED
      BY <1>0, <1>2, <2>3, <2>4, <2>6, <3>1
  <2>8. ASSUME NEW c \in Nodes, parent'[c] = None PROVE e[c] = 1
    <3>1. CASE c = q.node
      BY <1>4, <2>7, <2>8, <3>1 DEF base, Base
    <3>2. CASE c # q.node
      <4>1. parent[c] = None /\ c \in Existing
        BY <1>0, <1>3, <2>8, <3>2, ExistingIs
      <4>2. c \notin s
        BY <1>0, <2>4, <3>2, <4>1
      <4> QED
        BY <2>1, <2>6, <4>1, <4>2 DEF Ranked
    <3> QED
      BY <3>1, <3>2
  <2>9. ASSUME NEW c \in Nodes, parent'[c] \in Nodes PROVE e[c] = e[parent'[c]] + 1
    <3>1. CASE c = q.node
      <4>1. q.under \in Existing /\ q.under \in Nodes /\ q.under # None
        BY <1>0, <1>2, <1>4, <2>9, <3>1
      <4>2. e[q.under] = dep[q.under] /\ base = dep[q.under]
        BY <2>4, <2>6, <4>1 DEF base, Base
      <4> QED
        BY <1>4, <2>7, <3>1, <4>2
    <3>2. CASE c # q.node
      <4>1. parent[c] \in Nodes /\ parent[c] = parent'[c] /\ c \in Existing
        BY <1>0, <1>3, <2>9, <3>2, ExistingIs
      <4>2. c \in s <=> parent[c] \in s
        BY <2>4, <3>2, <4>1
      <4>3. dep[c] = dep[parent[c]] + 1 /\ dep[parent[c]] \in Nat /\ dep[q.node] \in Nat
        BY <1>0, <1>2, <2>1, <4>1 DEF Ranked
      <4>4. e[parent[c]] = IF parent[c] \in s THEN base + 1 + dep[parent[c]] - dep[q.node] ELSE dep[parent[c]]
        BY <2>6, <4>1
      <4>5. e[c] = IF c \in s THEN base + 1 + dep[c] - dep[q.node] ELSE dep[c]
        BY <2>6
      <4> QED
        BY <2>3, <4>1, <4>2, <4>3, <4>4, <4>5
    <3> QED
      BY <3>1, <3>2
  <2>10. Ranked(e)'
    BY <2>5, <2>8, <2>9 DEF Ranked
  <2> QED
    BY <1>5, <2>10 DEF Allowed
<1>6. ~tangled' => \E dep : Allowed(dep)'
  BY <1>1, <1>5 DEF ForestInv
<1> QED
  BY <1>1, <1>6 DEF ForestInv

\* What a removed category held becomes a tree of its own, and rises as a whole.
LEMMA RemovalKeepsForest ==
    ASSUME ForestInv, NEW x \in Nodes, RemoveNode(x)
    PROVE  ForestInv'
<1>0. /\ Planted /\ MaxDepth \in Nat \ {0} /\ Existing \subseteq Nodes /\ None \notin Nodes
      /\ None \notin {"absent", "deleted"} /\ Nodes \cap {"absent", "deleted"} = {}
  BY CategoriesAssumption, ExistingIs DEF CategoriesAssumption, ForestInv
<1>1. /\ x \in Existing /\ filing' = filing /\ tangled' = tangled
      /\ parent' = [d \in Nodes |-> IF d = x THEN "deleted" ELSE IF parent[d] = x THEN None ELSE parent[d]]
  BY DEF RemoveNode
<1>2. /\ parent'[x] = "deleted"
      /\ \A d \in Nodes : d # x => parent'[d] = IF parent[d] = x THEN None ELSE parent[d]
  BY <1>1
<1>3. Existing' = Existing \ {x}
  BY <1>0, <1>2 DEF Existing
<1>4. Planted'
  <2>1. parent' \in [Nodes -> Places]
    BY <1>0, <1>1 DEF Planted, Places
  <2>2. ASSUME NEW c \in Nodes, parent'[c] \in Nodes PROVE parent'[c] \in Existing'
    <3>1. c # x /\ parent[c] # x /\ parent'[c] = parent[c]
      BY <1>0, <1>2, <2>2
    <3> QED
      BY <1>0, <1>3, <2>2, <3>1 DEF Planted
  <2> QED
    BY <2>1, <2>2 DEF Planted
<1> DEFINE D == DescendantIds(x)
<1>5. ASSUME NEW dep, Allowed(dep) PROVE \E e : Allowed(e)'
  <2>1. dep \in [Nodes -> 1 .. MaxDepth] /\ Ranked(dep) /\ \A o \in filing : Held(dep, o)
    BY <1>5 DEF Allowed, Ranked
  <2>2. Subtree(x, D) /\ \A d \in D : d # x => dep[d] > dep[x]
    BY <1>0, <1>1, <2>1, DescendantsAre
  <2> HIDE DEF D
  <2>3. /\ x \in D /\ D \subseteq Existing
        /\ \A d \in Existing : d # x => (d \in D <=> parent[d] \in D)
    BY <2>2 DEF Subtree
  <2> DEFINE Below == D \ {x}
  <2>0. PICK e : e = [d \in Nodes |-> IF d \in Below THEN dep[d] - dep[x] ELSE dep[d]]
    OBVIOUS
  <2>4. e \in [Nodes -> 1 .. MaxDepth]
    <3> SUFFICES ASSUME NEW d \in Below PROVE dep[d] - dep[x] \in 1 .. MaxDepth
      BY <2>0, <2>1
    <3>1. dep[d] \in 1 .. MaxDepth /\ dep[x] \in 1 .. MaxDepth /\ dep[d] > dep[x]
      BY <1>0, <2>1, <2>2, <2>3
    <3> QED
      BY <1>0, <3>1
  <2>5. \A d \in Nodes : e[d] = IF d \in Below THEN dep[d] - dep[x] ELSE dep[d]
    BY <2>0
  <2>6. \A d \in Nodes : dep[d] \in Nat /\ e[d] \in Nat /\ e[d] <= dep[d]
    <3> SUFFICES ASSUME NEW d \in Nodes PROVE dep[d] \in Nat /\ e[d] \in Nat /\ e[d] <= dep[d]
      OBVIOUS
    <3>1. dep[d] \in Nat /\ dep[x] \in Nat /\ e[d] \in Nat
      BY <1>0, <2>1, <2>4
    <3> QED
      BY <2>5, <3>1
  <2>7. \A d \in Existing : d # x /\ parent[d] # x => (d \in Below <=> parent[d] \in Below)
    BY <2>3
  <2>8. ASSUME NEW c \in Nodes, parent'[c] = None PROVE e[c] = 1
    <3>1. c # x /\ c \in Existing
      BY <1>0, <1>2, <2>8 DEF Existing, Planted
    <3>2. CASE parent[c] = x
      <4>1. c \in Below
        BY <2>3, <3>1, <3>2
      <4>2. dep[c] = dep[x] + 1 /\ dep[x] \in Nat
        BY <1>0, <1>1, <2>1, <3>2 DEF Ranked
      <4> QED
        BY <2>5, <4>1, <4>2
    <3>3. CASE parent[c] # x
      <4>1. parent[c] = None
        BY <1>2, <2>8, <3>1, <3>3
      <4>2. c \notin Below
        BY <1>0, <2>3, <3>1, <4>1
      <4> QED
        BY <2>1, <2>5, <4>1, <4>2 DEF Ranked
    <3> QED
      BY <3>2, <3>3
  <2>9. ASSUME NEW c \in Nodes, parent'[c] \in Nodes PROVE e[c] = e[parent'[c]] + 1
    <3>1. c # x /\ parent[c] # x /\ parent'[c] = parent[c] /\ c \in Existing
      BY <1>0, <1>2, <2>9, ExistingIs
    <3>2. c \in Below <=> parent[c] \in Below
      BY <2>7, <3>1
    <3>3. dep[c] = dep[parent[c]] + 1 /\ dep[parent[c]] \in Nat /\ dep[x] \in Nat
      BY <2>1, <2>6, <2>9, <3>1 DEF Ranked
    <3>4. e[c] = IF c \in Below THEN dep[c] - dep[x] ELSE dep[c]
      BY <2>5
    <3>5. e[parent[c]] = IF parent[c] \in Below THEN dep[parent[c]] - dep[x] ELSE dep[parent[c]]
      BY <2>5, <2>9, <3>1
    <3> QED
      BY <3>1, <3>2, <3>3, <3>4, <3>5
  <2>10. Ranked(e)'
    BY <2>4, <2>8, <2>9 DEF Ranked
  <2>11. \A p \in Existing \cup {None} : Base(e, p) \in Nat /\ Base(dep, p) \in Nat /\ Base(e, p) <= Base(dep, p)
    BY <1>0, <2>6 DEF Base
  <2>12. ASSUME NEW o \in filing, o.op = "move", o.node \in Existing', o.under \in Existing' \cup {None}
         PROVE  \E s : Fitting(e, o.node, o.under, s)'
    <3>1. o.node \in Existing /\ o.node # x /\ o.under \in Existing \cup {None} /\ o.node \in Nodes
      BY <1>0, <1>3, <2>12
    <3>2. PICK s : Fitting(dep, o.node, o.under, s)
      BY <2>1, <2>12, <3>1 DEF Held
    <3>3. /\ o.node \in s /\ s \subseteq Existing /\ o.under \notin s
          /\ \A d \in Existing : d # o.node => (d \in s <=> parent[d] \in s)
          /\ \A d \in s : /\ dep[d] >= dep[o.node]
                         /\ Base(dep, o.under) + 1 + dep[d] - dep[o.node] <= MaxDepth
      BY <3>2 DEF Fitting, Subtree
    <3> DEFINE node == o.node
               under == o.under
    <3> HIDE DEF node, under
    <3>4. CASE node \in D
      <4>1. x \notin s
        <5>1. dep[node] > dep[x] /\ dep[node] \in Nat /\ dep[x] \in Nat
          BY <1>0, <1>1, <2>2, <2>6, <3>1, <3>4 DEF node
        <5> QED
          BY <3>3, <5>1 DEF node
      <4>2. s \subseteq Below
        <5> DEFINE Out == {dep[d] : d \in s \ D}
        <5>1. Out = {}
          <6> SUFFICES ASSUME Out # {} PROVE FALSE
            OBVIOUS
          <6>1. Out \subseteq Nat
            BY <1>0, <2>6, <3>3
          <6>2. PICK m \in Out : \A k \in Out : m <= k
            BY <6>1, LeastNat
          <6>3. PICK d \in s \ D : dep[d] = m
            BY <6>2
          <6>4. d # node /\ d \in Existing /\ d # x
            BY <2>3, <3>3, <3>4, <6>3
          <6>5. parent[d] \in s \ D
            BY <2>3, <3>3, <6>3, <6>4 DEF node
          <6>6. dep[d] = dep[parent[d]] + 1 /\ dep[parent[d]] \in Nat /\ dep[parent[d]] \in Out
            BY <1>0, <2>1, <2>6, <3>3, <6>4, <6>5 DEF Ranked
          <6>7. m <= dep[parent[d]]
            BY <6>2, <6>6
          <6> QED
            BY <6>3, <6>6, <6>7
        <5> QED
          BY <4>1, <5>1
      <4>3. Subtree(node, s)'
        <5>1. s \subseteq Existing' /\ node \in s
          BY <1>3, <3>3, <4>1 DEF node
        <5>2. ASSUME NEW d \in Existing', d # node PROVE d \in s <=> parent'[d] \in s
          <6>1. d \in Existing /\ d # x /\ d \in Nodes
            BY <1>0, <1>3, <5>2
          <6>2. CASE parent[d] = x
            BY <1>0, <1>2, <3>3, <4>1, <5>2, <6>1, <6>2 DEF node
          <6>3. CASE parent[d] # x
            BY <1>2, <3>3, <5>2, <6>1, <6>3 DEF node
          <6> QED
            BY <6>2, <6>3
        <5> QED
          BY <5>1, <5>2 DEF Subtree
      <4>4. ASSUME NEW d \in s PROVE e[d] >= e[node] /\ Base(e, under) + 1 + e[d] - e[node] <= MaxDepth
        <5>1. /\ e[d] = dep[d] - dep[x] /\ e[node] = dep[node] - dep[x]
              /\ dep[x] \in Nat /\ dep[d] \in Nat /\ dep[node] \in Nat
          BY <1>0, <2>5, <2>6, <3>1, <3>3, <4>2 DEF node
        <5>2. Base(e, under) \in Nat /\ Base(dep, under) \in Nat /\ Base(e, under) <= Base(dep, under)
          BY <2>11, <3>1 DEF under
        <5>3. dep[d] >= dep[node] /\ Base(dep, under) + 1 + dep[d] - dep[node] <= MaxDepth
          BY <3>3 DEF node, under
        <5> QED
          BY <1>0, <5>1, <5>2, <5>3
      <4>5. Fitting(e, node, under, s)'
        BY <3>3, <4>3, <4>4 DEF Fitting, node, under, Base
      <4> QED
        BY <4>5 DEF node, under
    <3>5. CASE node \notin D
      <4>0. PICK r : r = s \ D
        OBVIOUS
      <4>1. Subtree(node, r)'
        <5>1. r \subseteq Existing' /\ node \in r
          BY <1>3, <2>3, <3>3, <3>5, <4>0 DEF node
        <5>2. ASSUME NEW d \in Existing', d # node PROVE d \in r <=> parent'[d] \in r
          <6>1. d \in Existing /\ d # x /\ d \in Nodes
            BY <1>0, <1>3, <5>2
          <6>2. CASE parent[d] = x
            BY <1>0, <1>2, <2>3, <3>3, <4>0, <6>1, <6>2
          <6>3. CASE parent[d] # x
            BY <1>2, <2>3, <3>3, <4>0, <5>2, <6>1, <6>3 DEF node
          <6> QED
            BY <6>2, <6>3
        <5> QED
          BY <5>1, <5>2 DEF Subtree
      <4>2. ASSUME NEW d \in r PROVE e[d] >= e[node] /\ Base(e, under) + 1 + e[d] - e[node] <= MaxDepth
        <5>1. /\ e[d] = dep[d] /\ e[node] = dep[node]
              /\ dep[d] \in Nat /\ dep[node] \in Nat
          BY <1>0, <2>5, <2>6, <3>1, <3>3, <3>5, <4>0 DEF node
        <5>2. Base(e, under) \in Nat /\ Base(dep, under) \in Nat /\ Base(e, under) <= Base(dep, under)
          BY <2>11, <3>1 DEF under
        <5>3. dep[d] >= dep[node] /\ Base(dep, under) + 1 + dep[d] - dep[node] <= MaxDepth
          BY <3>3, <4>0 DEF node, under
        <5> QED
          BY <1>0, <5>1, <5>2, <5>3
      <4>3. under \notin r
        BY <3>3, <4>0 DEF under
      <4>4. Fitting(e, node, under, r)'
        BY <4>1, <4>2, <4>3 DEF Fitting, Base
      <4> QED
        BY <4>4 DEF node, under
    <3> QED
      BY <3>4, <3>5
  <2>13. ASSUME NEW o \in filing PROVE Held(e, o)'
    <3>1. Held(dep, o) /\ o.under \in Nodes \cup {None} /\ o.node \in Nodes
      BY <2>1 DEF ForestInv, Filings
    <3>2. o.under # None => parent'[o.under] # "absent"
      BY <1>0, <1>2, <3>1 DEF Held
    <3>3. o.op = "create" /\ o.under \in Existing' => e[o.under] < MaxDepth
      <4> SUFFICES ASSUME o.op = "create", o.under \in Existing' PROVE e[o.under] < MaxDepth
        OBVIOUS
      <4>1. o.under \in Existing /\ o.under \in Nodes
        BY <1>0, <1>3
      <4>2. dep[o.under] < MaxDepth
        BY <3>1, <4>1 DEF Held
      <4>3. dep[o.under] \in Nat /\ e[o.under] \in Nat /\ e[o.under] <= dep[o.under]
        BY <2>6, <4>1
      <4> QED
        BY <1>0, <4>2, <4>3
    <3>4. o.op = "move" => parent'[o.node] # "absent"
      BY <1>0, <1>2, <3>1 DEF Held
    <3> QED
      BY <2>12, <3>2, <3>3, <3>4 DEF Held
  <2> QED
    BY <1>1, <2>10, <2>13 DEF Allowed
<1> HIDE DEF D
<1>6. ~tangled' => \E dep : Allowed(dep)'
  BY <1>1, <1>5 DEF ForestInv
<1> QED
  BY <1>1, <1>4, <1>6 DEF ForestInv

LEMMA ForestKept == ForestInv /\ [CategoriesNext]_categoriesVars => ForestInv'
<1> SUFFICES ASSUME ForestInv, [CategoriesNext]_categoriesVars PROVE ForestInv'
  OBVIOUS
<1>1. ASSUME NEW op \in {"create", "move"}, NEW c \in Nodes, NEW p \in Nodes \cup {None}, Checks(op, c, p)
      PROVE  ForestInv'
  BY <1>1, ChecksKeepForest
<1>2. ASSUME NEW q \in filing, Files(q) PROVE ForestInv'
  <2>1. q.op \in {"create", "move"}
    BY DEF ForestInv, Filings
  <2> QED
    BY <1>2, <2>1, RefusalKeepsForest, CreateKeepsForest, MoveKeepsForest
<1>3. ASSUME NEW c \in Nodes, RemoveNode(c) PROVE ForestInv'
  BY <1>3, RemovalKeepsForest
<1>4. CASE UNCHANGED categoriesVars
  <2>1. parent' = parent /\ filing' = filing /\ tangled' = tangled
    BY <1>4 DEF categoriesVars
  <2>2. Existing' = Existing
    BY <2>1 DEF Existing
  <2>3. \A dep : Allowed(dep) => Allowed(dep)'
    BY <2>1, <2>2 DEF Allowed, Ranked, Held, Fitting, Subtree, Base
  <2>4. (\E dep : Allowed(dep)) => \E dep : Allowed(dep)'
    BY <2>3
  <2> QED
    BY <2>1, <2>2, <2>4 DEF ForestInv, Planted
<1> QED
  BY <1>1, <1>2, <1>3, <1>4 DEF CategoriesNext

\* The categories stay a forest no deeper than MAX_CATEGORY_DEPTH, and the hub and the
\* page count the same posts, for any categories and any depth: the checks that
\* assertParentDepth and assertMove made before the write still hold when it comes,
\* whatever is created and removed meanwhile, until a move overlaps another write.
THEOREM ForestAlwaysStands == CategoriesSpec => []ForestStands
<1>1. ForestInv => ForestStands
  <2> SUFFICES ASSUME ForestInv, ~tangled PROVE ForestStands
    BY DEF ForestStands
  <2>1. PICK dep : Planted /\ Ranked(dep)
    BY DEF ForestInv, Allowed
  <2> QED
    BY <2>1, ForestFromRanks DEF ForestStands
<1> QED
  BY <1>1, ForestInit, ForestKept, PTL DEF CategoriesSpec

-----------------------------------------------------------------------------
(* The accounts.  What a request read may be stale when it writes; the      *)
(* invariants say what of it still holds.                                   *)

SignRequest(q) == q.op \in {"register", "google", "link"} /\ q.user \in Users

ChangeRequest(q) ==
    /\ q.op = "change" /\ q.target \in Users /\ account[q.target] # None
    /\ q.change \in [role : {"USER", "ADMIN"}, active : BOOLEAN]

Pointing == <<"point", "delete">>
Deleting == <<"delete">>

Photos == {None, Picture} \cup 1..uploads

AvatarRequest(q) ==
    /\ q \in [op : {"avatar"}, user : Users, old : Photos, new : {None} \cup 1..uploads,
              left : {AvatarSteps, Pointing, Deleting}]
    /\ account[q.user] # None

RequestOK(q) == SignRequest(q) \/ ChangeRequest(q) \/ AvatarRequest(q)

AccountsTypeOK ==
    /\ account \in [Users -> Account \cup {None}]
    /\ \A u \in Users : account[u] # None => account[u].photo \in Photos
    /\ uploads \in Nat /\ files \subseteq 1..uploads
    /\ crossed \in BOOLEAN
    /\ \A q \in asking : RequestOK(q)

-----------------------------------------------------------------------------
(* Types. *)

LEMMA AccountsTypeInit == AccountsInit => AccountsTypeOK
<1> SUFFICES ASSUME AccountsInit PROVE AccountsTypeOK
  OBVIOUS
<1>1. crossed \in BOOLEAN
  BY Zenon DEF AccountsInit
<1>2. PICK admin \in Users :
        account = [u \in Users |-> IF u = admin THEN [NewAccount(None) EXCEPT !.role = "ADMIN"]
                                   ELSE None]
  BY DEF AccountsInit
<1>3. /\ [NewAccount(None) EXCEPT !.role = "ADMIN"] \in Account
      /\ [NewAccount(None) EXCEPT !.role = "ADMIN"].photo = None
  BY DEF NewAccount, Account
<1>4. /\ account \in [Users -> Account \cup {None}]
      /\ \A u \in Users : account[u] # None => account[u].photo = None
  BY <1>2, <1>3
<1>5. uploads = 0 /\ files = {} /\ asking = {}
  BY DEF AccountsInit
<1> QED
  BY <1>1, <1>4, <1>5 DEF AccountsTypeOK, Photos

\* An account is never deleted, so a request under way keeps its type.
LEMMA RequestsKept ==
    ASSUME AccountsTypeOK, NEW q \in asking, uploads' \in {uploads, uploads + 1},
           \A u \in Users : account[u] # None => account'[u] # None
    PROVE  RequestOK(q)'
<1>1. RequestOK(q) /\ uploads \in Nat
  BY DEF AccountsTypeOK
<1>2. CASE SignRequest(q)
  BY <1>2 DEF RequestOK, SignRequest
<1>3. CASE ChangeRequest(q)
  BY <1>3 DEF RequestOK, ChangeRequest
<1>4. CASE AvatarRequest(q)
  <2>1. 1..uploads \subseteq 1..uploads'
    BY <1>1
  <2> QED
    BY <1>4, <2>1 DEF RequestOK, AvatarRequest, Photos
<1> QED
  BY <1>1, <1>2, <1>3, <1>4 DEF RequestOK

LEMMA AskedType ==
    ASSUME AccountsTypeOK, NEW q, Ask(q), UNCHANGED <<account, files, uploads>>,
           crossed' \in BOOLEAN, RequestOK(q)
    PROVE  AccountsTypeOK'
<1>1. RequestOK(q)'
  BY DEF RequestOK, SignRequest, ChangeRequest, AvatarRequest, Photos
<1>2. \A o \in asking' : RequestOK(o)'
  BY <1>1, RequestsKept DEF Ask
<1> QED
  BY <1>2 DEF AccountsTypeOK, Photos

\* The accounts change, and one request is over.
LEMMA AnsweredType ==
    ASSUME AccountsTypeOK, NEW q \in asking, Answered(q), UNCHANGED <<files, uploads, crossed>>,
           account' \in [Users -> Account \cup {None}],
           \A u \in Users : /\ account[u] # None => account'[u] # None
                            /\ account'[u] # None => account'[u].photo \in Photos
    PROVE  AccountsTypeOK'
<1>1. \A o \in asking' : RequestOK(o)'
  BY RequestsKept DEF Answered
<1> QED
  BY <1>1 DEF AccountsTypeOK, Photos

LEMMA SignedUpAccounts ==
    ASSUME AccountsTypeOK, NEW q \in asking, SignedUp(q)
    PROVE  /\ account' \in [Users -> Account \cup {None}]
           /\ \A u \in Users :
                \/ account'[u] = account[u]
                \/ account[u] = None /\ account'[u] # None
                   /\ account'[u].photo \in {None, Picture}
<1>1. q.user \in Users
  BY DEF SignedUp, AccountsTypeOK, RequestOK, SignRequest, ChangeRequest, AvatarRequest
<1>2. CASE account' = account
  BY <1>2 DEF AccountsTypeOK
<1>3. CASE account' # account
  <2>1. PICK photo \in {None, Picture} :
          account[q.user] = None /\ account' = [account EXCEPT ![q.user] = NewAccount(photo)]
    <3> DEFINE p == IF q.op = "google" THEN Picture ELSE None
    <3>1. account' = IF /\ q.op # "link" => account[q.user] = None
                        /\ q.op # "register" => google[q.identity] = None
                        /\ q.op # "link"
                       THEN [account EXCEPT ![q.user] = NewAccount(p)] ELSE account
      BY DEF SignedUp
    <3> QED
      BY <1>3, <3>1
  <2>2. NewAccount(photo) \in Account /\ NewAccount(photo) # None /\ NewAccount(photo).photo = photo
    <3>1. photo \in Nat \cup {None}
      BY DEF Picture
    <3>2. NewAccount(photo) \in Account
      BY <3>1 DEF NewAccount, Account
    <3> QED
      BY <3>2, AccountsAssumption DEF NewAccount
  <2> QED
    BY <1>1, <2>1, <2>2 DEF AccountsTypeOK
<1> QED
  BY <1>2, <1>3

LEMMA ChangedAccounts ==
    ASSUME AccountsTypeOK, NEW q \in asking, Changed(q)
    PROVE  /\ account' \in [Users -> Account \cup {None}]
           /\ \A u \in Users : account[u] # None =>
                account'[u] # None /\ account'[u].photo = account[u].photo
           /\ \A u \in Users : account[u] = None => account'[u] = None
           /\ \A u \in Users \ {q.target} : account'[u] = account[u]
<1>1. /\ q.target \in Users /\ account[q.target] \in Account
      /\ q.change \in [role : {"USER", "ADMIN"}, active : BOOLEAN]
  BY DEF Changed, IsAdminRequest, AccountsTypeOK, RequestOK, SignRequest, ChangeRequest, AvatarRequest
<1> DEFINE b == IF q.field = "role" THEN [account[q.target] EXCEPT !.role = q.change.role]
                ELSE [account[q.target] EXCEPT !.active = q.change.active]
<1>2. b \in Account /\ b.photo = account[q.target].photo
  BY <1>1 DEF Account
<1>3. account' = [account EXCEPT ![q.target] = b]
  BY DEF Changed
<1> QED
  BY <1>1, <1>2, <1>3, AccountsAssumption DEF AccountsTypeOK

LEMMA StepsDiffer ==
    AvatarSteps # Pointing /\ AvatarSteps # Deleting /\ Pointing # Deleting
<1>1. Head(AvatarSteps) = "upload" /\ Head(Pointing) = "point" /\ Head(Deleting) = "delete"
  BY DEF AvatarSteps, Pointing, Deleting
<1> QED
  BY <1>1

\* What each step of a photo's request does.
LEMMA AvatarStepped ==
    ASSUME AccountsTypeOK, NEW q \in asking, AvatarStep(q)
    PROVE  /\ AvatarRequest(q) /\ crossed' = crossed
           /\ \/ /\ q.left = AvatarSteps
                 /\ uploads' = uploads + 1 /\ account' = account
                 /\ files' = files \cup {uploads + 1}
                 /\ asking' = (asking \ {q}) \cup
                                 {[q EXCEPT !.new = uploads + 1, !.left = Pointing]}
              \/ /\ q.left = Pointing
                 /\ uploads' = uploads /\ files' = files
                 /\ account' = [account EXCEPT ![q.user].photo = q.new]
                 /\ asking' = (asking \ {q}) \cup {[q EXCEPT !.new = q.new, !.left = Deleting]}
              \/ /\ q.left = Deleting
                 /\ uploads' = uploads /\ account' = account
                 /\ files' = files \ {q.old} \/ files' = files
                 /\ asking' = asking \ {q}
<1>1. AvatarRequest(q)
  BY DEF AvatarStep, AccountsTypeOK, RequestOK, SignRequest, ChangeRequest
<1>2. crossed' = crossed
  BY DEF AvatarStep
<1>3. CASE q.left = AvatarSteps
  <2>1. Head(q.left) = "upload" /\ Tail(q.left) = Pointing /\ Pointing # <<>>
    BY <1>3 DEF AvatarSteps, Pointing
  <2> QED
    BY <1>1, <1>2, <1>3, <2>1 DEF AvatarStep
<1>4. CASE q.left = Pointing
  <2>1. Head(q.left) = "point" /\ Tail(q.left) = Deleting /\ Deleting # <<>>
    BY <1>4 DEF Deleting, Pointing
  <2> QED
    BY <1>1, <1>2, <1>4, <2>1 DEF AvatarStep
<1>5. CASE q.left = Deleting
  <2>1. Head(q.left) = "delete" /\ Tail(q.left) = <<>>
    BY <1>5 DEF Deleting
  <2> QED
    BY <1>1, <1>2, <1>5, <2>1 DEF AvatarStep
<1> QED
  BY <1>1, <1>3, <1>4, <1>5 DEF AvatarRequest

\* The request that takes its place, until it is over.
LEMMA AvatarNext ==
    ASSUME AccountsTypeOK, NEW q \in asking, AvatarStep(q)
    PROVE  \/ q.left = Deleting /\ asking' = asking \ {q}
           \/ \E n : /\ asking' = (asking \ {q}) \cup {n}
                    /\ n.op = "avatar" /\ n.user = q.user /\ n.old = q.old
                    /\ \/ q.left = AvatarSteps /\ n.left = Pointing /\ n.new = uploads + 1
                       \/ q.left = Pointing /\ n.left = Deleting /\ n.new = q.new
<1>1. AvatarRequest(q)
  BY AvatarStepped
<1>2. CASE q.left = AvatarSteps
  <2> PICK n : n = [q EXCEPT !.new = uploads + 1, !.left = Pointing]
    OBVIOUS
  <2>1. /\ n.op = "avatar" /\ n.user = q.user /\ n.old = q.old
        /\ n.left = Pointing /\ n.new = uploads + 1
    BY <1>1 DEF AvatarRequest
  <2>2. asking' = (asking \ {q}) \cup {n}
    BY <1>2, AvatarStepped, StepsDiffer
  <2> QED
    BY <1>2, <2>1, <2>2
<1>3. CASE q.left = Pointing
  <2> PICK n : n = [q EXCEPT !.new = q.new, !.left = Deleting]
    OBVIOUS
  <2>1. /\ n.op = "avatar" /\ n.user = q.user /\ n.old = q.old
        /\ n.left = Deleting /\ n.new = q.new
    BY <1>1 DEF AvatarRequest
  <2>2. asking' = (asking \ {q}) \cup {n}
    BY <1>3, AvatarStepped, StepsDiffer
  <2> QED
    BY <1>3, <2>1, <2>2
<1>4. CASE q.left = Deleting
  BY <1>4, AvatarStepped, StepsDiffer
<1> QED
  BY <1>1, <1>2, <1>3, <1>4 DEF AvatarRequest

LEMMA AvatarType ==
    ASSUME AccountsTypeOK, NEW q \in asking, AvatarStep(q)
    PROVE  /\ AccountsTypeOK'
           /\ \A u \in Users : account[u] # None =>
                /\ account'[u] # None
                /\ account'[u].role = account[u].role /\ account'[u].active = account[u].active
           /\ \A u \in Users : account[u] = None => account'[u] = None
<1>1. AvatarRequest(q) /\ crossed' = crossed /\ uploads \in Nat /\ account[q.user] \in Account
  BY AvatarStepped DEF AccountsTypeOK, AvatarRequest
<1>2. CASE q.left = AvatarSteps
  <2> PICK n : n = [q EXCEPT !.new = uploads + 1, !.left = Pointing]
    OBVIOUS
  <2>1. /\ uploads' = uploads + 1 /\ account' = account /\ files' = files \cup {uploads + 1}
        /\ asking' = (asking \ {q}) \cup {n}
    BY <1>2, AvatarStepped, StepsDiffer
  <2>2. 1..uploads' = 1..uploads \cup {uploads + 1}
    BY <1>1, <2>1
  <2>3. AvatarRequest(n)'
    BY <1>1, <2>1, <2>2 DEF AvatarRequest, Photos
  <2>4. \A o \in asking' : RequestOK(o)'
    BY <2>1, <2>3, RequestsKept DEF RequestOK
  <2> QED
    BY <1>1, <2>1, <2>2, <2>4 DEF AccountsTypeOK, Photos
<1>3. CASE q.left = Pointing
  <2> DEFINE n == [q EXCEPT !.new = q.new, !.left = Deleting]
             b == [account[q.user] EXCEPT !.photo = q.new]
  <2>1. /\ uploads' = uploads /\ files' = files /\ account' = [account EXCEPT ![q.user] = b]
        /\ asking' = (asking \ {q}) \cup {n}
    BY <1>3, AvatarStepped, StepsDiffer
  <2>2. /\ b \in Account /\ b # None /\ b.photo = q.new /\ q.new \in Photos
        /\ b.role = account[q.user].role /\ b.active = account[q.user].active
    BY <1>1, AccountsAssumption DEF AvatarRequest, Account, Photos
  <2>3. \A u \in Users : account'[u] = IF u = q.user THEN b ELSE account[u]
    BY <2>1 DEF AccountsTypeOK
  <2>4. AvatarRequest(n)'
    BY <1>1, <2>1, <2>2, <2>3 DEF AvatarRequest, Photos
  <2>5. \A o \in asking' : RequestOK(o)'
    BY <2>1, <2>2, <2>3, <2>4, RequestsKept DEF RequestOK
  <2>6. AccountsTypeOK'
    BY <1>1, <2>1, <2>2, <2>3, <2>5 DEF AccountsTypeOK, Photos, AvatarRequest
  <2> QED
    BY <1>1, <2>2, <2>3, <2>6 DEF AvatarRequest
<1>4. CASE q.left = Deleting
  <2>1. /\ uploads' = uploads /\ account' = account /\ files' \subseteq files
        /\ asking' = asking \ {q}
    BY <1>4, AvatarStepped, StepsDiffer
  <2>2. \A o \in asking' : RequestOK(o)'
    BY <2>1, RequestsKept
  <2> QED
    BY <1>1, <2>1, <2>2 DEF AccountsTypeOK, Photos
<1> QED
  BY <1>1, <1>2, <1>3, <1>4 DEF AvatarRequest

LEMMA SignUpAsks ==
    ASSUME NEW u \in Users, NEW v, Register(u) \/ LoginWithGoogle(u) \/ LinkGoogle(u, v)
    PROVE  /\ UNCHANGED <<account, files, uploads, crossed>>
           /\ \E q : Ask(q) /\ SignRequest(q)
BY DEF Register, LoginWithGoogle, LinkGoogle, SignRequest

LEMMA SetAvatarAsks ==
    ASSUME AccountsTypeOK, NEW u \in Users, SetAvatar(u)
    PROVE  /\ UNCHANGED <<account, files, uploads, crossed>>
           /\ \E q : /\ Ask(q) /\ AvatarRequest(q)
                    /\ q.user = u /\ q.old = account[u].photo /\ q.new = None
                    /\ q.left \in {AvatarSteps, Pointing}
<1>1. account[u] # None /\ account[u].photo \in Photos
  BY DEF SetAvatar, AccountsTypeOK
<1>2. PICK steps \in {AvatarSteps, RemovalSteps} :
        Ask([op |-> "avatar", user |-> u, old |-> account[u].photo, new |-> None, left |-> steps])
  BY DEF SetAvatar
<1>3. RemovalSteps = Pointing
  BY DEF RemovalSteps, Pointing
<1> QED
  BY <1>1, <1>2, <1>3 DEF SetAvatar, AvatarRequest

LEMMA ChangeAsks ==
    ASSUME AccountsTypeOK, NEW u \in Users, NEW v \in Users, ChangeAccount(u, v)
    PROVE  /\ UNCHANGED <<account, files, uploads>>
           /\ crossed' \in BOOLEAN
           /\ ~crossed' => ~crossed /\ \A q \in asking : q.op # "change"
           /\ u # v /\ Administers(u)
           /\ \E q : Ask(q) /\ ChangeRequest(q) /\ q.target = v
<1>1. UNCHANGED <<account, files, uploads>> /\ Administers(u) /\ account[v] # None
  BY DEF ChangeAccount
<1>2. crossed' \in BOOLEAN /\ (~crossed' => ~crossed /\ \A q \in asking : q.op # "change")
  BY Zenon DEF ChangeAccount, IsAdminRequest
<1>3. PICK change \in [role : {"USER", "ADMIN"}, active : BOOLEAN] :
        /\ (change.role = account[v].role) # (change.active = account[v].active)
        /\ MayChange(u, v, change)
        /\ Ask([op |-> "change", target |-> v,
                field |-> IF change.role # account[v].role THEN "role" ELSE "active",
                change |-> change])
  BY DEF ChangeAccount
<1>4. u # v
  <2> SUFFICES ASSUME u = v PROVE FALSE
    OBVIOUS
  <2>1. account[v].role = "ADMIN" /\ account[v].active /\ account[v] \in Account
    BY <1>1 DEF Administers, AccountsTypeOK
  <2>2. change.role = "ADMIN" /\ change.active = account[v].active
    BY <1>3, <2>1 DEF MayChange, Account
  <2> QED
    BY <1>3, <2>1, <2>2
<1> QED
  BY <1>1, <1>2, <1>3, <1>4 DEF ChangeRequest

LEMMA FailedAsk ==
    ASSUME NEW q \in asking, AskFails(q)
    PROVE  Answered(q) /\ UNCHANGED <<account, files, uploads, crossed>>
BY DEF AskFails

LEMMA AccountsTypeStep ==
    ASSUME AccountsTypeOK, [AccountsNext]_accountsVars
    PROVE  AccountsTypeOK'
<1>1. CASE UNCHANGED accountsVars
  BY <1>1 DEF accountsVars, AccountsTypeOK, RequestOK, SignRequest, ChangeRequest, AvatarRequest, Photos
<1>2. ASSUME NEW u \in Users, NEW v \in Users, Register(u) \/ LoginWithGoogle(u) \/ LinkGoogle(u, v)
      PROVE  AccountsTypeOK'
  BY <1>2, SignUpAsks, AskedType DEF RequestOK, AccountsTypeOK
<1>3. ASSUME NEW u \in Users, SetAvatar(u) PROVE AccountsTypeOK'
  BY <1>3, SetAvatarAsks, AskedType DEF RequestOK, AccountsTypeOK
<1>4. ASSUME NEW u \in Users, NEW v \in Users, ChangeAccount(u, v) PROVE AccountsTypeOK'
  BY <1>4, ChangeAsks, AskedType DEF RequestOK
<1>5. ASSUME NEW q \in asking, SignedUp(q) PROVE AccountsTypeOK'
  <2>1. Answered(q) /\ UNCHANGED <<files, uploads, crossed>>
    BY <1>5 DEF SignedUp
  <2> QED
    BY <1>5, <2>1, SignedUpAccounts, AnsweredType DEF AccountsTypeOK, Photos
<1>6. ASSUME NEW q \in asking, Changed(q) PROVE AccountsTypeOK'
  <2>1. Answered(q) /\ UNCHANGED <<files, uploads, crossed>>
    BY <1>6 DEF Changed
  <2> QED
    BY <1>6, <2>1, ChangedAccounts, AnsweredType DEF AccountsTypeOK, Photos
<1>7. ASSUME NEW q \in asking, AskFails(q) PROVE AccountsTypeOK'
  BY <1>7, FailedAsk, AnsweredType DEF AccountsTypeOK
<1> QED
  BY <1>1, <1>2, <1>3, <1>4, <1>5, <1>6, <1>7, AvatarType DEF AccountsNext

-----------------------------------------------------------------------------
(* Somebody administers: whoever a request under way acts on, somebody else  *)
(* is an admin, the one who asked, for no other request acts on him.         *)

OneAtATime == \A q, o \in asking : q.op = "change" /\ o.op = "change" => q = o
AnotherAdmin(q) == \E u \in Users \ {q.target} : Administers(u)

AdminInv ==
    /\ AccountsTypeOK
    /\ SomebodyAdministers
    /\ ~crossed => OneAtATime /\ \A q \in asking : q.op = "change" => AnotherAdmin(q)

LEMMA AdminInit == AccountsInit => AdminInv
<1> SUFFICES ASSUME AccountsInit PROVE AdminInv
  OBVIOUS
<1>1. \E u \in Users : Administers(u)
  <2>1. PICK admin \in Users :
          account = [u \in Users |-> IF u = admin THEN [NewAccount(None) EXCEPT !.role = "ADMIN"]
                                     ELSE None]
    BY DEF AccountsInit
  <2>2. account[admin] \in Account /\ account[admin].role = "ADMIN" /\ account[admin].active
    BY <2>1 DEF NewAccount, Account
  <2> QED
    BY <2>2, AccountsAssumption DEF Administers
<1>2. asking = {}
  BY DEF AccountsInit
<1> QED
  BY <1>1, <1>2, AccountsTypeInit DEF AdminInv, SomebodyAdministers, OneAtATime

\* A step that adds no change of an account and takes nobody's role keeps it.
LEMMA AdminsStand ==
    ASSUME AdminInv, AccountsTypeOK', crossed' = crossed,
           \A q \in asking' \ asking : q.op # "change",
           \A u \in Users : Administers(u) => Administers(u)'
    PROVE  AdminInv'
BY DEF AdminInv, SomebodyAdministers, OneAtATime, AnotherAdmin

LEMMA AdminStep ==
    ASSUME AdminInv, [AccountsNext]_accountsVars
    PROVE  AdminInv'
<1> USE AccountsTypeStep DEF AdminInv
<1>1. CASE UNCHANGED accountsVars
  BY <1>1, AdminsStand DEF accountsVars, Administers
<1>2. ASSUME NEW u \in Users, NEW v \in Users, Register(u) \/ LoginWithGoogle(u) \/ LinkGoogle(u, v)
      PROVE  AdminInv'
  BY <1>2, SignUpAsks, AdminsStand DEF Ask, SignRequest, Administers
<1>3. ASSUME NEW u \in Users, SetAvatar(u) PROVE AdminInv'
  BY <1>3, SetAvatarAsks, AdminsStand DEF Ask, AvatarRequest, Administers
<1>4. ASSUME NEW u \in Users, NEW v \in Users, ChangeAccount(u, v) PROVE AdminInv'
  <2>1. PICK q : Ask(q) /\ ChangeRequest(q) /\ q.target = v
    BY <1>4, ChangeAsks
  <2>2. /\ account' = account /\ u # v /\ Administers(u)
        /\ ~crossed' => \A o \in asking : o.op # "change"
    BY <1>4, ChangeAsks
  <2>3. Administers(u)'
    BY <2>2 DEF Administers
  <2> QED
    BY <2>1, <2>2, <2>3 DEF Ask, SomebodyAdministers, OneAtATime, AnotherAdmin
<1>5. ASSUME NEW q \in asking, SignedUp(q) PROVE AdminInv'
  BY <1>5, SignedUpAccounts, AdminsStand DEF SignedUp, Answered, Administers
<1>6. ASSUME NEW q \in asking, Changed(q) PROVE AdminInv'
  <2>1. q.op = "change" /\ asking' = asking \ {q} /\ crossed' = crossed
    BY <1>6 DEF Changed, IsAdminRequest, Answered
  <2>2. \A u \in Users \ {q.target} : account'[u] = account[u]
    BY <1>6, ChangedAccounts
  <2>3. ~crossed => (\E u \in Users : Administers(u)') /\ \A o \in asking' : o.op # "change"
    BY <2>1, <2>2 DEF OneAtATime, AnotherAdmin, Administers
  <2> QED
    BY <2>1, <2>3 DEF SomebodyAdministers, OneAtATime
<1>7. ASSUME NEW q \in asking, AvatarStep(q) PROVE AdminInv'
  <2>1. \A o \in asking' \ asking : o.op # "change"
    BY <1>7, AvatarNext
  <2>2. \A u \in Users : Administers(u) => Administers(u)'
    BY <1>7, AvatarType DEF Administers
  <2> QED
    BY <1>7, <2>1, <2>2, AvatarStepped, AdminsStand
<1>8. ASSUME NEW q \in asking, AskFails(q) PROVE AdminInv'
  BY <1>8, FailedAsk, AdminsStand DEF Answered, Administers
<1> QED
  BY <1>1, <1>2, <1>3, <1>4, <1>5, <1>6, <1>7, <1>8 DEF AccountsNext

\* Whatever UsersService is asked, somebody can administer the service, unless two
\* admins act on accounts at once: each is refused what would take his own role.
THEOREM SomebodyAlwaysAdministers == AccountsSpec => []SomebodyAdministers
<1>1. AdminInv => SomebodyAdministers
  BY DEF AdminInv
<1> QED
  BY <1>1, AdminInit, AdminStep, PTL DEF AccountsSpec

-----------------------------------------------------------------------------
(* The photos: a request deletes a file that its own step, or an earlier one, *)
(* took from the profile, and that no request is about to give to one.        *)

Stored(photo) == photo \notin {None, Picture}

\* The file a request is to delete is nobody's, but of the profile it still has
\* to point elsewhere.
OldIsReleased(q) ==
    \A u \in Users : account[u] # None /\ Stored(q.old) /\ account[u].photo = q.old =>
                       u = q.user /\ q.left # Deleting

\* The file a request is to point at is there, and nobody else's.
NewIsFresh(q) ==
    q.left = Pointing /\ q.new # None =>
        /\ q.new \in files
        /\ \A u \in Users : account[u] # None => account[u].photo # q.new
        /\ \A o \in asking : o.op = "avatar" =>
              o.old # q.new /\ (o.left = Pointing /\ o.new = q.new => o = q)

OwnPhotos ==
    \A u, v \in Users :
        account[u] # None /\ account[v] # None /\ Stored(account[u].photo)
            => (account[u].photo = account[v].photo => u = v)

PhotosInv ==
    /\ AccountsTypeOK /\ PhotosStand /\ OwnPhotos
    /\ \A q \in asking : q.op = "avatar" =>
          OldIsReleased(q) /\ NewIsFresh(q) /\ (q.left = AvatarSteps => q.new = None)
LEMMA PhotosInit == AccountsInit => PhotosInv
<1> SUFFICES ASSUME AccountsInit PROVE PhotosInv
  OBVIOUS
<1>1. PICK admin \in Users :
        account = [u \in Users |-> IF u = admin THEN [NewAccount(None) EXCEPT !.role = "ADMIN"]
                                   ELSE None]
  BY DEF AccountsInit
<1>2. [NewAccount(None) EXCEPT !.role = "ADMIN"].photo = None
  BY DEF NewAccount
<1>3. \A u \in Users : account[u] # None => account[u].photo = None
  BY <1>1, <1>2
<1>4. asking = {}
  BY DEF AccountsInit
<1>5. PhotosStand
  BY <1>3 DEF PhotosStand
<1>6. OwnPhotos
  BY <1>3 DEF OwnPhotos, Stored
<1> QED
  BY <1>4, <1>5, <1>6, AccountsTypeInit DEF PhotosInv

\* A step that leaves every photo and every file, and adds requests that may be.
LEMMA PhotosUntouched ==
    ASSUME PhotosInv, AccountsTypeOK', files' = files,
           \A u \in Users : account'[u] # None =>
             \/ account[u] # None /\ account'[u].photo = account[u].photo
             \/ ~Stored(account'[u].photo),
           \A q \in asking' : q.op = "avatar" => q \in asking
    PROVE  PhotosInv'
<1> USE DEF PhotosInv
<1>0. PhotosStand'
  BY DEF PhotosStand, Stored
<1>1. OwnPhotos'
  BY DEF OwnPhotos, Stored
<1>2. ASSUME NEW q \in asking', q.op = "avatar"
      PROVE  /\ OldIsReleased(q)' /\ NewIsFresh(q)'
             /\ q.left = AvatarSteps => q.new = None
  <2>1. q \in asking /\ OldIsReleased(q) /\ NewIsFresh(q) /\ (q.left = AvatarSteps => q.new = None)
    BY <1>2
  <2>2. q.new # None => Stored(q.new)
    BY <1>2, <2>1 DEF AccountsTypeOK, RequestOK, SignRequest, ChangeRequest, AvatarRequest, Stored, Picture
  <2> QED
    BY <1>2, <2>1, <2>2 DEF OldIsReleased, NewIsFresh, Stored
<1> QED
  BY <1>0, <1>1, <1>2

\* setAvatar and removeAvatar read the photo they are to delete.
LEMMA PhotosAsked ==
    ASSUME PhotosInv, AccountsTypeOK', NEW u \in Users, SetAvatar(u)
    PROVE  PhotosInv'
<1> USE DEF PhotosInv
<1>1. PICK q : /\ Ask(q) /\ AvatarRequest(q)
               /\ q.user = u /\ q.old = account[u].photo /\ q.new = None
               /\ q.left \in {AvatarSteps, Pointing}
  BY SetAvatarAsks
<1>2. UNCHANGED <<account, files, uploads>> /\ asking' = asking \cup {q} /\ account[u] # None
  BY <1>1, SetAvatarAsks DEF Ask, SetAvatar
<1>3. PhotosStand' /\ OwnPhotos'
  BY <1>2 DEF PhotosStand, OwnPhotos
<1>4. OldIsReleased(q)' /\ NewIsFresh(q)'
  BY <1>1, <1>2, StepsDiffer DEF OldIsReleased, NewIsFresh, OwnPhotos
<1>5. ASSUME NEW o \in asking, o.op = "avatar" PROVE OldIsReleased(o)' /\ NewIsFresh(o)'
  BY <1>1, <1>2, <1>5 DEF OldIsReleased, NewIsFresh
<1> QED
  BY <1>1, <1>2, <1>3, <1>4, <1>5

LEMMA PhotosUploaded ==
    ASSUME PhotosInv, AccountsTypeOK', NEW q \in asking, AvatarStep(q), q.left = AvatarSteps
    PROVE  PhotosInv'
<1> USE DEF PhotosInv
<1>1. PICK n : /\ asking' = (asking \ {q}) \cup {n}
               /\ n.op = "avatar" /\ n.user = q.user /\ n.old = q.old
               /\ n.left = Pointing /\ n.new = uploads + 1
  BY AvatarNext, StepsDiffer
<1>2. /\ account' = account /\ files' = files \cup {uploads + 1} /\ uploads \in Nat
      /\ AvatarRequest(q) /\ q.op = "avatar"
  BY AvatarStepped, StepsDiffer DEF AccountsTypeOK, AvatarRequest
<1>3. /\ uploads + 1 # None /\ uploads + 1 \notin Photos
      /\ \A o \in asking : o.op = "avatar" => o.old \in Photos /\ o.new \in Photos
  BY <1>2, AccountsAssumption
  DEF Photos, Picture, AccountsTypeOK, RequestOK, SignRequest, ChangeRequest, AvatarRequest
<1>4. PhotosStand' /\ OwnPhotos'
  BY <1>2 DEF PhotosStand, OwnPhotos
<1>5. OldIsReleased(n)'
  BY <1>1, <1>2, StepsDiffer DEF OldIsReleased
<1>6. NewIsFresh(n)'
  BY <1>1, <1>2, <1>3 DEF NewIsFresh, AccountsTypeOK
<1>7. ASSUME NEW o \in asking, o.op = "avatar" PROVE OldIsReleased(o)' /\ NewIsFresh(o)'
  BY <1>1, <1>2, <1>3, <1>7 DEF OldIsReleased, NewIsFresh
<1> QED
  BY <1>1, <1>4, <1>5, <1>6, <1>7, StepsDiffer

LEMMA PhotosPointed ==
    ASSUME PhotosInv, AccountsTypeOK', NEW q \in asking, AvatarStep(q), q.left = Pointing
    PROVE  PhotosInv'
<1> USE DEF PhotosInv
<1>1. PICK n : /\ asking' = (asking \ {q}) \cup {n}
               /\ n.op = "avatar" /\ n.user = q.user /\ n.old = q.old
               /\ n.left = Deleting /\ n.new = q.new
  BY AvatarNext, StepsDiffer
<1>2. /\ account' = [account EXCEPT ![q.user].photo = q.new] /\ files' = files
      /\ AvatarRequest(q) /\ q.op = "avatar" /\ q.user \in Users /\ account[q.user] # None
  BY AvatarStepped, StepsDiffer DEF AvatarRequest
<1>3. /\ account'[q.user].photo = q.new
      /\ \A u \in Users \ {q.user} : account'[u] = account[u]
  BY <1>2 DEF AccountsTypeOK, Account
<1>4. /\ NewIsFresh(q) /\ OldIsReleased(q)
      /\ q.new # None => Stored(q.new) /\ q.new \in files
  BY <1>2 DEF NewIsFresh, AvatarRequest, Stored, Picture
<1>5. PhotosStand'
  BY <1>2, <1>3, <1>4 DEF PhotosStand
<1>8. OwnPhotos'
  BY <1>2, <1>3, <1>4 DEF OwnPhotos, NewIsFresh, Stored
<1>6. OldIsReleased(n)' /\ NewIsFresh(n)'
  BY <1>1, <1>2, <1>3, <1>4, StepsDiffer DEF OldIsReleased, NewIsFresh, Stored
<1>7. ASSUME NEW o \in asking, o.op = "avatar", o # q PROVE OldIsReleased(o)' /\ NewIsFresh(o)'
  BY <1>1, <1>2, <1>3, <1>4, <1>7, StepsDiffer DEF OldIsReleased, NewIsFresh, Stored
<1> QED
  BY <1>1, <1>5, <1>6, <1>7, <1>8, StepsDiffer

LEMMA PhotosDeleted ==
    ASSUME PhotosInv, AccountsTypeOK', NEW q \in asking, AvatarStep(q), q.left = Deleting
    PROVE  PhotosInv'
<1> USE DEF PhotosInv
<1>1. asking' = asking \ {q}
  BY AvatarNext, StepsDiffer
<1>2. /\ account' = account /\ (files' = files \ {q.old} \/ files' = files)
      /\ q.op = "avatar" /\ uploads \in Nat
  BY AvatarStepped, StepsDiffer DEF AccountsTypeOK, AvatarRequest
<1>3. OldIsReleased(q)
  BY <1>2
<1>4. PhotosStand' /\ OwnPhotos'
  BY <1>2, <1>3 DEF PhotosStand, OwnPhotos, OldIsReleased, Stored
<1>5. ASSUME NEW o \in asking, o.op = "avatar" PROVE OldIsReleased(o)' /\ NewIsFresh(o)'
  BY <1>1, <1>2, <1>5 DEF OldIsReleased, NewIsFresh
<1> QED
  BY <1>1, <1>4, <1>5

LEMMA PhotosStep ==
    ASSUME PhotosInv, [AccountsNext]_accountsVars
    PROVE  PhotosInv'
<1>0. AccountsTypeOK /\ AccountsTypeOK'
  BY AccountsTypeStep DEF PhotosInv
<1>1. CASE UNCHANGED accountsVars
  BY <1>0, <1>1, PhotosUntouched DEF accountsVars
<1>2. ASSUME NEW u \in Users, NEW v \in Users, Register(u) \/ LoginWithGoogle(u) \/ LinkGoogle(u, v)
      PROVE  PhotosInv'
  BY <1>0, <1>2, SignUpAsks, PhotosUntouched DEF Ask, SignRequest
<1>3. ASSUME NEW u \in Users, SetAvatar(u) PROVE PhotosInv'
  BY <1>0, <1>3, PhotosAsked
<1>4. ASSUME NEW u \in Users, NEW v \in Users, ChangeAccount(u, v) PROVE PhotosInv'
  BY <1>0, <1>4, ChangeAsks, PhotosUntouched DEF Ask, ChangeRequest
<1>5. ASSUME NEW q \in asking, SignedUp(q) PROVE PhotosInv'
  <2>1. files' = files /\ asking' = asking \ {q}
    BY <1>5 DEF SignedUp, Answered
  <2> QED
    BY <1>0, <1>5, <2>1, SignedUpAccounts, PhotosUntouched DEF Stored
<1>6. ASSUME NEW q \in asking, Changed(q) PROVE PhotosInv'
  <2>1. files' = files /\ asking' = asking \ {q}
    BY <1>6 DEF Changed, Answered
  <2> QED
    BY <1>0, <1>6, <2>1, ChangedAccounts, PhotosUntouched
<1>7. ASSUME NEW q \in asking, AvatarStep(q) PROVE PhotosInv'
  <2>1. q.left \in {AvatarSteps, Pointing, Deleting}
    BY <1>0, <1>7, AvatarStepped DEF AvatarRequest
  <2> QED
    BY <1>0, <1>7, <2>1, PhotosUploaded, PhotosPointed, PhotosDeleted
<1>8. ASSUME NEW q \in asking, AskFails(q) PROVE PhotosInv'
  BY <1>0, <1>8, FailedAsk, PhotosUntouched DEF Answered
<1> QED
  BY <1>1, <1>2, <1>3, <1>4, <1>5, <1>6, <1>7, <1>8 DEF AccountsNext

\* The photo a profile points at is in the storage, whatever uploads and removals
\* overlap or fail half way.
THEOREM PhotosAlwaysStand == AccountsSpec => []PhotosStand
<1>1. PhotosInv => PhotosStand
  BY DEF PhotosInv
<1> QED
  BY <1>1, PhotosInit, PhotosStep, PTL DEF AccountsSpec

-----------------------------------------------------------------------------
(* The chat of a match, for any tabs, any people behind them and any number *)
(* of requests under way.  What a tab does not show, or no longer should,   *)
(* is in the hands of a request; a headcount that may be wrong is put off.  *)

ChatRequests == [op : {"push", "delete", "audit"}, id : DOMAIN messages]

ChatTypes ==
    /\ messages \in Seq({"stands", "deleted"})
    /\ sending \subseteq ChatRequests
    /\ inRoom \subseteq Tabs /\ loaded \subseteq Tabs
    /\ shown \in [Tabs -> SUBSET (DOMAIN messages)]
    /\ unheard \in [Tabs -> SUBSET (DOMAIN messages)]
    /\ astray \subseteq DOMAIN messages
    /\ \A i \in astray : messages[i] = "deleted"
    /\ \A r \in sending : r.op = "audit" => messages[r.id] = "deleted"

\* Tab t is told of message i, or about to be, or could not hear of it.
ToldOf(t, i) ==
    i \notin unheard[t] =>
       /\ (messages[i] = "stands" /\ i \notin shown[t]) => [op |-> "push", id |-> i] \in sending
       /\ (messages[i] = "deleted" /\ i \in shown[t] /\ i \notin astray) =>
             [op |-> "audit", id |-> i] \in sending

TabsAreTold == \A t \in loaded, i \in DOMAIN messages : ToldOf(t, i)

HeadsAreCounted == deferred = {} => \A t \in inRoom : headcount[t] = People(inRoom)

ChatInv == ChatTypes /\ TabsAreTold /\ HeadsAreCounted

\* A push of the headcount tells everybody.
LEMMA CountedIsPeople ==
    ASSUME NEW tabs \in SUBSET Tabs
    PROVE  \A t \in tabs : Counted(tabs)[t] = People(tabs)
BY DEF Counted

LEMMA HeadcountSteps ==
    ASSUME ChatInv,
           \/ \E t \in Tabs : LoadList(t) \/ OpenStream(t) \/ PushHeadcount(t) \/ Leave(t)
           \/ ChatRestarts
    PROVE  ChatInv'
<1>1. ASSUME NEW t \in Tabs, LoadList(t) PROVE ChatInv'
  <2>1. /\ shown' = [shown EXCEPT ![t] = Standing]
        /\ headcount' = [headcount EXCEPT ![t] = People(inRoom)]
        /\ loaded' = loaded \cup {t} /\ unheard' = [unheard EXCEPT ![t] = {}]
        /\ UNCHANGED <<messages, sending, inRoom, deferred, astray>>
    BY <1>1 DEF LoadList
  <2>2. ChatTypes'
    BY <2>1 DEF ChatInv, ChatTypes, ChatRequests, Standing
  <2>3. TabsAreTold'
    BY <2>1 DEF ChatInv, ChatTypes, TabsAreTold, ToldOf, Standing
  <2>4. HeadsAreCounted'
    <3> SUFFICES ASSUME deferred = {}, NEW u \in inRoom PROVE headcount'[u] = People(inRoom)
      BY <2>1 DEF HeadsAreCounted, People
    <3>1. headcount[u] = People(inRoom)
      BY DEF ChatInv, HeadsAreCounted
    <3> QED
      BY <2>1, <3>1 DEF ChatInv, ChatTypes
  <2> QED
    BY <2>2, <2>3, <2>4 DEF ChatInv
<1>2. ASSUME NEW t \in Tabs, OpenStream(t) PROVE ChatInv'
  <2>1. /\ inRoom' = inRoom \cup {t} /\ deferred' = deferred \cup {t}
        /\ UNCHANGED <<messages, sending, loaded, headcount, shown, astray, unheard>>
    BY <1>2 DEF OpenStream
  <2>2. ChatTypes' /\ TabsAreTold'
    BY <2>1 DEF ChatInv, ChatTypes, ChatRequests, TabsAreTold, ToldOf
  <2>3. HeadsAreCounted'
    BY <2>1 DEF HeadsAreCounted
  <2> QED
    BY <2>2, <2>3 DEF ChatInv
<1>3. ASSUME NEW t \in Tabs, PushHeadcount(t) PROVE ChatInv'
  <2>1. /\ headcount' = Counted(inRoom)
        /\ UNCHANGED <<messages, sending, inRoom, loaded, shown, astray, unheard>>
    BY <1>3 DEF PushHeadcount
  <2>2. ChatTypes' /\ TabsAreTold'
    BY <2>1 DEF ChatInv, ChatTypes, ChatRequests, TabsAreTold, ToldOf
  <2>3. HeadsAreCounted'
    BY <2>1, CountedIsPeople DEF ChatInv, ChatTypes, HeadsAreCounted, People
  <2> QED
    BY <2>2, <2>3 DEF ChatInv
<1>4. ASSUME NEW t \in Tabs, Leave(t) PROVE ChatInv'
  <2>1. /\ inRoom' = inRoom \ {t} /\ loaded' = loaded \ {t}
        /\ headcount' = [Counted(inRoom \ {t}) EXCEPT ![t] = 0]
        /\ shown' = [shown EXCEPT ![t] = {}] /\ unheard' = [unheard EXCEPT ![t] = {}]
        /\ UNCHANGED <<messages, sending, deferred, astray>>
    BY <1>4 DEF Leave
  <2>2. ChatTypes' /\ TabsAreTold'
    BY <2>1 DEF ChatInv, ChatTypes, ChatRequests, TabsAreTold, ToldOf
  <2>3. \A u \in inRoom \ {t} : u \in Tabs /\ u # t
                                /\ headcount'[u] = Counted(inRoom \ {t})[u]
    BY <2>1 DEF ChatInv, ChatTypes, Counted
  <2>4. HeadsAreCounted'
    BY <2>1, <2>3, CountedIsPeople DEF ChatInv, ChatTypes, HeadsAreCounted, People
  <2> QED
    BY <2>2, <2>4 DEF ChatInv
<1>5. CASE ChatRestarts
  BY <1>5 DEF ChatRestarts, ChatInv, ChatTypes, ChatRequests, TabsAreTold, HeadsAreCounted
<1> QED
  BY <1>1, <1>2, <1>3, <1>4, <1>5

\* What a request is, when it is one of its kind.
LEMMA RequestIs ==
    ASSUME ChatInv, NEW r \in sending
    PROVE  r = [op |-> r.op, id |-> r.id] /\ r.id \in DOMAIN messages
BY DEF ChatInv, ChatTypes, ChatRequests

\* The steps of the messages do not disturb who is counted.
LEMMA HeadsUndisturbed ==
    ASSUME ChatInv, UNCHANGED <<inRoom, deferred, headcount>>
    PROVE  HeadsAreCounted'
BY DEF ChatInv, HeadsAreCounted, People

LEMMA PostedMessage ==
    ASSUME ChatInv, Post
    PROVE  ChatInv'
<1> DEFINE n == Len(messages) + 1
           request == [op |-> "push", id |-> n]
<1>1. /\ sending' = sending \cup {request} /\ messages' = Append(messages, "stands")
      /\ UNCHANGED <<inRoom, loaded, deferred, headcount, shown, astray, unheard>>
  BY DEF Post, Begin, tabVars
<1>2. messages \in Seq({"stands", "deleted"}) /\ Len(messages) \in Nat
  BY DEF ChatInv, ChatTypes
<1>3. /\ DOMAIN messages = 1..Len(messages) /\ DOMAIN messages' = 1..n
      /\ messages' \in Seq({"stands", "deleted"}) /\ messages'[n] = "stands"
      /\ \A i \in DOMAIN messages : messages'[i] = messages[i]
  BY <1>1, <1>2
<1>4. DOMAIN messages \subseteq DOMAIN messages' /\ n \in DOMAIN messages' /\ n \notin DOMAIN messages
      /\ DOMAIN messages' = DOMAIN messages \cup {n}
  BY <1>2, <1>3
<1> HIDE DEF n
<1>5. ChatTypes'
  <2>1. sending' \subseteq ChatRequests'
    BY <1>1, <1>4 DEF ChatInv, ChatTypes, ChatRequests
  <2>2. /\ shown' \in [Tabs -> SUBSET (DOMAIN messages')] /\ astray' \subseteq DOMAIN messages'
        /\ unheard' \in [Tabs -> SUBSET (DOMAIN messages')]
    BY <1>1, <1>4 DEF ChatInv, ChatTypes
  <2>3. \A i \in astray' : messages'[i] = "deleted"
    BY <1>1, <1>3 DEF ChatInv, ChatTypes
  <2>4. \A r \in sending' : r.op = "audit" => messages'[r.id] = "deleted"
    BY <1>1, <1>3, RequestIs DEF ChatInv, ChatTypes
  <2> QED
    BY <1>1, <1>3, <2>1, <2>2, <2>3, <2>4 DEF ChatInv, ChatTypes
<1>6. TabsAreTold'
  <2> SUFFICES ASSUME NEW t \in loaded', NEW i \in DOMAIN messages' PROVE ToldOf(t, i)'
    BY DEF TabsAreTold
  <2>1. CASE i = n
    BY <1>1, <1>3, <2>1 DEF ToldOf
  <2>2. CASE i \in DOMAIN messages
    BY <1>1, <1>3, <2>2 DEF ChatInv, TabsAreTold, ToldOf
  <2> QED
    BY <1>4, <2>1, <2>2
<1> QED
  BY <1>1, <1>5, <1>6, HeadsUndisturbed DEF ChatInv

LEMMA RemovalBegins ==
    ASSUME ChatInv, NEW i \in DOMAIN messages, RemoveMessage(i)
    PROVE  ChatInv'
<1>1. /\ sending' = sending \cup {[op |-> "delete", id |-> i]}
      /\ UNCHANGED <<messages, inRoom, loaded, deferred, headcount, shown, astray, unheard>>
  BY DEF tabVars, RemoveMessage, Begin
<1>2. ChatTypes'
  BY <1>1 DEF ChatInv, ChatTypes, ChatRequests
<1>3. TabsAreTold'
  BY <1>1 DEF ChatInv, TabsAreTold, ToldOf
<1> QED
  BY <1>1, <1>2, <1>3, HeadsUndisturbed DEF ChatInv

LEMMA MessagePushed ==
    ASSUME ChatInv, NEW r \in sending, PushMessage(r)
    PROVE  ChatInv'
<1>1. /\ r = [op |-> "push", id |-> r.id] /\ r.id \in DOMAIN messages
      /\ sending' = sending \ {r}
      /\ shown' = [t \in Tabs |-> IF t \in inRoom THEN shown[t] \cup {r.id} ELSE shown[t]]
      /\ astray' = IF messages[r.id] = "deleted" THEN astray \cup {r.id} ELSE astray
      /\ unheard' = Unheard({t \in Tabs : r.id \notin shown[t]}, r.id)
      /\ UNCHANGED <<messages, inRoom, loaded, deferred, headcount>>
  BY RequestIs DEF PushMessage, tabVars
<1>2. ChatTypes'
  BY <1>1 DEF ChatInv, ChatTypes, ChatRequests, Unheard
<1>3. TabsAreTold'
  <2> SUFFICES ASSUME NEW t \in loaded, NEW i \in DOMAIN messages PROVE ToldOf(t, i)'
    BY <1>1 DEF TabsAreTold
  <2>1. ToldOf(t, i) /\ t \in Tabs
    BY DEF ChatInv, ChatTypes, TabsAreTold
  <2>2. CASE i = r.id
    <3>1. i \in shown'[t] \/ i \in unheard'[t]
      BY <1>1, <2>1, <2>2 DEF Unheard
    <3>2. messages[i] = "deleted" => i \in astray'
      BY <1>1, <2>2
    <3> QED
      BY <1>1, <3>1, <3>2 DEF ToldOf
  <2>3. CASE i # r.id
    <3>1. r # [op |-> "push", id |-> i] /\ r # [op |-> "audit", id |-> i]
      BY <1>1, <2>3
    <3>2. /\ i \in shown'[t] <=> i \in shown[t]
          /\ i \in unheard'[t] <=> i \in unheard[t]
          /\ i \in astray' <=> i \in astray
      BY <1>1, <2>1, <2>3 DEF Unheard
    <3> QED
      BY <1>1, <2>1, <3>1, <3>2 DEF ToldOf
  <2> QED
    BY <2>2, <2>3
<1> QED
  BY <1>1, <1>2, <1>3, HeadsUndisturbed DEF ChatInv

LEMMA MessageDeleted ==
    ASSUME ChatInv, NEW r \in sending, Delete(r)
    PROVE  ChatInv'
<1> DEFINE audit == [op |-> "audit", id |-> r.id]
<1>1. /\ r = [op |-> "delete", id |-> r.id] /\ r.id \in DOMAIN messages
      /\ messages' = [messages EXCEPT ![r.id] = "deleted"]
      /\ sending' = (sending \ {r}) \cup {audit}
      /\ UNCHANGED <<inRoom, loaded, deferred, headcount, shown, astray, unheard>>
  BY RequestIs DEF Delete, tabVars
<1>2. /\ DOMAIN messages' = DOMAIN messages /\ messages' \in Seq({"stands", "deleted"})
      /\ messages'[r.id] = "deleted"
      /\ \A i \in DOMAIN messages : i # r.id => messages'[i] = messages[i]
  BY <1>1 DEF ChatInv, ChatTypes
<1>3. ChatTypes'
  <2>1. sending' \subseteq ChatRequests'
    BY <1>1, <1>2 DEF ChatInv, ChatTypes, ChatRequests
  <2>2. \A i \in astray' : messages'[i] = "deleted"
    BY <1>1, <1>2 DEF ChatInv, ChatTypes
  <2>3. \A q \in sending' : q.op = "audit" => messages'[q.id] = "deleted"
    BY <1>1, <1>2, RequestIs DEF ChatInv, ChatTypes
  <2> QED
    BY <1>1, <1>2, <2>1, <2>2, <2>3 DEF ChatInv, ChatTypes
<1>4. TabsAreTold'
  <2> SUFFICES ASSUME NEW t \in loaded, NEW i \in DOMAIN messages PROVE ToldOf(t, i)'
    BY <1>1, <1>2 DEF TabsAreTold
  <2>1. ToldOf(t, i)
    BY DEF ChatInv, TabsAreTold
  <2>2. CASE i = r.id
    BY <1>1, <1>2, <2>2 DEF ToldOf
  <2>3. CASE i # r.id
    <3>1. r # [op |-> "push", id |-> i] /\ r # [op |-> "audit", id |-> i]
      BY <1>1
    <3> QED
      BY <1>1, <1>2, <2>1, <2>3, <3>1 DEF ToldOf
  <2> QED
    BY <2>2, <2>3
<1> QED
  BY <1>1, <1>3, <1>4, HeadsUndisturbed DEF ChatInv

LEMMA MessageAudited ==
    ASSUME ChatInv, NEW r \in sending, Audit(r)
    PROVE  ChatInv'
<1>1. /\ r = [op |-> "audit", id |-> r.id] /\ r.id \in DOMAIN messages
      /\ messages[r.id] = "deleted" /\ sending' = sending \ {r}
      /\ UNCHANGED <<messages, inRoom, loaded, deferred, headcount>>
  BY RequestIs DEF Audit, ChatInv, ChatTypes, tabVars
<1>2. \/ /\ shown' = WithoutMessage(r.id) /\ astray' = astray
         /\ unheard' = Unheard({t \in Tabs : r.id \in shown[t]}, r.id)
      \/ astray' = astray \cup {r.id} /\ UNCHANGED <<shown, unheard>>
  BY DEF Audit
<1>3. ChatTypes'
  BY <1>1, <1>2 DEF ChatInv, ChatTypes, ChatRequests, WithoutMessage, Unheard
<1>4. TabsAreTold'
  <2> SUFFICES ASSUME NEW t \in loaded, NEW i \in DOMAIN messages PROVE ToldOf(t, i)'
    BY <1>1 DEF TabsAreTold
  <2>1. ToldOf(t, i) /\ t \in Tabs
    BY DEF ChatInv, ChatTypes, TabsAreTold
  <2>2. CASE i = r.id
    <3>1. i \notin shown'[t] \/ i \in astray' \/ i \in unheard'[t]
      BY <1>2, <2>1, <2>2 DEF WithoutMessage, Unheard
    <3> QED
      BY <1>1, <2>2, <3>1 DEF ToldOf
  <2>3. CASE i # r.id
    <3>1. r # [op |-> "push", id |-> i] /\ r # [op |-> "audit", id |-> i]
      BY <1>1, <2>3
    <3>2. /\ i \in shown'[t] <=> i \in shown[t]
          /\ i \in unheard'[t] <=> i \in unheard[t]
          /\ i \in astray' <=> i \in astray
      BY <1>2, <2>1, <2>3 DEF WithoutMessage, Unheard
    <3> QED
      BY <1>1, <2>1, <3>1, <3>2 DEF ToldOf
  <2> QED
    BY <2>2, <2>3
<1> QED
  BY <1>1, <1>3, <1>4, HeadsUndisturbed DEF ChatInv

LEMMA ChatBegins == ChatInit => ChatInv
BY DEF ChatInit, ChatInv, ChatTypes, ChatRequests, TabsAreTold, HeadsAreCounted

LEMMA ChatKept == ChatInv /\ [ChatNext]_chatVars => ChatInv'
<1> SUFFICES ASSUME ChatInv, [ChatNext]_chatVars PROVE ChatInv'
  OBVIOUS
<1>1. CASE UNCHANGED chatVars
  BY <1>1 DEF chatVars, ChatInv, ChatTypes, ChatRequests, TabsAreTold, ToldOf, HeadsAreCounted, People
<1> QED
  BY <1>1, HeadcountSteps, PostedMessage, RemovalBegins, MessagePushed, MessageDeleted,
     MessageAudited DEF ChatNext

\* A tab that has the list and its stream shows what stands, but for what was pushed
\* between the two, and counts who is there, once nothing is under way, for any tabs,
\* people and requests.
THEOREM RoomIsAlwaysFollowed == ChatSpec => []RoomIsFollowed
<1>1. ASSUME ChatInv PROVE RoomIsFollowed
  <2> SUFFICES ASSUME sending = {}, deferred = {}, NEW t \in inRoom \cap loaded
               PROVE  /\ \A i \in (DOMAIN messages) \ unheard[t] :
                           i \in Standing <=> i \in shown[t] \ astray
                      /\ headcount[t] = Cardinality({p \in {PersonOf[u] : u \in Tabs} :
                                                       \E u \in inRoom : PersonOf[u] = p})
    BY DEF RoomIsFollowed
  <2>1. inRoom \subseteq Tabs /\ t \in Tabs
    BY <1>1 DEF ChatInv, ChatTypes
  <2>2. ASSUME NEW i \in (DOMAIN messages) \ unheard[t]
        PROVE  i \in Standing <=> i \in shown[t] \ astray
    <3>1. messages[i] \in {"stands", "deleted"} /\ (i \in astray => messages[i] = "deleted")
      BY <1>1 DEF ChatInv, ChatTypes
    <3>2. ToldOf(t, i)
      BY <1>1 DEF ChatInv, TabsAreTold
    <3> QED
      BY <3>1, <3>2 DEF ToldOf, Standing
  <2>3. {p \in {PersonOf[u] : u \in Tabs} : \E u \in inRoom : PersonOf[u] = p}
          = {PersonOf[u] : u \in inRoom}
    BY <2>1
  <2>4. headcount[t] = People(inRoom)
    BY <1>1 DEF ChatInv, HeadsAreCounted
  <2> QED
    BY <2>2, <2>3, <2>4 DEF People
<1> QED
  BY <1>1, ChatBegins, ChatKept, PTL DEF ChatSpec

=============================================================================
