------------------------------ MODULE Newsroom ------------------------------
(***************************************************************************)
(* The content pipeline: items discovered in the feeds are claimed by the  *)
(* runs of a minute cron (ContentProcessService), extracted, generated and *)
(* left for review; editors regenerate, reject and promote them            *)
(* (NewsItemsService, MatchReportService).  What a day produces is counted *)
(* by reading a sum and writing it back (ContentSettingsService), and the  *)
(* count is checked against a cap.  One day, one cap: the money spent is a *)
(* second sum read and written with the first, and is left out.            *)
(* The master switch (paused) only keeps runs from starting, which nothing *)
(* here obliges them to do.  An item is a row of the table: a source that  *)
(* is found again after its item was removed is another item.              *)
(***************************************************************************)
EXTENDS Common

CONSTANTS
    Items,
    Event,       \* the event each item is about, as the extraction keys it
    Runs,        \* the workers that can be runs of the crons
    Desks,       \* the workers that can be requests of the editors
    Batch,       \* BATCH
    MaxPerDay,   \* maxPerDay
    MaxAsked     \* bound on the requests of the editors

ASSUME NewsroomAssumption ==
    /\ IsFiniteSet(Items) /\ IsFiniteSet(Runs) /\ IsFiniteSet(Desks)
    /\ {Batch, MaxPerDay, MaxAsked} \subseteq Nat \ {0}

VARIABLES
    item,      \* each item: its status, where its facts come from, and whether its
               \* event's key is saved
    posted,    \* the items a post was created from
    usage,     \* items counted today
    worker,    \* what each worker is doing, and what it has read
    made,      \* history: articles the cron generated
    asked,     \* how many requests the editors have made
    crowded,   \* history: two runs of the cron overlapped
    miscounted,\* history: two counts overlapped, or one was never written
    loose,     \* history: the items an editor had generated or removed, or two
               \* workers wrote at once
    keyless,   \* the items whose extraction gave no key
    overlooked,\* history: the items generated although a story had their key
    died        \* history: a worker died, or could not even record a failure

newsVars == <<item, posted, usage, worker, made, asked, crowded, miscounted,
              loose, keyless, overlooked, died>>

Workers == Runs \cup Desks
Vacant == [kind |-> "none", at |-> "idle", item |-> "none", queue |-> {}, read |-> 0]
Absent == [status |-> "absent", facts |-> "none", keyed |-> FALSE]
Gone == [Absent EXCEPT !.status = "removed"]
Present(i) == item[i] \notin {Absent, Gone}
\* Articles the robot could not match with the stories of their event.
Unmatched == keyless \cup overlooked
Aside == loose \cup Unmatched
In(statuses) == {i \in Items : item[i].status \in statuses}

NewsInit ==
    /\ item = [i \in Items |-> Absent]
    /\ posted = {}
    /\ usage = 0
    /\ worker = [w \in Workers |-> Vacant]
    /\ made = 0 /\ asked = 0
    /\ crowded = FALSE /\ miscounted = FALSE /\ died = FALSE
    /\ loose = {} /\ keyless = {} /\ overlooked = {}

-----------------------------------------------------------------------------
(* Faulty variants, for testing the properties. *)

\* any item is claimed, whoever has it
ClaimsAny(i) == item[i].status # "absent"

\* the cap is looked at once per run
RoomUnchecked(n) == TRUE

\* an article already promoted does not count as the same event
PrimariesPending(i) ==
    {j \in Items \ {i} : /\ item[j].status = "PENDING_REVIEW" /\ item[j].keyed
                         /\ Event[j] = Event[i]}

-----------------------------------------------------------------------------
(* Reads and writes. *)

Busy == {w \in Workers : worker[w] # Vacant}
Having(i, w) == {v \in Busy \ {w} : worker[v].item = i /\ worker[v].at # "claim"}
Shared(i, w) == loose' = IF Having(i, w) = {} THEN loose ELSE loose \cup {i}
Goes(w, at) == worker' = [worker EXCEPT ![w].at = at]
Ends(w) == worker' = [worker EXCEPT ![w] = Vacant]
\* processItem returns to the loop of the tick; a request ends.
Returns(w) ==
    IF worker[w].kind = "cron" THEN Goes(w, "check") ELSE Ends(w)
Becomes(i, status) == item' = [item EXCEPT ![i].status = status]

CapReached(n) == n >= MaxPerDay
Room(n) == ~CapReached(n)

-----------------------------------------------------------------------------
(* Discovery. *)

\* ContentIngestService.tick and fetchFeed: what is new under (feedId, sourceGuid)
\* is inserted; generative feeds bring the facts.
Inserted(found, facts) ==
    item' = [i \in Items |-> IF i \in found /\ item[i] = Absent
                             THEN [Absent EXCEPT !.status = "DISCOVERED", !.facts = facts]
                             ELSE item[i]]

Found(i) ==
    /\ item[i] = Absent
    /\ \E facts \in {"none", "given"} : Inserted({i}, facts)
    /\ UNCHANGED <<posted, usage, worker, made, asked, crowded, miscounted,
                   loose, keyless, overlooked, died>>

\* TopicConnector.discover: a search is paid for before its results are inserted.
SearchStarts(w) ==
    /\ worker[w] = Vacant
    /\ ~CapReached(usage)
    /\ worker' = [worker EXCEPT ![w] = [Vacant EXCEPT !.kind = "search", !.at = "bill"]]
    /\ UNCHANGED <<item, posted, usage, made, asked, crowded, miscounted,
                   loose, keyless, overlooked, died>>

SearchEnds(w) ==
    /\ worker[w].kind = "search" /\ worker[w].at = "insert"
    /\ \E found \in SUBSET Items : Inserted(found, "none")
    /\ Ends(w)
    /\ UNCHANGED <<posted, usage, made, asked, crowded, miscounted, loose, keyless,
                   overlooked, died>>

-----------------------------------------------------------------------------
(* The cron. *)

RunStarts(w) ==
    /\ worker[w] = Vacant
    /\ ~CapReached(usage)
    /\ \E batch \in SUBSET In({"DISCOVERED"}) :
         /\ batch # {} /\ Cardinality(batch) <= Batch
         /\ batch = In({"DISCOVERED"}) \/ Cardinality(batch) = Batch
         /\ worker' = [worker EXCEPT ![w] =
                        [Vacant EXCEPT !.kind = "cron", !.at = "check", !.queue = batch]]
    /\ crowded' = (crowded \/ \E v \in Workers : worker[v].kind = "cron")
    /\ UNCHANGED <<item, posted, usage, made, asked, miscounted, loose, keyless,
                   overlooked, died>>

\* The loop of tick: the cap is looked at again before each item.
NextItem(w) ==
    /\ worker[w].at = "check"
    /\ IF worker[w].queue = {} \/ ~Room(usage)
       THEN Ends(w)
       ELSE \E i \in worker[w].queue :
              worker' = [worker EXCEPT ![w].queue = @ \ {i}, ![w].item = i, ![w].at = "claim"]
    /\ UNCHANGED <<item, posted, usage, made, asked, crowded, miscounted,
                   loose, keyless, overlooked, died>>

Claimable(i) == item[i].status = "DISCOVERED"
Claim(w) ==
    LET i == worker[w].item IN
    /\ worker[w].at = "claim"
    /\ IF Claimable(i)
       THEN /\ Becomes(i, "PROCESSING")
            /\ Goes(w, IF item[i].facts = "given" THEN "generate" ELSE "extract")
       ELSE UNCHANGED item /\ Goes(w, "check")
    /\ UNCHANGED <<posted, usage, made, asked, crowded, miscounted, loose, keyless,
                   overlooked, died>>

\* The stories found under the event of an item.  The key is saved with an article
\* the cron wrote from a source, and with a duplicate.
Primaries(i) == {j \in In({"PENDING_REVIEW", "PROMOTED"}) \ {i} : /\ item[j].keyed
                                                                  /\ Event[j] = Event[i]}

\* ArticleFetchService.fetch, the guards on what came back, and
\* LlmService.extractAndClassify: the body is stale or thin, or the text irrelevant;
\* or the oldest story of the last two days under its key shares an entity with it.
\* Without a key nothing is searched; a story that is older, or behind one that
\* shares none, is overlooked.
Extracted(w) ==
    LET i == worker[w].item IN
    /\ worker[w].at = "extract"
    /\ Present(i)
    /\ \/ /\ \/ Becomes(i, "FILTERED") /\ Goes(w, "check")
             \/ /\ item' = [item EXCEPT ![i].status = "FILTERED", ![i].facts = "extracted"]
                /\ Goes(w, "bill")
             \/ /\ Primaries(i) # {}
                /\ item' = [item EXCEPT ![i] = [status |-> "DUPLICATE", facts |-> "extracted",
                                               keyed |-> TRUE]]
                /\ Goes(w, "bill")
          /\ UNCHANGED <<keyless, overlooked>>
       \/ /\ Goes(w, "generate") /\ UNCHANGED item
          /\ \/ /\ overlooked' = IF Primaries(i) = {} THEN overlooked ELSE overlooked \cup {i}
                /\ UNCHANGED keyless
             \/ keyless' = keyless \cup {i} /\ UNCHANGED overlooked
    /\ UNCHANGED <<posted, usage, made, asked, crowded, miscounted, loose, died>>

\* The article came back and passed the audit or not: it goes to review, with its
\* revision, and only then is counted.
Generated(w) ==
    LET i == worker[w].item IN
    /\ worker[w].kind = "cron" /\ worker[w].at = "generate"
    /\ Present(i)
    /\ item' = [item EXCEPT ![i] = IF @.facts = "given" THEN [@ EXCEPT !.status = "PENDING_REVIEW"]
                                     ELSE [status |-> "PENDING_REVIEW", facts |-> "extracted",
                                           keyed |-> i \notin keyless]]
    /\ made' = IF miscounted THEN made ELSE made + 1
    /\ Goes(w, "count")
    /\ UNCHANGED <<posted, usage, asked, crowded, miscounted, loose, keyless,
                   overlooked, died>>

\* The two halves of addUsage: at "count" one article is added, at "bill" none.
Counting == {"counting", "billing"}
Working == {"extract", "generate", "count", "bill", "save"} \cup Counting
CountRead(w) ==
    /\ worker[w].at \in {"count", "bill"}
    /\ worker' = [worker EXCEPT ![w].read = usage,
                                ![w].at = IF @ = "count" THEN "counting" ELSE "billing"]
    /\ miscounted' = (miscounted \/ \E v \in Workers : worker[v].at \in Counting)
    /\ UNCHANGED <<item, posted, usage, made, asked, crowded, loose, keyless,
                   overlooked, died>>

CountWritten(w) ==
    /\ worker[w].at \in Counting
    /\ usage' = worker[w].read + (IF worker[w].at = "counting" THEN 1 ELSE 0)
    /\ worker' = [worker EXCEPT ![w].read = 0,
         ![w].at = CASE worker[w].kind = "cron"   -> "check"
                     [] worker[w].kind = "search" -> "insert"
                     [] worker[w].kind = "editor" -> "save"]
    /\ UNCHANGED <<item, posted, made, asked, crowded, miscounted, loose, keyless,
                   overlooked, died>>

-----------------------------------------------------------------------------
(* The editors. *)

\* MatchReportService.generateForMatch, up to its call of reprocess: the item of
\* the match is created, or its facts are renewed.
Reported(w, i) ==
    /\ worker[w] = Vacant /\ (item[i] = Absent \/ item[i].facts = "given")
    /\ asked < MaxAsked /\ asked' = asked + 1
    /\ item' = [item EXCEPT ![i] = IF @ # Absent THEN @
                                   ELSE [Absent EXCEPT !.status = "DISCOVERED", !.facts = "given"]]
    /\ worker' = [worker EXCEPT ![w] = [Vacant EXCEPT !.kind = "editor", !.at = "mark", !.item = i]]
    /\ UNCHANGED <<posted, usage, made, crowded, miscounted, loose, keyless,
                   overlooked, died>>

\* NewsItemsService.rescue and reprocess: whatever the status (rescue has its own
\* list), facts are asked for (and room under the cap, unless it is forced).
Requested(w, i) ==
    /\ worker[w] = Vacant
    /\ asked < MaxAsked /\ asked' = asked + 1
    /\ item[i].facts # "none"
    /\ worker' = [worker EXCEPT ![w] = [Vacant EXCEPT !.kind = "editor", !.at = "mark", !.item = i]]
    /\ UNCHANGED <<item, posted, usage, made, crowded, miscounted,
                   loose, keyless, overlooked, died>>

\* NewsItemsService.remove
Removed(i) ==
    /\ Present(i)
    /\ asked < MaxAsked /\ asked' = asked + 1
    /\ item' = [item EXCEPT ![i] = Gone]
    /\ loose' = loose \cup {i}
    /\ UNCHANGED <<posted, usage, worker, made, crowded, miscounted, keyless,
                   overlooked, died>>

Marked(w) ==
    LET i == worker[w].item IN
    /\ worker[w].at = "mark"
    /\ IF ~Present(i) THEN Ends(w) /\ UNCHANGED item
       ELSE Becomes(i, "PROCESSING") /\ Goes(w, "bill")
    /\ loose' = loose \cup {i}
    /\ UNCHANGED <<posted, usage, made, asked, crowded, miscounted, keyless, overlooked, died>>

Regenerated(w) ==
    LET i == worker[w].item IN
    /\ worker[w].kind = "editor" /\ worker[w].at = "save"
    /\ Present(i)
    /\ Becomes(i, "PENDING_REVIEW")
    /\ Ends(w)
    /\ Shared(i, w)
    /\ UNCHANGED <<posted, usage, made, asked, crowded, miscounted, keyless, overlooked, died>>

\* promote and reject look at the status ...
Reviewed(w, i, verdict) ==
    /\ worker[w] = Vacant
    /\ asked < MaxAsked /\ asked' = asked + 1
    /\ item[i].status \in (IF verdict = "promote" THEN {"PENDING_REVIEW"}
                           ELSE {"PENDING_REVIEW", "FAILED", "FILTERED"})
    /\ worker' = [worker EXCEPT ![w] =
                   [Vacant EXCEPT !.kind = "review", !.item = i,
                                !.at = IF verdict = "promote" THEN "post" ELSE "reject"]]
    /\ UNCHANGED <<item, posted, usage, made, crowded, miscounted,
                   loose, keyless, overlooked, died>>

\* ... PostsService.createFromItem makes the one post of the item ...
Posted(w) ==
    LET i == worker[w].item IN
    /\ worker[w].at = "post"
    /\ IF i \in posted \/ ~Present(i) THEN Ends(w) /\ UNCHANGED posted
       ELSE Goes(w, "promote") /\ posted' = posted \cup {i}
    /\ UNCHANGED <<item, usage, made, asked, crowded, miscounted, loose, keyless,
                   overlooked, died>>

\* ... and the verdict is written, whatever the item has become.
Settled(w) ==
    LET i == worker[w].item IN
    /\ worker[w].at \in {"promote", "reject"}
    /\ IF ~Present(i) THEN UNCHANGED item
       ELSE Becomes(i, IF worker[w].at = "promote" THEN "PROMOTED" ELSE "REJECTED")
    /\ Ends(w)
    /\ Shared(i, w)
    /\ UNCHANGED <<posted, usage, made, asked, crowded, miscounted, keyless, overlooked, died>>

-----------------------------------------------------------------------------
(* What goes wrong. *)

Recorded(i) == [item EXCEPT ![i].status = "FAILED"]

\* The catch of processItem and of reprocess: any await of theirs throws, the
\* count of an article already saved included.
Fails(w) ==
    LET i == worker[w].item IN
    /\ Faults
    /\ worker[w].kind \in {"cron", "editor"} /\ i # "none" /\ Present(i)
    /\ worker[w].at \in Working
    /\ item' = Recorded(i)
    /\ Returns(w)
    /\ miscounted' = (miscounted \/ worker[w].at \in {"count", "counting"})
    /\ Shared(i, w)
    /\ UNCHANGED <<posted, usage, made, asked, crowded, keyless, overlooked, died>>

\* The process dies, or the failure cannot be recorded.
Dies(w) ==
    /\ Faults
    /\ worker[w] # Vacant
    /\ Ends(w)
    /\ miscounted' = TRUE /\ died' = TRUE
    /\ UNCHANGED <<item, posted, usage, made, asked, crowded, loose, keyless, overlooked>>

\* The item was removed meanwhile: its update throws, and so does that of the catch;
\* a run that looks for the item just claimed goes on without it.
Vanished(w) ==
    /\ worker[w].at \in {"extract", "generate", "save"} /\ ~Present(worker[w].item)
    /\ Returns(w) \/ Ends(w)
    /\ UNCHANGED <<item, posted, usage, made, asked, crowded, miscounted, loose, keyless,
                   overlooked, died>>

Works(w) ==
    \/ NextItem(w) \/ Claim(w) \/ Extracted(w) \/ Generated(w) \/ CountRead(w)
    \/ CountWritten(w) \/ SearchEnds(w) \/ Marked(w) \/ Regenerated(w)
    \/ Posted(w) \/ Settled(w) \/ Vanished(w)

NewsNext ==
    \/ \E i \in Items : Found(i) \/ Removed(i)
    \/ \E w \in Workers : Works(w) \/ Fails(w) \/ Dies(w)
    \/ \E w \in Runs : SearchStarts(w) \/ RunStarts(w)
    \/ \E w \in Desks, i \in Items :
         \/ Reported(w, i)
         \/ Requested(w, i)
         \/ \E verdict \in {"promote", "reject"} : Reviewed(w, i, verdict)

NewsSpec == NewsInit /\ [][NewsNext]_newsVars

-----------------------------------------------------------------------------
(* Properties. *)

\* The cap of the day holds: the cron never makes more articles than the cap,
\* but for the one that each further run overlapping it had already begun; what is
\* counted is what was made, and what the runs are about to count.
CapIsKept ==
    ~miscounted =>
        /\ made <= MaxPerDay + (IF crowded THEN Cardinality(Workers) - 1 ELSE 0)
        /\ made = usage + Cardinality({w \in Workers : worker[w].at \in {"count", "counting"}})

\* What an editor decided stands: the robot never takes a rejected or a promoted
\* item up again, whatever overlaps, unless an editor had it regenerated meanwhile.
VerdictStands ==
    [][\A i \in Items :
          /\ item[i].status \in {"REJECTED", "PROMOTED"} /\ item'[i] # item[i]
          => \/ i \in loose'
             \/ item'[i].status \in {"REJECTED", "PROMOTED"}]_newsVars

\* One story per event: unless two runs overlap or an editor asks for it, the robot
\* never writes an article about an event that already has one in review or
\* published; but for the articles it could not match: no key came out of their
\* extraction, or the story under their key was more than two days old, or unrelated
\* by the entities of its facts.
OneStoryPerEvent ==
    ~crowded =>
        \A i, j \in In({"PENDING_REVIEW", "PROMOTED"}) \ Aside :
            item[i].facts # "given" /\ item[j].facts # "given" /\ Event[i] = Event[j] => i = j

=============================================================================
