----------------------------- MODULE MatchFeed -----------------------------
(***************************************************************************)
(* The timeline, the line-up and the commentary of one match around its    *)
(* kickoff, as the robot copies them from ESPN's summary: ingest,          *)
(* persistEvents, persistStats and persistCommentary of                    *)
(* match-summary.service.ts, over the parsers of espn.service.ts.  What    *)
(* the same pass does to the status and the score is MatchControl's.       *)
(*                                                                         *)
(* The robot's guard lets one pass run at a time and a pass works on what  *)
(* it fetched, so what ESPN changes meanwhile is what the next one sees:   *)
(* the feed moves between passes.  A pass writes player by player and      *)
(* event by event, and stops wherever a write throws or the process dies.  *)
(* The same robot copies the other matches: what it keeps of their         *)
(* narration shares a table with that of this one.                         *)
(***************************************************************************)
EXTENDS Common, SequencesExt

CONSTANTS
    KeyKind,  \* the key events ESPN may list, by id: "goal", "var" or "card"
    Revisable, \* those it may put right in place: who scored, or when
    Plays,    \* what its narrator says, as a sequence of [id, kind, at]: a line
              \* that tells no play has no id
    Window,   \* how many of the last plays it serves
    Near,     \* how close a deletion and a decision tell one annulment
    Squad     \* the players that may be listed

KeyIds == DOMAIN KeyKind
\* The versions of an entry of the line-up: 0 and 1 differ in what the signature
\* holds (a start, a change, a card), 1 and 2 in the rest (the shirt, the position).
Versioned == {None, 0, 1, 2}
\* What is listed at a time: the key events, those in revised words, how many plays
\* are told, the versions.
Listing == [keys : SUBSET KeyIds, revised : SUBSET KeyIds, told : 0 .. Len(Plays),
            stats : {0, 1}, roster : [Squad -> Versioned]]
\* A pass: where it is, what it fetched, what it is to tell.
Stages == {"lineup", "events", "prose", "signal"}
Copying == [at : Stages, full : Listing, newLineup : BOOLEAN, appeared : BOOLEAN,
            newRows : BOOLEAN]

PlayKinds == {"deletion", "no_goal", "review", "foul_by", "free_kick", "shot", "narration"}

ASSUME MatchFeedAssumption ==
    /\ \A k \in KeyIds : KeyKind[k] \in {"goal", "var", "card"}
    /\ \A i \in DOMAIN Plays : Plays[i].kind \in PlayKinds /\ Plays[i].at \in Nat
    /\ \A i \in DOMAIN Plays : Plays[i].id = None <=> Plays[i].kind = "narration"
    /\ Window \in Nat /\ Near \in Nat /\ IsFiniteSet(Squad)
    /\ Plays \in Seq(ToSet(Plays))
    /\ None \notin Copying

VARIABLES
    feed,      \* ESPN's: the key events listed, how many plays are told, and the
               \* versions of the boxscore and of each listed player
    timeline,  \* the events kept: <<"key", id>> or <<"cmt", id>>
    revised,   \* the key events kept in revised words
    lineup,    \* the entry of each player, None without one
    boxscore,  \* the version of the statistics kept
    prose,     \* the row of each line of the commentary, None without one: the
               \* match it belongs to, and the one whose words it has
    copying,   \* the pass under way, None without one
    fresh,     \* the pages were signalled since the last write
    announced, \* the followers were told of the line-up
    silent,    \* rows were rewritten with no news to tell, since the last signal
    unsignalled, \* history: a pass was cut before it signalled what it wrote
    unannounced  \* history: the alert was lost with the pass, failed or was not due

matchFeedVars == <<feed, timeline, revised, lineup, boxscore, prose, copying, fresh,
                   announced, silent, unsignalled, unannounced>>

\* parseCommentaryFeed: what a line is kept under, unique among all matches
LineId(n) == IF Plays[n].id = None THEN <<"seq", n>> ELSE <<"cmt", Plays[n].id>>
LineIds == {LineId(n) : n \in DOMAIN Plays}

Listed(sheet) == {p \in Squad : sheet[p] # None}
NoSheet == [p \in Squad |-> None]

MatchFeedInit ==
    /\ feed = [keys |-> {}, revised |-> {}, told |-> 0, stats |-> 0, roster |-> NoSheet]
    /\ timeline = {} /\ revised = {} /\ lineup = NoSheet /\ boxscore = 0
    /\ prose = [l \in LineIds |-> None]
    /\ copying = None
    /\ fresh = TRUE
    /\ announced = FALSE
    /\ silent = FALSE /\ unsignalled = FALSE /\ unannounced = FALSE

-----------------------------------------------------------------------------
(* The feed. *)

WindowOf(full) == SubSeq(Plays, Max({1, full.told - Window + 1}), full.told)

\* A goal ruled out, or the notice of its review, is dropped from the list.
FeedMoves ==
    /\ copying = None
    /\ \/ \E k \in KeyIds : feed' = [feed EXCEPT !.keys = IF k \in @ THEN @ \ {k} ELSE @ \cup {k}]
       \/ \E k \in feed.keys \cap Revisable : feed' = [feed EXCEPT !.revised = @ \cup {k}]
       \/ feed.told < Len(Plays) /\ feed' = [feed EXCEPT !.told = @ + 1, !.stats = 1 - @]
       \/ \E p \in Squad, v \in Versioned :
            feed.roster[p] # v /\ feed' = [feed EXCEPT !.roster[p] = v]
    /\ UNCHANGED <<timeline, revised, lineup, boxscore, prose, copying, fresh, announced,
                   silent, unsignalled, unannounced>>

-----------------------------------------------------------------------------
(* Faulty variants, for testing the properties. *)

\* deletions are no news
OnlyNewRows(new, gone) == new # {}

\* events are only ever added
OutdatedNever(full, kept) == {}

-----------------------------------------------------------------------------
(* The parsers. *)

KeyRows(keys) == {<<"key", k>> : k \in keys}
PlayRows(plays) == {<<"cmt", p.id>> : p \in ToSet(plays)}

\* parseCommentaryVarEvents: a decision near a deletion of the same window tells
\* the same annulment
ParseVarEvents(told) ==
    LET Mirrors(p) == \E d \in ToSet(told) : /\ d.kind = "deletion"
                                             /\ d.at - p.at \in -Near .. Near
    IN SelectSeq(told, LAMBDA p : \/ p.kind \in {"deletion", "review"}
                                  \/ p.kind = "no_goal" /\ ~Mirrors(p))

\* parseCommentaryActionEvents: a free kick won at the moment of a foul is the
\* other half of it
ParseActionEvents(told) ==
    LET HasFoul(p) == \E f \in ToSet(told) : f.kind = "foul_by" /\ f.at = p.at
    IN SelectSeq(told, LAMBDA p : \/ p.kind \in {"foul_by", "shot"}
                                  \/ p.kind = "free_kick" /\ ~HasFoul(p))

\* fetchSummaryFull: the key events (parseMatchEvents), then the plays
ParsedPlays(full) == ParseVarEvents(WindowOf(full)) \o ParseActionEvents(WindowOf(full))
Parsed(full) == KeyRows(full.keys) \cup PlayRows(ParsedPlays(full))

\* what is written when the events stop somewhere on the way
PartlyParsed(full) ==
    {KeyRows(keys) : keys \in SUBSET full.keys}
      \cup {KeyRows(full.keys) \cup PlayRows(SubSeq(ParsedPlays(full), 1, n)) :
               n \in DOMAIN ParsedPlays(full)}

-----------------------------------------------------------------------------
(* A pass. *)

\* A fetch that fails copies nothing, so that pass is left out.  A served summary
\* may lack the key events for a moment.
Fetch ==
    /\ copying = None
    /\ \E keys \in {feed.keys, {}} :
         copying' = [at |-> "lineup", full |-> [feed EXCEPT !.keys = keys],
                  newLineup |-> FALSE, appeared |-> FALSE, newRows |-> FALSE]
    /\ UNCHANGED <<feed, timeline, revised, lineup, boxscore, prose, fresh, announced,
                   silent, unsignalled, unannounced>>

\* The pass throws, or dies with the process.
Cut(wrote, appeared) ==
    /\ Faults
    /\ fresh' = (fresh /\ ~wrote)
    /\ copying' = None
    /\ unsignalled' = (unsignalled \/ ~fresh')
    /\ unannounced' = (unannounced \/ appeared)

\* lineupJustAppeared
Appeared(before, listed) == before = {} /\ listed # {}

\* sig: what of an entry is compared, which the shirt, the position and the place in
\* the formation are not.
Signature(sheet) == [p \in Squad |-> IF sheet[p] = 2 THEN 1 ELSE sheet[p]]

\* The players, one upsert each.  An entry is never deleted, so that what is
\* written differs from what is kept once a player is taken off the sheet.
WriteLineup ==
    /\ copying # None /\ copying.at = "lineup"
    /\ LET sheet == copying.full.roster
           listed == Listed(sheet)
           After(done) == [p \in Squad |-> IF p \in done THEN sheet[p] ELSE lineup[p]]
       IN \/ /\ lineup' = After(listed)
             /\ fresh' = (fresh /\ lineup' = lineup)
             /\ copying' = [copying EXCEPT !.at = "events",
                                     !.newLineup = /\ listed # {}
                                                   /\ Signature(sheet) # Signature(lineup),
                                     !.appeared = Appeared(Listed(lineup), listed)]
             /\ silent' = (silent \/ (lineup' # lineup /\ Signature(lineup') = Signature(lineup)))
             /\ UNCHANGED <<unsignalled, unannounced>>
          \/ \E done \in SUBSET listed :
               /\ lineup' = After(done)
               /\ Cut(lineup' # lineup, Listed(lineup) = {} /\ done # {})
               /\ UNCHANGED silent
    /\ UNCHANGED <<feed, timeline, revised, boxscore, prose, announced>>

\* changed
News(new, gone) == new # {} \/ gone # {}

\* The key events kept that a list no longer has: an empty one says nothing.
Outdated(full, kept) ==
    {k \in kept : full.keys # {} /\ KeyKind[k] # "card" /\ k \notin full.keys}

KeptKeys(kept) == {k \in KeyIds : <<"key", k>> \in kept}

\* a retracted notice takes its twin in the commentary with it
Retracted(full, kept) ==
    LET stale == Outdated(full, KeptKeys(kept))
    IN KeyRows(stale) \cup {<<"cmt", k>> : k \in {s \in stale : KeyKind[s] = "var"}}

\* The words each row is left with once some have been upserted: those of the list.
Worded(full, rows) == (revised \ KeptKeys(rows)) \cup (full.revised \cap KeptKeys(rows))

\* persistEvents: a row that was there is updated, and that is no news.
WriteEvents ==
    /\ copying # None /\ copying.at = "events"
    /\ LET parsed == Parsed(copying.full)
           upserted == timeline \cup parsed
           gone == IF parsed = {} THEN {} ELSE upserted \cap Retracted(copying.full, upserted)
       IN \/ /\ timeline' = upserted \ gone
             /\ revised' = Worded(copying.full, parsed) \cap KeptKeys(timeline')
             /\ fresh' = (fresh /\ timeline' = timeline /\ revised' = revised)
             /\ silent' = (silent \/ (timeline' = timeline /\ revised' # revised))
             /\ copying' = [copying EXCEPT !.at = "prose", !.newRows = News(parsed \ timeline, gone)]
             /\ UNCHANGED <<unsignalled, unannounced>>
          \/ \E done \in PartlyParsed(copying.full) :
               /\ timeline' = timeline \cup done
               /\ revised' = Worded(copying.full, done)
               /\ Cut(timeline' # timeline \/ revised' # revised, copying.appeared)
               /\ UNCHANGED silent
    /\ UNCHANGED <<feed, lineup, boxscore, prose, announced>>

\* An upsert by the id alone: it says what the row reads, not whose it is.
Upserted(rows, ids, match) ==
    [l \in LineIds |-> IF l \notin ids THEN rows[l]
                      ELSE IF rows[l] = None THEN [of |-> match, reads |-> match]
                      ELSE [rows[l] EXCEPT !.reads = match]]

\* parseCommentaryFeed
ServedLines(full) == Max({1, full.told - Window + 1}) .. full.told

\* persistStats
KeptStats(full) == full.stats

\* persistStats, then persistCommentary: neither is news to the pages.
WriteProse ==
    /\ copying # None /\ copying.at = "prose"
    /\ LET lines == ServedLines(copying.full)
           Kept(n) == Upserted(prose, {LineId(k) : k \in {j \in lines : j < n}}, "this")
       IN \/ /\ boxscore' = KeptStats(copying.full)
             /\ prose' = Kept(Len(Plays) + 1)
             /\ copying' = [copying EXCEPT !.at = "signal"]
             /\ UNCHANGED <<fresh, unsignalled, unannounced>>
          \/ /\ boxscore' \in {boxscore, KeptStats(copying.full)}
             /\ \E n \in lines : prose' = IF boxscore' = KeptStats(copying.full) THEN Kept(n)
                                            ELSE prose
             /\ Cut(FALSE, copying.appeared)
    /\ UNCHANGED <<feed, timeline, revised, lineup, announced, silent>>

\* A pass over another match keeps a line of its own that tells no play: those are
\* numbered from the start of each match.
OtherMatchIsCopied ==
    /\ copying = None
    /\ \E n \in {k \in DOMAIN Plays : Plays[k].id = None} :
         prose' = Upserted(prose, {LineId(n)}, "other")
    /\ UNCHANGED <<feed, timeline, revised, lineup, boxscore, copying, fresh, announced,
                   silent, unsignalled, unannounced>>

\* notifyMatchFollowers, which is not waited for and may fail; three hours after the
\* kickoff (lineupFresh) it is not called
Alerted(appeared) == IF appeared THEN BOOLEAN ELSE {FALSE}

\* The pages refetch on a signal.
Signal ==
    /\ copying # None /\ copying.at = "signal"
    /\ LET told == copying.newLineup \/ copying.newRows
       IN /\ fresh' = (fresh \/ told)
          /\ silent' = (silent /\ ~told)
          /\ unsignalled' = (unsignalled /\ ~told)
    /\ \E sent \in Alerted(copying.appeared) :
         /\ announced' = (announced \/ sent)
         /\ unannounced' = (unannounced \/ (copying.appeared /\ ~sent))
    /\ copying' = None
    /\ UNCHANGED <<feed, timeline, revised, lineup, boxscore, prose>>

MatchFeedNext ==
    \/ FeedMoves \/ OtherMatchIsCopied
    \/ Fetch \/ WriteLineup \/ WriteEvents \/ WriteProse \/ Signal

MatchFeedSpec == MatchFeedInit /\ [][MatchFeedNext]_matchFeedVars

-----------------------------------------------------------------------------
(* Properties. *)

Revised == {k \in KeyIds : KeyKind[k] # "card"}

\* What is kept of a play says whose it is and reads as it was told.
KeptOfThis(n) == prose[LineId(n)] = [of |-> "this", reads |-> "this"]

AllWritten == copying # None /\ copying.at = "signal"

\* Once a pass has written everything the timeline holds all it read, and of the
\* goals and reviews on ESPN's own list exactly those it lists, in the words it
\* lists them, whatever earlier passes left half done; a list served empty erases
\* nothing.  The statistics and the commentary of the plays are those it read.
TimelineFollows ==
    AllWritten =>
       LET full == copying.full
           twins == {<<"cmt", k>> : k \in {s \in KeyIds : KeyKind[s] = "var"}}
       IN /\ Parsed(full) \ twins \subseteq timeline
          /\ full.keys # {} => KeptKeys(timeline) \cap Revised = full.keys \cap Revised
          /\ revised \cap full.keys = full.revised \cap full.keys
          /\ boxscore = full.stats
          /\ \A n \in ServedLines(full) : Plays[n].id # None => KeptOfThis(n)

\* The pages show the timeline and the line-up that are kept, and the followers
\* know of the line-up, unless a pass was cut between writing them and telling, or
\* the alert failed or came too late: the next pass finds them written and has
\* nothing to tell.  Nor does a pass tell what it only rewrote: an event put right in
\* place, a shirt or a position.
PagesFollow ==
    copying = None =>
       /\ ~unsignalled /\ ~silent => fresh
       /\ ~unannounced /\ Listed(lineup) # {} => announced

-----------------------------------------------------------------------------
(* A promise of the repository that the code does not keep. *)

\* parseCommentaryFeed: "Idempotent by cmt:<playId> (falls back to seq:<n> for
\* play-less lines) so repeated polls of ESPN's sliding window accumulate into one
\* complete, stable feed instead of overwriting it" (espn.service.ts:433-435): once a
\* pass has written everything, the match has every line it read.
NarrationAccumulates ==
    AllWritten => \A n \in ServedLines(copying.full) : KeptOfThis(n)
=============================================================================
