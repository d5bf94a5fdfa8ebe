# Bolão API: a verification development

TLA+ models of the decision logic of this repository's API (a NestJS application
over PostgreSQL, in `src/src/`, and the scripts that load its seasons, in
`src/prisma/`), the TLC configurations that check them on small instances, and
the theorems TLAPS proves of them for every value of the constants. Paths and
line numbers below are of the files under `src/`, without the leading `src/`
where no other file has the name.

The application runs a prediction game. Members of *pools* bet on matches; a
*robot* follows the matches on ESPN and writes their results; a *bracket* is
resolved from the results; the bets are priced and ranked, per season and per
*temporada* (a pool's window of time). Around the game there are notifications,
live signals to open pages, a chat, a newsroom that writes articles with a
language model, and what keeps it all running: a watchdog, a client that backs
off, backups, seeds.

Contents: 1 Inventory, 2 Modules, 3 Runs, 4 Fairness, 5 Disagreements, 6 What the
properties except, 7 Proofs, 8 What is left.

## 1. Inventory

`PROJECT.json` has the sources of each component and, under `hazards`, what is hard
to test in it, by line.

| Component | State it keeps | What changes it | Modelled by |
|---|---|---|---|
| Scoring rules | none | pure | `Scoring`, `ScoredMatch` |
| Live ingestion robot | the row of a match; a `running` flag | cron pass every 15 s: candidates, scoreboard, per match: read, summary, merge, update, bracket | partly: `MatchControl` |
| Live score reconciler | a pending drop per side, in memory | `reconcile` | `LiveScore` |
| ESPN client and odds | the pause and its streak; odds of the matches | `getJson`, `noteRateLimit`; the refresh of the odds | `EspnClient` |
| Timeline and line-ups | events, line-up, statistics, commentary rows | the rest of the robot's pass; the page served | partly: `MatchFeed`, `TimelinePage` |
| Match administration | the row | `update` | partly: `MatchControl`, `Bracket` |
| Season refresh | the row | daily pass that moves dates and postpones | `MatchControl` |
| Predictions | one bet per user and match | `upsert`, `adminUpsert` | `Predictions` |
| Pools: membership | pool, owner, roles, invite | eight operations | `PoolMembers` |
| Pools: temporadas | the runs of a pool | create, start, end | `PoolRuns` |
| Pools: views of the bets | none | read | `Predictions` |
| Rankings | none: tables over results and bets | read | partly: `Rankings` |
| Bracket | ties, their columns, the teams of the legs | `resolveSeason`; the projection reads | `Bracket` |
| Standings | none | pure | partly: `Standings` |
| Campaigns | the campaign; the runs sending it | create, update, dispatch, cancel, remove, `tick`, `process` | `Campaigns` |
| Campaign audience | none | read | partly: an arbitrary set |
| Notifications | rows, scheduled messages, pushes | reminder cron, scheduled cron, hourly nudge | partly: `Reminders`, `Deliveries` |
| Follows | followed teams and matches | follow, unfollow | `Reminders` |
| Realtime signals | coalescing set and timer, cursors of the poll | `emit`, flush, poll | `Realtime`, `Views` |
| Chat | messages; presence of the streams | post, list, stream, remove, leave | partly: `Chat` |
| Monitor and alerts | heartbeats, flags of an episode | heartbeat, watchdog, probe | `Monitor` |
| Content pipeline | items, usage of the day | discovery, claim, generation, review | partly: `Newsroom` |
| News and posts | posts in two versions, category tree | save, publish, archive, discard, remove; create, move, remove | partly: `Posts`, `Categories` |
| Accounts | accounts, roles, photo files | sign-up, linking, admin changes, avatar | partly: `Accounts` |
| Cup seeds, league seeds, World Cup seed | seasons, stages, groups, rounds, ties, matches | scripts run again and again | `CupSeed`, `LeagueSeed`, `SeasonFrame`, partly: `WorldCupSeed` |
| Backups | dumps in a bucket | nightly: dump, store, prune | `Backups` |
| Season structure, match pages, infrastructure | plain records; views; audit and connection | one write each, or reads | not modelled: section 8 |

**How they interact.** The robot, the admin and the season refresh share the row
of a match and nothing orders them: each reads it, awaits something and writes it.
The row's status, kickoff, teams and `predictionsOpen` open and close the bets,
and its status and kickoff decide when a pool or a ranking shows them. A result
makes the robot or the admin call `resolveSeason`, which fills later matches.
Rankings take the bets of the matches whose kickoff falls in a temporada and price
them. The robot's pass also writes the timeline, signals the pages and alerts the
followers. Writers signal through one bus, each the rooms it thinks of (the robot and
the admin both rooms of a match, the refresh the tournament's alone); another
instance's writes are found by polling `updatedAt`. The crons share nothing but the database, the pause of the
ESPN client and the heartbeats they leave for the watchdog.

**What is hard.** Every handler is *check; await; write*, with a transaction in two
places only (`transferOwnership`, the claim of a campaign); crons do not wait for
their previous run, except those with a `running` flag; feeds lag, disagree, revise
themselves and fail; a restart forgets the reconciler, the pending signals and
whatever a pass had left to do; scripts are run again over what earlier versions and
interrupted runs left.

## 2. Modules

```
Unset (None) ─► Common (Users, Faults, MaxInFlight)

LiveScore ─► MatchControl ─► Predictions          runs: blind, late_correction,
                                                        refresh_race, postponed
MCLive     = MatchControl, Realtime (─ INSTANCE ─► Views)          run: robot
MCDesk     = MatchControl, Posts, Categories, Accounts, Chat, SeasonFrame, CupSeed
MCGame     = Standings ─► Bracket ─► MCBracket, PoolMembers, PoolRuns,
             Scoring ─► ScoredMatch, Scoring ─► Rankings
MCJobs     = Reminders, Newsroom, Monitor, MatchFeed, TimelinePage, EspnClient,
             LeagueSeed, Backups
MCDelivery = Campaigns, Deliveries, WorldCupSeed

proofs: MatchProofs (MatchControl, Predictions), GameProofs (ScoredMatch, Bracket),
        PoolsProofs (PoolMembers, PoolRuns, Rankings),
        DeskProofs (Newsroom, Posts, Categories, Accounts, Chat),
        DeliveryProofs (Campaigns, Deliveries, Realtime ─► Views),
        JobsProofs (Backups, EspnClient, Reminders, Monitor, MatchFeed, TimelinePage),
        SeedProofs (LeagueSeed, CupSeed, SeasonFrame, WorldCupSeed);
        NumberProofs, what they share
```

Conventions. A handler is cut where the code awaits, and what it read stays in a
record of its own (`robot.snap`, `runner[r]`, a member of `requests`) until it
writes; a write by id goes over whatever the row is *by then*. A queue of writes
that a script does in order is a sequence whose head is the next write, so a throw
leaves a prefix. Answers of feeds, models and services are arbitrary. A variable
marked *history* is in no code: it records an overlap or a loss so that a property
can except it, and no guard reads it. Each module has a section of *faulty
variants*: definitions that change one of the model's the way a plausible bug would;
nothing of the model uses them, and they show that each property fails when the code
is wrong. Every bound is a constant named `Max…`, `Last…` or a set, and guards say
where it bites.

### The match and its bets

**LiveScore** is `LiveScoreReconciler.reconcile`: `Applies` its verdict,
`PendingAfter` its memory.

**MatchControl** is one match and its writers. The robot's pass is `RobotTick`
(candidate query and scoreboard), `RobotRead` (`findUnique`), `RobotMerge` (the
summary arrives; merge; update of the changed columns only), `RobotResolve`
(`resolveSeason`), and `RobotAborts` wherever a call throws. `AdminUpdate` is
`MatchesService.update` with the columns in `AdminEdits`, `AdminResolve` its tail.
`RefreshRead` and `RefreshWrite` are the two ends of the season refresh. `Restart`
forgets what is in memory. Of the bracket it keeps `resolved`, the result
`resolveSeason` last read.

**Predictions** adds the bets: `BetChecked`/`BetWritten` are the halves of `upsert`
(`AdminBetChecked` of `adminUpsert`), `BetLost` a write that fails, `OthersShown` a
member who opens one of the two views. A bet is what its author had been shown.

**Scoring** has `tierFor`, `score` and `byRound` as pure operators; **ScoredMatch**
drives them over every prediction, result and set of rounds.

**Rankings** computes the tables of a season, of a temporada and of a match, the rank
of each row (`Ranks`: who ties on everything shares it), the positions on a user's
slider and the lists of a user's bets as operators over bets, results and dates that
change (`Bet`, `AdminBet` which no kickoff locks, `ScoreMoves`, `StatusMoves`, `Redated`,
`RunMoves`, `Departs`); nothing of them is stored, as in the code. Every match has both
of its teams: without them no bet is taken and no list shows it
(`predictions.service.ts:113-120`, `:175-179`).

### The bracket

**Standings** gives the place of each team of a group: the keys of the preset, with
head-to-head among the teams level on points, in lexicographic order; `Discipline` is
the fair-play points a match's cards come to, as the ESPN client sums them.

**Bracket** is `resolveSeason` run by two actors: `PassStart` reads all ties and
legs, and for each tie in turn `ReadFeeders` awaits its feeders, `WriteTie` updates
the columns that differ from those read, `Mirror` gives the legs their teams. The two
feeders of a tie are read in one step (`:124-127`), and so are the legs written
(`:454-470`, which also renews their slugs): a run that dies between two legs leaves to the
next run what one that dies before `Mirror` leaves, or less of it. A pass
that wrote is followed by another, `MaxPasses` at most. `Finish`, `Correct` and
`RobotCorrects` write a result and say whether the code then resolves; `Crash` loses
the runs. `Projection` is the bracket the pages show before it is decided.

### Pools

**PoolMembers** has one step per read (`Begin` the actor's role, `CheckTarget` the
target's) and one action per operation that writes. **PoolRuns** does the same for
temporadas; `Covers` is the half-open window rankings use.

### What is sent

**Campaigns** is `process` with each await a step (`Claim`, `Load`,
`ResolveAudience`, `SendBatch`, `CountBatch`, `Finish`), by as many runs as overlap,
and the admin's requests split as `Checked` and `Written`. `Fail` is the `catch`;
`Lost` (the `catch` throws too, or the call is outside the `try`) and `Crash` leave
nobody to write it.

**Reminders** is the minute cron of the four match notifications: a run reads its
audience (`Reads`), writes the missing rows (`Commits`), pushes (`Pushes`), for each
type in turn, while the match is postponed, played and redated and people follow,
unfollow and bet. `watched` is the one type the invariants follow, any of the four.

**Deliveries** has the scheduled messages (`Deliver`, `Stamp`, with the `catch`
inside the loop) and the onboarding nudge (with the `catch` outside it).

**Realtime** is the bus (`Emit`, `TimerFires`), the writers here with the rooms each
emits (`RobotWrites`, `AdminWrites`; `WriterThrows` before it has emitted), those whose
stamp may be old when they commit (`WriteIsSent` stamps `updatedAt`, `RefreshCommits` and
`OtherCommits`, another instance's, land it later), the poll (`PollKickoffs`,
`PollUpdates`, `PollFails`) and a page of either room, which shows the status, the date
and whether bets are open (`Open`, of which an admin's `predictionsOpen` is part). **Views**
is what they promise whatever carries them: a page shows a state that was true when read, and
comes to show the present one unless it was not told. `SignalsKeepPromise` is that
`Realtime` implements `Views` under the mapping at the end of the module.

**Chat** is a room: posting, removing (write, audit, push: three steps), and tabs that
load the list (`LoadList`) and open their stream (`OpenStream`) in two requests, in
either order, and leave, with the headcount `setImmediate` puts off. The list is queried
and shown in one step.

### The newsroom

**Newsroom** is an item's life: discovery, claim, extraction, generation, the count
of the day (`count`, `counting`: a sum read, then written), and the editors' rescue,
reprocess, promote, reject and removal (`Removed`; a robot that held the item finds it
gone, `Vanished`). **Posts** has the version on air and the overlay that
waits; **Categories** the tree and the two totals shown of it.

### The robots' surroundings

**MatchFeed** is the rest of the robot's pass: `Fetch`, `WriteLineup` (player by
player; its `Signature` decides whether that is news), `WriteEvents` (new rows, rows
rewritten in place, the retraction of goals and reviews that ESPN dropped),
`WriteProse` (statistics, then commentary), `Signal` with the alert of the line-up.
The feed moves between passes (`FeedMoves`): a pass works on what it fetched. The
table of the commentary is every match's (`OtherMatchIsCopied`). **TimelinePage** is
the page served from such rows, stored in any order.

**EspnClient** is the pause of `getJson`, with callers in parallel, and the refresh
of the odds. **Monitor** counts in runs of the watchdog; a heartbeat is its age.
**Backups** is the nightly run, one step per await.

**Accounts** has sign-up (`Register`, `LoginWithGoogle`), linking, what admins change of each other, and
the photo: upload, point, delete (`AvatarStep`).

### The scripts

**SeasonFrame** is what the five season scripts write before the matches: period (that
of the matches; for the Série A the one ge announces), stages, groups, rounds, clubs. The
standings that make the groups of the Libertadores and the Sudamericana are fetched
once the season is written (`StandingsFetched`). **CupSeed** has the ties and matches of the cups,
**LeagueSeed** those of the leagues, **WorldCupSeed** the card and the structure
rebuilt from it. A script is a sequence of writes; it may throw at any of them and
is run again; meanwhile sources move, scripts are rewritten, the robot plays.

### Composition

`MatchControl` composes the four writers of a match with the reconciler;
`Predictions` composes them with the bets; `Bracket` composes the resolver with the
tables of `Standings`; `Rankings` composes prices, bets, results and temporadas;
`Realtime` composes the writers of two instances, the bus, the poll and a page;
`MatchFeed` composes the robot's copies of several matches. The five `MC…` modules are not compositions: the
components in them share no state, so a behaviour picks one at the start (`part`)
and the others stand still. That is the union of their state spaces, not the
product, and loses nothing. An `InPart` keeps the constants, bounds and properties of
each as they would be alone.

## 3. Runs

Six runs pass and six show a disagreement. All bounds are in the `.cfg` files; the
table says why they are enough.

| Run | Question | Bounds |
|---|---|---|
| `robot` | With arbitrary feeds, refused writes, aborts and restarts: is a goal only taken away after the confirmation time (`FallIsConfirmed`), and does a finished match get its bracket resolved (`FinishedIsResolved`)? | one side (sides never meet); goals 0..2, so that a drop can change its value; confirmation 2 ticks of 4; kickoffs before and after it |
| `robot`, signals | Do the signals implement `Views` (`SignalsKeepPromise`)? | one robot, one admin, the refresh and another instance on one match: two writes (one may undo the other's), two statuses, three instants around one kickoff, one mishap, both rooms; the theorems have any statuses, kickoffs, writes and mishaps |
| `desk`, match | All four writers at once: does the robot never lower a status (`RobotOneWay`), overrule an admin's takeover once at most (`OverruledAtMostOnce`)? | no goals, one shootout tally so that a finished match is still written; the admin edits `autoManaged` only, the other edits being the admin's to make; the robot comes at the kickoff, as what it sees before it is the `robot` run's |
| `desk`, posts and categories | Is what is on air what was last published, and no edit lost (`VersionsStand`)? Is the tree three deep at most, its two totals equal (`ForestStands`)? | two requests in flight, two saves, a category or none; four nodes, one more than the depth |
| `desk`, accounts | Is an admin always left (`SomebodyAdministers`), and every photo in the store (`PhotosStand`)? | two users, two requests, two uploads |
| `desk`, chat | Does every tab come to show the room (`RoomIsFollowed`)? | three tabs: two of one person, one not logged in; one message posted and removed, two requests: what a tab misses of it is missed alone |
| `desk`, frame | Do scripts run again end with rounds, groups and period of the last sources (`FrameIsCurrent`)? | a script rewritten once, one change of the sources (a club moved, a match day, ge's period), five scripts |
| `desk`, cups | After a completed run, is every event a match and every pair a tie (`SeedMirrorsList`), and finished matches finished (`ResultsStand`)? | a two-legged tie, a single match and a final not yet listed, two dates, two moves; every kind of end, of which the scripts know some |
| `blind` | Does nobody bet having been shown a bet (`NobodyBetsInformed`)? | two members; upserts split at their await; the admin opens and closes by hand |
| `game`, bracket | At rest, are winners and aggregates those of the legs (`WinnersStand`), slots those of their feeders (`SlotsFollow`), legs those of their ties (`LegsMatchTie`, a part of it)? Does the projection never contradict the draw (`ProjectionMeetsDraw`)? | two groups of two, a two-legged semifinal (aggregate, shootout), a final, a third-place match ordered before the tie it waits for: every kind of feeder, and one pass is not enough; a group won on points or on fair play; four passes where the code makes eight (the chains here are two deep); one changed result; crashes |
| `game`, members and temporadas | One owner (`OneOwner`); disjoint windows (`WindowsDisjoint`) | three users (owner, successor, third); three temporadas; two requests; a clock 0..2 where one can close and the next open in one instant |
| `game`, scoring and rankings | Is the best fact paid (`PaysBestFact`)? Are a closed temporada's points settled by its matches (`ClosedPointsStand`)? Do all pages come to the same points, and is the position they show the number of people ahead and one (`PagesAgree`)? | every line up to 3-3, two seasons of three rounds in every split; two bettors, one match in the window and one after it, of which one is a knockout; one bet of an admin's; every tie and order of two rows |
| `jobs`, reminders | Is nobody missed (`NobodyIsMissed`), or pushed twice (`PushedOnce`)? | one fan, any of the four types, two overlapping runs; an hour of two minutes and a day of four, so that both windows open, close and meet; one new date |
| `jobs`, news | Does the cap hold (`CapIsKept`), a verdict stand (`VerdictStands`), an event have one story (`OneStoryPerEvent`)? | two items about one event, a cap of one, two workers of which one is also an editor, one request for a generation |
| `jobs`, monitor | Is an alarm true, and raised (`AlarmsAreTrue`)? | two robots, silence up to one run past the threshold and two more |
| `jobs`, feed and page | Does the timeline come to hold what is listed (`TimelineFollows`), the pages and the followers know (`PagesFollow`)? Does the page tell each event once, in order (`PageTellsTheMatch`)? | a goal and its review; an annulment told twice of which the window drops one; the goal put right in place; a line without a play; one player, in versions that the signature tells and one it does not; another match with the same lines. Six events of a page in every order |
| `jobs`, ESPN | Is a pause in force kept (`PauseStands`)? | a robot and two overlapping refreshes of two leagues; every kind of Retry-After (none, zero, shorter, longer) |
| `jobs`, leagues | Is each row still about its game (`RowsKeepTheirGame`)? | two rounds of four clubs, one change of the calendar |
| `jobs`, backup | Are the newest dumps always there (`LastDumpsStand`)? | five nights, retention of two |
| `delivery`, campaigns | One copy per scheduling (`OncePerArming`); SENT means everybody, with one text (`SentMeansAll`); what is scheduled is settled (`ScheduledIsSettled`) | three users in batches of two (a full and a partial batch), two overlapping runs, one admin request at a time, two schedulings, two texts, crashes |
| `delivery`, deliveries | Nothing twice (`AtMostOneCopy`), and what is due is sent (`DueIsSent`) | two messages, so that one fails while the other is due; two overlapping runs, two failures, a newcomer over two hours |
| `delivery`, World Cup | Does a rebuild recover what an interrupted one left (`RebuildRecovers`)? | a group of four and a knockout of three with every kind of label; two seeds |
| six more | section 5 | the smallest that show them, or those of the passing run |

Notes on the runs. `CHECK_DEADLOCK FALSE` stands where the modelled life ends: a
clock at its bound, a match past the robot's window, a deleted campaign. `desk` is
symmetric in its users and `jobs` in the runs of the reminders; neither checks
liveness, and no formula or initial state names one of them. Two admin requests on a
campaign that overlap each other are beyond the run's size (`MaxInFlight = 1`; one of
them still overlaps the runners): the theorems `CopiesAreBounded` and
`SentReachesAll` cover any number.

## 4. Fairness

Only what the code schedules is fair, always weakly; no property assumes that an
admin, an editor or a member does anything, that a fault does not happen, or that a
feed moves.

* `FairLive` (`robot`), each in its own part. The robot: the cron fires while the match is a candidate (every
  15 s), and each await of a started pass returns (fetches have timeouts).
  `FinishedIsResolved` says `\/ lost`: a crash or a throw between the write of
  FINISHED and `resolveSeason` does lose the bracket until another result changes
  (`match-summary.service.ts:570`). The signals: `TimerFires` (the interval of the bus),
  `Emit` (a writer comes to its emit), the poll's two steps, a told page refetches, a
  browser's `EventSource` reconnects.
* `FairDelivery` (`delivery`), each in its own part. Campaigns: `TimePasses`,
  `CronTick` (the minute cron), `RunnerStep(r)` (an await of a run returns). A run
  that dies after the claim leaves the campaign SENDING, which no cron takes up
  again: `ScheduledIsSettled` says `\/ died`. Deliveries: `MailerStarts` (the minute
  cron), `Deliver(r) \/ Stamp(r)`. A failed delivery is taken up by a later run, so
  `DueIsSent` has no exception, with failures bounded.
* Every other specification is without fairness and every other property is safety.
  "Comes to" is stated there as what holds once nothing is under way
  (`RoomIsFollowed`, `WinnersStand`, `TimelineFollows`) or within a number of whole
  periods (`NobodyIsMissed`: two minutes; `AlarmsAreTrue`: two runs), both stronger
  than eventually.

## 5. Disagreements between the code and what is said of it

Shown by a run each:

* **A late correction is not resolved** (`late_correction`). The robot calls
  `resolveSeason` on the flip to FINISHED or when a shootout tally lands, not when it
  corrects the score of a finished match; `slot-resolver.service.ts:83` says "Called
  after a result changes (admin or robot)".
* **The refresh writes over a match that went live** (`refresh_race`). It tests
  statuses read before it fetched every round; `season-refresh.service.ts:14` says
  "Never touches FINISHED/LIVE/CANCELLED matches".
* **A postponed match shows its bets and still takes them** (`postponed`).
  `pools.service.ts:622` reveals any status but SCHEDULED and
  `predictions.service.ts:265` accepts POSTPONED; `pools.service.ts:599` promises that
  "nobody peeks at others' guesses before the match starts".
* **A campaign is sent twice** (`double_send`). `dispatchCampaign` writes SCHEDULED
  unconditionally after its check, over a SENDING or SENT campaign too;
  `campaign-dispatch.service.ts:14` says the two "never double-send".
* **A closed temporada changes its champion** (`champion`). The last key of the order
  counts the predictions of the whole season, so a bet on a later match breaks a tie;
  `pools.service.ts:530` says "champion is final".
* **A line of the narration belongs to whichever match wrote it first**
  (`narration`). Lines without a play are `seq:<n>` in every match and rows are found
  by that id alone; `espn.service.ts:433-435` says they "accumulate into one
  complete, stable feed instead of overwriting it".

Met while reading, without a run of their own:

* `reminder.service.ts:25` says that "the minutely run never double-sends". Two
  overlapping ticks write one row and both push; the model has it (`PushedOnce`
  excepts `overlapped`).
* No status table of the cup scripts knows `FINAL_AET`, and those of the Libertadores and
  the Sudamericana not `FINAL_PEN` either, so a run reopens a match that ended in extra
  time or on penalties (`?? 'SCHEDULED'`, `seed-libertadores.ts:409`) after the robot
  finished it; the header (`seed-libertadores.ts:5-6`) says "Idempotent". The model has it
  (`ResultsStand` excepts those ends).
* `events.service.ts:153-154` says that a dropped chat event "self-heals from the DB"
  upon a payload-less one. No code of this server sends a payload-less event to the room of
  a chat: whether a tab that loaded its list before its stream was open asks again is
  the client's doing. The model has it (`RoomIsFollowed` excepts `unheard`).
* `match-window.service.ts:90` says that every write of another instance is re-emitted so
  that this one's clients refetch; the pages of the tournament are not told of a new date or of
  bets closed by hand, which the signature (`:113-123`) does not hold. The model has it
  (`SignalsKeepPromise` excepts `missed`).
* `seed-serie-b.ts:13` says "exactly 38 rounds of 10" of a derivation from dates that
  a postponed match unsettles.
* When the window of the commentary lets go of a deletion but not of its `no goal`,
  the annulment is stored a second time under another id. The model has it;
  `TimelineFollows` asks that nothing be missing, not that nothing be told twice
  there.
* `espn.service.ts:743` says "skip ALL calls until this instant"; the answer to a call
  sent before lifts the pause. The model has it (`PauseStands` excepts `crossing`).
* The live clock may go back through the interval, despite
  `match-summary.service.ts:199-201`: the clock is not modelled.
* The comment above `resolveSeason` (`slot-resolver.service.ts:84-85`) says the table
  of thirds "isn't auto-applied here"; the code applies it (`:198`), and so does the
  model.
* `predictionsOpen = true` forces nothing open after the kickoff
  (`predictions.service.ts:259-271`), although `schema.prisma:764-766` calls it a
  manual override; no property takes either side.

## 6. What the properties except, and what they do not claim

An exception is a loss or an overlap that the code allows, recorded in a history.
Without it TLC finds the violation, and the repository promises nothing there (where
it does, it is in section 5).

* `OverruledAtMostOnce` is 1, not 0: the pass in flight at a takeover still lands.
* `FinishedIsResolved`: `lost`. `ScheduledIsSettled`: `died`.
* `NobodyBetsInformed` says that nobody had been shown a bet when their own was
  *checked*; a bet checked before the kickoff may be written after it.
* `OneOwner`: `clashed`, a transfer of ownership that overlaps another change of
  roles (two owners, or an owner who left). `WindowsDisjoint`: `raced`, two creations
  or two requests on one temporada that overlap (two open ones; a closed one stamped
  again).
* `WinnersStand` and the legs in `SlotsFollow`: `overtaken`, a result written during a
  `resolveSeason` after a result was replaced: the run with the old reading may write
  last. The slots in `SlotsFollow` are those of brackets in which no result changed, because a slot
  once filled is never recomputed (`slot-resolver.service.ts:125`). At rest means also
  that a `resolveSeason` has seen every result (`dirty`). `ProjectionMeetsDraw` leaves
  out a slot that waits for a tie ordered after its own.
* `SentMeansAll` speaks of campaigns scheduled once, because of `double_send`.
* `AtMostOneCopy`: `parallel` runs of the minute cron, and messages `unstamped`
  because the stamp failed or the process died after the delivery. The nudge has no
  exception: its runs never overlap, an hour being long enough for one; a run that hung
  for an hour is not modelled.
* `PushedOnce`: `overlapped` runs. `NobodyIsMissed`: rows that were written and not
  pushed because the process died in between (`crashed`).
* `SignalsKeepPromise`: `missed` - a kickoff in the interval of a poll that failed; a
  write of another instance that commits with a stamp not later than one already
  seen, and for the pages of the match one of the refresh, which emits the tournament's
  room alone (`season-refresh.service.ts:122`); for the pages of the tournament a change
  by another instance that the signature does not tell: a new date, bets an admin closes
  or opens (`match-window.service.ts:113-123`), or a field that changes and comes back
  between two polls; a writer that throws before its emit, where the poll cannot
  make up for it for the same reasons. A restart needs no exception: every stream ends
  with it.
* `ClosedPointsStand`: an admin's bet (`predictions.service.ts:93-162`), which no kickoff
  locks, moves the points of whom it is placed for, when it is on a match played inside
  the window (`Decreed`). Nobody else's points move with it.
* `RoomIsFollowed`: `astray`, a message removed before it was pushed, and one whose
  removal could not be audited and so was never pushed; `unheard`, by tab, what was
  pushed between its list and its stream, until it loads the list again: a stream that
  opens sends nothing of what was pushed before (`events.controller.ts:56-58`).
* `CapIsKept`: `crowded` cron runs each add what they had begun; `miscounted`, two
  sums read and written at once, or one never written. `OneStoryPerEvent`: `crowded`,
  and `loose` items, which an editor had generated or removed or two workers wrote at
  once; the articles that could not be matched with their event's story - `keyless`, no
  key came out of the extraction (`content-process.service.ts:204`, `:258`), and
  `overlooked`, the story under their key is more than two days old (`:210`) or shares no
  entity with them (`:218-226`); items that bring their facts (generative feeds, match
  reports) do not count. `VerdictStands`: `loose`.
* `AlarmsAreTrue` speaks of robots that have registered: one that never beat is never
  watched.
* `TimelineFollows` speaks of goals and reviews in the list of key events and of lines
  with a play; ESPN's other retractions are not followed by the code. `PagesFollow`:
  `unsignalled` and `unannounced`, a pass cut between writing and telling: the next
  finds it written and has nothing to tell; `unannounced` also when the alert fails or the
  kickoff is three hours past (`match-summary.service.ts:607`); `silent`, rows rewritten
  with no news - an event put right in place (`:711-716`), a shirt, a position or a place
  in the formation (`:330-337`) - until the next signal.
* `PauseStands`: a call that was under way when the pause was armed. A write of odds
  that throws is passed over and comes again with the next refresh.
* `ResultsStand`: matches the robot finished after the run read the list (`late`),
  `FINAL_AET`, and `FINAL_PEN` in the Libertadores and the Sudamericana (section 5). `RowsKeepTheirGame`: `reordered` (ge listed a round in
  another order) and `linkedNow` (a reference the robot stored while a run held the one
  it would write). `FrameIsCurrent`: `shifted`, a club ESPN moved stays in its old
  group too. `RebuildRecovers` speaks of runs that completed.
* `VersionsStand`: `collided`, `ForestStands`: `tangled`, `SomebodyAdministers`:
  `crossed` - two requests on the same post, a move with another move or a creation,
  two admins at once.
* `LastDumpsStand` assumes a retention of a day at least (the default is seven,
  `backup.service.ts:31`; nothing enforces it). A dump may take any number of nights; the
  model takes it that what follows the dump goes on within a day.

## 7. Proofs

Eight modules; every theorem holds for all values of the constants under the named
assumptions of the modules (`MatchControlAssumption`, ...), which TLC evaluates in the
runs.

| Theorem | Beyond the constants' assumptions | The inductive invariant, and why it is needed |
|---|---|---|
| `Typed` | none | one step per action; `MergeShape` for the merge |
| `OverruledOnceHolds` (`OverruledAtMostOnce`) | none | `OverruledOnce`: while the count is 1 the match is the admin's and a pass that holds the row read it as the admin's; the count alone does not know what a pass has read |
| `OneWayHolds` (`RobotOneWay`) | the admin is not among `Actors` | `NeverAhead`: the row never outranks what the pass in flight read, so an advance over the snapshot is one over the row |
| `RevealedStaysClosedHolds`, `FallIsConfirmedHolds` (`FallIsConfirmed`) | `RobotAlone` | `RobotOwnsRow` = `SnapIsRow` (nobody wrote since the read), `StillRevealed`, `Remembers` (a pending drop is what was seen last, and only that since it was noted); `NoRefresh` |
| `BetsImplementMatch` | none | refinement: every step of `Predictions` is one of `MatchControl` or a stutter |
| `BlindHolds` (`NobodyBetsInformed`) | `RobotAlone` | `BlindInv`, with `RevealedStaysClosed` carried over by the refinement |
| `SymmetryHolds` | none | cases of `TierFor`, over all of Nat |
| `ExactAlwaysPaysMost`, `BestFactIsPaid` (`PaysBestFact`) | `PricesFall`: the prices fall with the tier | the tier is the first fact that holds; weights are positive |
| `WeightsHold` | none | cardinality of sets of rounds |
| `WinnersAlwaysStand` (`WinnersStand`) | none | `BracketInv`: unless a correction overtook a run, `Orderly`: what a run has read of a tie still stands where it was not null (`ReadsStand`, `PicksStand`, on `LegsPaired` and `SeedsStay`), a fresh run has read every result (`FreshReads`), an outcome written is that of the tie's legs until a result is changed (`Steady`), from then on one run at a time acts (`Alone`), and every tie that a fresh run has passed, or any once nothing is dirty, is settled (`AllSettled`) |
| `SlotsAlwaysFollow` (`SlotsFollow`) | `MaxPasses > 1` (it is 8), `PlayedGroups`: every group has matches | `ReachInv`, on `BracketInv`: a leg that lacks a team its tie has is one a run is about to fill, or one every fresh run has still to take (`LegsReach`); while no result was changed, a slot whose feeder gives a team is filled, or a run will fill it - in this pass, or in the next, as it has an outcome to write (`WillFill`, `SlotsReach`) |
| `ProjectionAlwaysMeetsDraw` (`ProjectionMeetsDraw`) | `PlayedGroups` | none is needed, it holds in every state: what is projected of a tie stays (`ShownStays`), and a feeder that gives a team gives it to the projection too (`SourceMeetsFeeder`) |
| `OneOwnerHolds` (`OneOwner`), `OwnerIsKept` | none | `OwnerInv`: `RequestsSound` says that what a request in flight has checked still holds, unless a transfer crossed it; without it a checked removal could be the owner's by then |
| `OneOpenRunHolds`, `WindowsAreDisjoint` (`WindowsDisjoint`), `ClosedStaysFrozen` | none | `RunsInv` with `WindowsInv`: open runs are one, any two windows are `Apart`, stamps are past (`StampsPast`), and a request may still do what its check allowed (`StillAllowed`) |
| `SomebodyAlwaysAdministers` (`SomebodyAdministers`) | none | `AdminInv`: with one request at a time, somebody other than its target still administers when it writes |
| `PhotosAlwaysStand` (`PhotosStand`) | none | `PhotosInv`: no two profiles point at one file (`OwnPhotos`), what a request is about to delete no profile points at (`OldIsReleased`), and what it uploaded is its own (`NewIsFresh`) |
| `CopiesAreBounded` (`OncePerArming`) | none | `CopiesInv`: a user's copies, plus the runs that still owe one, plus one while the campaign waits to be claimed, never exceed the schedulings; any number of runners, which needs counting lemmas over finite sets |
| `SentReachesAll` (`SentMeansAll`) | none | `SentInv`: of a campaign scheduled once, one run at most is past its claim (`OneRun`) and whom it has left, with whom it has reached, is the audience it resolved to (`SendsRest`) |
| `ClosedPointsAlwaysStand` (`ClosedPointsStand`) | none | `RankingsInv`: the window of a closed temporada is set and its members take part; a member's bet is only taken on a match without a result, so what is paid inside is a function of the matches played there and of the bets on them, which an admin's bet changes for one member and one match |
| `PagesAlwaysAgree` (`PagesAgree`) | none | `PagesInv`: bets are on matches of the season. The rest is about any table: that a sort by the four counts and the name is a strict order (`TableOrdered`, `InOrderIs`), that a rank is the place of the first row of its tie (`PlaceOrTie`, `RanksCount`), and that points add up alike in any order, with or without rows that pay nothing (`AnyAddsLast`, `NothingAdds`) |
| `RoomIsAlwaysFollowed` (`RoomIsFollowed`) | none | `ChatInv`: every tab that has loaded the list shows each message, has on its way what will show it, or had it pushed when its stream was not open (`ToldOf`), and the headcount of an open stream is current or deferred |
| `NothingIsSentTwice` (`AtMostOneCopy`) | none | `DeliveriesInv`: a message's copies are told by its stamp and by the run that has it in hand (`Accounted`) |
| `NoChangeIsForgotten`, `SignalsImplementViews` | none | `RealtimeInv`: a change no page was told of is about to be emitted by its writer, is pending in a bus whose timer runs, or will be found by the poll (`PollWillFind`: a stamp later than any the poll has seen, of a change that differs from the signature, that a match page would see, or that nobody here emitted, `unheard`; `PollWillClose`: a kickoff its tick has not passed); the second maps every step to one of `Views` or a stutter |
| `VerdictsAlwaysStand` (`VerdictStands`) | none | `HandsInv`: an item is in one worker's hands (`OneHand`), and what a worker took it for still holds (`Knows`) |
| `StoriesAreNew` (`OneStoryPerEvent`) | none | `StoryInv`: a story under way was checked against the ones told, or its item is one that could not be matched |
| `CapIsAlwaysKept` (`CapIsKept`) | none | `CapInv`: posts generated are those counted and those of workers who have yet to count |
| `VersionsAlwaysStand` (`VersionsStand`) | none | `PostsInv`: what a request read of its post still holds (`ReadsStand`), unless two collided |
| `ForestAlwaysStands` (`ForestStands`) | none | `ForestInv`: while no move overlapped another write there are depths within the bound (`Ranked`), and what the checks of a pending write saw still holds if it can be written (`Held`): a parent shallow enough, or a subtree that fits under it (`Fitting`); a removal lifts a whole subtree, so both survive it. That the walks of the code measure those depths and subtrees is `DepthIs`, `DescendantsAre`, `DescendantClimbs`, `ClimbDescends` |
| `LastDumpsAreKept` (`LastDumpsStand`) | none | `BackupsInv`: `PruneFollowsPut` - a run comes to prune only with its dump stored, that night or the next |
| `PauseIsKept` (`PauseStands`) | none | `ClientInv`: while a pause is in force, every call under way was sent before it was armed |
| `PushedOnceAtMost` (`PushedOnce`) | none | `OnceInv`: without overlap (`AloneInv`) one run is under way; whom it is to commit has no row, whom it is to push has the row and no push yet |
| `NobodyIsEverMissed` (`NobodyIsMissed`) | none | `MissedInv`: who is entitled and has no row is `Owed` one: a run that is still to look for them, or to write their row, is under way; rows are pushed or held by a run (`RowsAreSent`) |
| `AlarmsAreAlwaysTrue` (`AlarmsAreTrue`) | none | `MonitorInv`: while the database answers, the age of a heartbeat is the silence or the time it has answered, the shorter, and it is marked stuck by the run that finds it stale (`AgeStands`) |
| `TimelineAlwaysFollows` (`TimelineFollows`) | none | `FollowsInv`: rows of the commentary that name this match are its plays (`PlaysAreOurs`), and the copy of the list is done up to where it stands (`CopiedSoFar`) |
| `PagesAlwaysFollow` (`PagesFollow`) | none | `ToldInv`: what was written and not told is in the hands of the pass, or is no news (`PagesAreTold`, `FollowersAreTold`) |
| `RowsAlwaysKeepTheirGame` (`RowsKeepTheirGame`) | none | `LeagueInv`: rows are those listed, a run's writes hold the references of its rows (`ReferencesAreHeld`), events are games |
| `FrameIsAlwaysCurrent` (`FrameIsCurrent`) | none | `FrameInv`: what a run is to write is in the rows or in what it has left, or is still to be read of ESPN's standings, a group before its clubs (`WorkStands`); a club of a group is shown there or was moved since (`ClubsBelong`) |
| `SeedAlwaysMirrors` (`SeedMirrorsList`), `ResultsAlwaysStand` (`ResultsStand`) | none | `CupInv`: what a run is to write is written or left (`RestIsWritten`), and a later write undoes none of it, as first legs have ties of their own (`FirstLegsDiffer`); the numbers are apart (`NumbersApart`), a new one being above the largest (`MaxIs`); a finished match is over in ESPN's list, for good (`FinishedIsOver`). That the list in order of days makes a tie of each pair with its legs in order is `TiesArePairs`, `LegsAreInOrder`, `OrderIsListed` |
| `RebuildAlwaysRecovers` (`RebuildRecovers`) | none | `WcInv`: the groups show the card's clubs (`GroupTeamsStand`), a link is to a match's own tie (`LinksSound`), a source is null or what the label says (`SourcesSound`). `TeamsStay`: whatever team a knockout match or its tie shows is the first it ever showed, and the results still give it, although the seed erases it: the match may be played and erased, and only this says that the same team comes back. `Phase`: the writes a run has done stand, one by one, and those left are the rest of what it makes of the rows it read, whatever happened to those since (`Underway`, `StillThere`). What the scripts list is `GroupStageListed`, `KnockoutListed`, `FiveParts`, `WritesAre`, what each write leaves standing `GroupProceeds`, `TieProceeds`, `SecondProceeds`; that two of a group share a matchday is `TwoShareMatchday` |
| `PageAlwaysTells` (`PageTellsTheMatch`) | none | `PageInv`: a page is that of the events stored, each once. The rest is about any events: the sort by the four keys, stable, is a strict order of them all (`KeysOrder`, `OrderedIs`), and each event read keeps the section true of those before it (`AppendTells`, `JoinTells`, `SectionTells`) |

`RobotAlone` (only the robot and faults act, the match starts SCHEDULED) is no
decoration: with the refresh acting, `refresh_race` puts a live match back and
`postponed` shows bets of an open match. `PricesFall` is a setting of the deployment
(the defaults satisfy it); nothing in the code enforces it.

Two refinements: `Predictions` implements `MatchControl` (proved), and `Realtime`
implements `Views` (its safety proved; that a page comes to be refreshed, which is
liveness, model-checked).

Only model-checked: liveness and fairness (`FinishedIsResolved`, `ScheduledIsSettled`,
`DueIsSent`, the fairness of `SignalsKeepPromise`), out of this prover's reach with
ENABLED. Every invariant that a passing run checks is stated by a theorem.

`RebuildAlwaysRecovers` rests on what `WorldCupAssumption` says of the card in
`prisma/data/wc2026-matches.ts`: the matches of a group are between its clubs and come
in pairs, at most six; a label names a group, a set of groups or a knockout match; and a
best third faces the winner of a group. A card with a third facing another third would
leave both slots empty (`seed-wc-structure.ts:216-227`), and one with seven matches in a
group the last of them without a matchday (`:124-147`). The results are a table per
group, fixed beforehand: the results of a group do not change once they are in.

`WinnersAlwaysStand` holds for any bracket that the seeds could have made
(`BracketAssumption`: a tie and its legs are created with the same teams, a match is
the leg of one tie). That the goals of both teams add up to numbers (`SumOf`, a fold) is
proved without induction on the fold itself, by a least counterexample over the number
of legs (`LeastNat`); in the same way that the projection exists and keeps what it shows,
what a flattened list of writes holds (`FlatIsListed`), and what the walks up and down the
tree of categories reach (`RepeatsExist`). "Unless a correction overtook a run" is no decoration either: a run
that read the legs before the correction may be the last to write
(`slot-resolver.service.ts:146`).

`SlotsAlwaysFollow` needs two passes, whatever the order of the ties: a slot that the
first pass leaves empty waits for an outcome the same pass writes, or for none, since
only ties whose teams were known have been played (`NoNewWinner`, `UntoldIsOwed`). With
one pass the run that writes the outcome may have passed the tie that waits for it: the
mutant `NeverAgain`. A group without matches counts as over
(`slot-resolver.service.ts:183-188`) before anything triggers a `resolveSeason`, hence
`PlayedGroups`.

No module declares a RECURSIVE operator. Some theorems state properties no run lists
(`RevealedStaysClosed`, `OneOpenRun`, `ClosedIsFrozen`, `OwnerIsNeverRemoved`,
`SidesAreSymmetric`, `OnlyExactPaysMost`, `WeightsArePerSeason`, `SignalUnderWay`, the
types): the theorem is the stronger statement.

## 8. What is left

Worth doing next, in this order:

1. Proofs: `BlindHolds` with an admin who only opens and closes.
2. The order of `Standings` against a reference that sorts as the code does, for every
   preset over the results of a group of four.
3. The grouping of the slider by season in `Rankings`; subscriptions that expire in
   `Reminders`.

Not modelled, and why:

* The loop of `live-ingest.service.ts` is retired in favour of `match-summary`; its
  status tables are used and modelled. The live clock, attendance and
  referee are written from the feed and read by no decision modelled here.
* The audience filter's tree is a translation into a database query: an audience is an
  arbitrary set. Prompts, fact packs and what a language model answers are arbitrary
  outcomes.
* Dashboards, previews, statistics, agendas and match pages are views; controllers,
  guards on a single request and DTOs only refuse; the gates, rate limit and paging of
  the chat likewise.
* Season, competition and stadium records are written one row at a time by an admin,
  and no decision spans two steps: a model would restate the assignment.
* Audit trail, its retention, the database connection, e-mail, push and storage
  clients: pure input and output. Where their failures matter they are steps that may
  fail (`Faults`).
* Of the bracket: the legs under way, which the projection counts as it does those
  played (`slot-resolver.service.ts:376`: a provisional leader may lead by a match not
  over); a projected team that no group table has, which is shown as empty (`:354-361`; the
  teams of a bracket come out of its groups, or an admin wires them by hand).
* Of the seeds: in the Libertadores and the Sudamericana the placeholders of a round are
  deleted and created again in two writes (`seed-libertadores.ts:359-363`), one in the
  model: a throw in between leaves the round without them until the next run, and
  `SeedMirrorsList` speaks of runs that completed. The Série B's statuses other than
  scheduled and final.
* The checks of a move of categories, several queries in the code
  (`categories.service.ts:149-175`), are one read; an overlap during them counts as one.
* Names, texts, slugs, colours, crests, stadiums, hours and languages.
