------------------------------ MODULE Realtime ------------------------------
(***************************************************************************)
(* The realtime signals of one match on one instance of the server: the    *)
(* writers here, each of which emits rooms of its own; those of other      *)
(* instances, which the match window finds by polling (MatchWindowService); *)
(* the kickoff, which is nobody's write; the bus that coalesces what is    *)
(* emitted (EventsService); and a page that refetches.  Each await of a    *)
(* poll is a step.                                                         *)
(***************************************************************************)
EXTENDS Common

CONSTANTS
    Statuses,      \* the statuses the match may have: LIVE stands for all those that
                   \* close the bets
    KickoffInstants,      \* the moments kickoffAt may be set to
    LastInstant,   \* bound on the clock
    MaxWrites,     \* bound on the writes of the match
    MaxMishaps     \* bound on the writers and polls that fail, the streams cut,
                   \* the restarts

ASSUME RealtimeAssumption ==
    /\ "SCHEDULED" \in Statuses /\ Statuses \subseteq {"SCHEDULED", "POSTPONED", "LIVE"}
    /\ KickoffInstants \subseteq Nat
    /\ {LastInstant, MaxWrites, MaxMishaps} \subseteq Nat

Rooms == {"match", "tournament"}

VARIABLES
    instant,    \* the clock
    stored,     \* the match in the database: a significant field; kickoffAt and
                \* whether predictionsOpen is false, which no signature holds; the
                \* number of the write that made it what it is; updatedAt
    sent,       \* the write of another instance, or of the refresh here, that is
                \* stamped and not committed
    emitting,   \* the rooms the writers of this instance are about to emit
    poll,       \* tick: where it is, and its interval
    cursor,     \* lastTick, lastSeenUpdate, lastSig
    bus,        \* EventsService: pending and whether the timer runs
    page,       \* a page: its room, whether it is connected and has been told
                \* to refetch, and what it shows
    missed,     \* history: the page was not told of a change since it last read
    mishaps,    \* how many so far
    unheard     \* history: since the last poll the match changed, and no writer of
                \* this instance emitted it

realtimeVars == <<instant, stored, sent, emitting, poll, cursor, bus, page,
                  missed, mishaps, unheard>>

\* acceptsPredictions
Open(row, now) ==
    /\ ~row.closed
    /\ row.status = "POSTPONED" \/ (row.status = "SCHEDULED" /\ now < row.kickoff)

\* What a page of a room reads: the tournament's pages do not show the clock, and
\* all show whether bets are open, which the passing of time decides.
Seen(row, now, r) ==
    [status |-> row.status, kickoff |-> row.kickoff,
     write |-> IF r = "match" THEN row.write ELSE 0,
     open |-> Open(row, now)]

Truths == [status : Statuses, kickoff : KickoffInstants, write : 0..MaxWrites, open : BOOLEAN]

Waiting == [pc |-> "waits"]
Unseen == "unseen"

\* An instance that has polled the match before.
RealtimeInit ==
    /\ instant = 1
    /\ \E k \in KickoffInstants :
         stored = [status |-> "SCHEDULED", kickoff |-> k, closed |-> FALSE, write |-> 0, at |-> 0]
    /\ sent = {}
    /\ emitting = {}
    /\ poll = Waiting
    /\ cursor = [tick |-> 0, update |-> 0, sig |-> "SCHEDULED"]
    /\ bus = [pending |-> {}, timer |-> FALSE]
    /\ \E r \in Rooms : page = [room |-> r, connected |-> TRUE, told |-> FALSE,
                               shows |-> Seen(stored, 1, r)]
    /\ missed = FALSE
    /\ mishaps = 0
    /\ unheard = FALSE

-----------------------------------------------------------------------------
(* Faulty variants, for testing the properties. *)

\* the interval is closed at its near end and open at the far one
ClosesBefore(row, since, now) ==
    row.status = "SCHEDULED" /\ ~row.closed /\ since < row.kickoff /\ row.kickoff < now

-----------------------------------------------------------------------------
(* The bus. *)

\* emit: note the rooms; the timer is started when none runs.
Emitted(b, rooms) == [pending |-> b.pending \cup rooms, timer |-> TRUE]

\* The timer with nothing pending: it stops, and the next emit starts another.
Stopped(b) == [b EXCEPT !.timer = FALSE]

\* Every 2 s: the rooms pending are signalled to the streams that subscribe to
\* them; a page that is not connected does not hear.
TimerFires ==
    /\ bus.timer
    /\ IF bus.pending = {}
       THEN bus' = Stopped(bus) /\ UNCHANGED page
       ELSE /\ bus' = [bus EXCEPT !.pending = {}]
            /\ page' = [page EXCEPT !.told =
                           @ \/ (page.connected /\ page.room \in bus.pending)]
    /\ UNCHANGED <<instant, stored, sent, emitting, poll, cursor, missed, unheard, mishaps>>

-----------------------------------------------------------------------------
(* The writers. *)

Significant(row, status) == row.status # status

\* What all pages read of a match is altered.
Altered(row, status, kickoff, closed) ==
    <<row.status, row.kickoff, row.closed>> # <<status, kickoff, closed>>

Lands(status, kickoff, closed, at) ==
    /\ stored.write < MaxWrites
    /\ stored' = [status |-> status, kickoff |-> kickoff, closed |-> closed,
                  write |-> stored.write + 1, at |-> at]

\* The robot, on this instance: a mere move of the clock is for the match's pages
\* alone.
RobotWrites ==
    /\ \E status \in Statuses :
         /\ Lands(status, stored.kickoff, stored.closed, instant)
         /\ emitting' = emitting \cup (IF Significant(stored, status) THEN Rooms ELSE {"match"})
    /\ UNCHANGED <<instant, sent, poll, cursor, bus, page, missed, unheard, mishaps>>

\* An admin, on this instance
AdminWrites ==
    /\ \E status \in Statuses, kickoff \in KickoffInstants, closed \in BOOLEAN :
         Lands(status, kickoff, closed, instant)
    /\ emitting' = emitting \cup Rooms
    /\ UNCHANGED <<instant, sent, poll, cursor, bus, page, missed, unheard, mishaps>>

Emit ==
    /\ emitting # {}
    /\ bus' = Emitted(bus, emitting)
    /\ emitting' = {}
    /\ UNCHANGED <<instant, stored, sent, poll, cursor, page, missed, unheard, mishaps>>

\* A writer throws between its write and its emit: the poll still finds the write,
\* unless it has read as late a stamp.
WriterThrows ==
    /\ Faults /\ mishaps < MaxMishaps
    /\ mishaps' = mishaps + 1
    /\ emitting # {}
    /\ emitting' = {}
    /\ unheard' = (unheard \/ "tournament" \in emitting)
    /\ missed' = (missed \/ (page.room \in emitting /\ stored.at <= cursor.update))
    /\ UNCHANGED <<instant, stored, sent, poll, cursor, bus, page>>

\* A writer stamps updatedAt when it sends the update, and the update commits later.
WriteIsSent ==
    /\ sent = {} /\ stored.write < MaxWrites
    /\ \E by \in {"refresh", "other"} : sent' = {[by |-> by, at |-> instant]}
    /\ UNCHANGED <<instant, stored, emitting, poll, cursor, bus, page, missed, unheard, mishaps>>

\* The refresh of the fixtures, on this instance, which emits the tournament's room
\* alone: the match's pages are left to the poll.
RefreshCommits ==
    /\ \E w \in sent :
         /\ w.by = "refresh"
         /\ \E status \in Statuses \ {"LIVE"}, kickoff \in KickoffInstants :
              /\ status = "POSTPONED" => kickoff = stored.kickoff
              /\ Lands(status, kickoff, stored.closed, w.at)
         /\ missed' = (missed \/ (page.room = "match" /\ w.at <= cursor.update))
    /\ emitting' = emitting \cup {"tournament"}
    /\ sent' = {}
    /\ UNCHANGED <<instant, poll, cursor, bus, page, unheard, mishaps>>

\* Another instance's writer.  A commit whose stamp is not later than what the poll
\* has seen is never found.
OtherCommits ==
    /\ \E w \in sent, status \in Statuses, kickoff \in KickoffInstants, closed \in BOOLEAN :
         /\ w.by = "other"
         /\ Lands(status, kickoff, closed, w.at)
         /\ missed' = (missed \/ w.at <= cursor.update)
         /\ unheard' = (unheard \/ Altered(stored, status, kickoff, closed))
    /\ sent' = {}
    /\ UNCHANGED <<instant, emitting, poll, cursor, bus, page, mishaps>>

-----------------------------------------------------------------------------
(* The poll. *)

\* emitKickoffCloses
Closes(row, since, now) ==
    row.status = "SCHEDULED" /\ ~row.closed /\ since < row.kickoff /\ row.kickoff <= now

\* A poll begins with the kickoffs since the last one.
PollKickoffs ==
    /\ poll = Waiting
    /\ bus' = IF Closes(stored, cursor.tick, instant) THEN Emitted(bus, Rooms) ELSE bus
    /\ poll' = [pc |-> "updates", now |-> instant]
    /\ UNCHANGED <<instant, stored, sent, emitting, cursor, page, missed, unheard, mishaps>>

\* signature: the first sight of a match counts as a change
Changed(sig, row) == sig # row.status

\* lastSeenUpdate
CursorAfter(c, row) == row.at

\* emitExternalUpdates: the kickoff and predictionsOpen are not in the signature, and
\* a field of it that came back to what it was at the last poll looks like no change.
PollUpdates ==
    /\ poll.pc = "updates"
    /\ IF stored.at > cursor.update
       THEN /\ bus' = Emitted(bus, IF Changed(cursor.sig, stored) THEN Rooms ELSE {"match"})
            /\ cursor' = [tick |-> poll.now, update |-> CursorAfter(cursor, stored),
                          sig |-> stored.status]
            /\ missed' = \/ missed
                         \/ page.room = "tournament" /\ unheard /\ cursor.sig = stored.status
       ELSE /\ cursor' = [cursor EXCEPT !.tick = poll.now]
            /\ UNCHANGED <<bus, missed>>
    /\ unheard' = FALSE
    /\ poll' = Waiting
    /\ UNCHANGED <<instant, stored, sent, emitting, page, mishaps>>

\* A query throws; the finally moves lastTick on all the same, and a kickoff of
\* the interval that was not signalled never will be.
PollFails ==
    /\ Faults /\ mishaps < MaxMishaps
    /\ mishaps' = mishaps + 1
    /\ \/ /\ poll = Waiting
          /\ cursor' = [cursor EXCEPT !.tick = instant]
          /\ missed' = (missed \/ Closes(stored, cursor.tick, instant))
       \/ /\ poll # Waiting
          /\ cursor' = [cursor EXCEPT !.tick = poll.now]
          /\ UNCHANGED missed
    /\ poll' = Waiting
    /\ UNCHANGED <<instant, stored, sent, emitting, bus, page, unheard>>

-----------------------------------------------------------------------------
(* The page, and the process. *)

\* A page that was told, or that connects again, reads the match.
Refetch ==
    /\ page.connected /\ page.told
    /\ page' = [page EXCEPT !.told = FALSE, !.shows = Seen(stored, instant, page.room)]
    /\ missed' = FALSE
    /\ UNCHANGED <<instant, stored, sent, emitting, poll, cursor, bus, unheard, mishaps>>

Disconnect ==
    /\ Faults /\ mishaps < MaxMishaps
    /\ mishaps' = mishaps + 1
    /\ page.connected
    /\ page' = [page EXCEPT !.connected = FALSE, !.told = FALSE]
    /\ UNCHANGED <<instant, stored, sent, emitting, poll, cursor, bus, missed, unheard>>

Reconnect ==
    /\ ~page.connected
    /\ page' = [page EXCEPT !.connected = TRUE, !.told = TRUE]
    /\ UNCHANGED <<instant, stored, sent, emitting, poll, cursor, bus, missed, unheard, mishaps>>

\* The process restarts: the cursors are now, nothing is pending, and every
\* stream is gone.
RealtimeRestart ==
    /\ Faults /\ mishaps < MaxMishaps
    /\ mishaps' = mishaps + 1
    /\ emitting' = {}
    /\ poll' = Waiting
    /\ cursor' = [tick |-> instant, update |-> instant, sig |-> Unseen]
    /\ bus' = [pending |-> {}, timer |-> FALSE]
    /\ page' = [page EXCEPT !.connected = FALSE, !.told = FALSE]
    /\ unheard' = FALSE
    \* what the refresh had sent may commit, with nobody left to emit it
    /\ sent' = {[by |-> "other", at |-> w.at] : w \in sent}
    /\ UNCHANGED <<instant, stored, missed>>

InstantPasses ==
    /\ instant < LastInstant
    /\ instant' = instant + 1
    /\ UNCHANGED <<stored, sent, emitting, poll, cursor, bus, page, missed, unheard, mishaps>>

RealtimeNext ==
    \/ TimerFires \/ RobotWrites \/ AdminWrites \/ Emit \/ WriterThrows
    \/ WriteIsSent \/ RefreshCommits \/ OtherCommits
    \/ PollKickoffs \/ PollUpdates \/ PollFails
    \/ Refetch \/ Disconnect \/ Reconnect \/ RealtimeRestart \/ InstantPasses

RealtimeSpec == RealtimeInit /\ [][RealtimeNext]_realtimeVars

-----------------------------------------------------------------------------
(* Properties. *)

\* The signals implement what Views promises: a page never shows a match that was
\* not, and comes to show the present one whatever is coalesced, repeated,
\* disconnected or restarted.  A page that misses a change for good is one of
\* which missed says why: a kickoff in the interval of a poll that failed; a write
\* of another instance, or for the match's pages one of the refresh, stamped not
\* later than one already seen; for the tournament's pages a date or a closing of
\* the bets from another instance, or a field that came back, neither of which the
\* signature tells; a writer that threw before its emit, where the poll could not
\* make up for it.
Promise == INSTANCE Views WITH
    Truth <- Truths,
    truth <- Seen(stored, instant, page.room),
    shown <- page.shows,
    lost <- missed

SignalsKeepPromise == Promise!ViewsSpec
=============================================================================
