----------------------------- MODULE Deliveries -----------------------------
(***************************************************************************)
(* The one-off notifications of NotificationsService.deliver: those an     *)
(* admin schedules (ScheduledNotificationService, a run every minute that  *)
(* does not wait for the previous one) and the onboarding nudge            *)
(* (OnboardingNudgeService, every hour in daytime).  deliver writes the    *)
(* notification and then pushes; what keeps it from being repeated is a    *)
(* later write in one case and the notification itself in the other.       *)
(***************************************************************************)
EXTENDS Common

CONSTANTS
    Messages,      \* the notifications admins schedule
    Newcomers,     \* the users who signed up lately
    Mailers,       \* bound on the runs of the minute cron in progress
    MaxFailures,   \* bound on the calls that fail and the crashes
    LastHour       \* bound on the clock of the nudge

ASSUME DeliveriesAssumption ==
    /\ IsFiniteSet(Messages) /\ IsFiniteSet(Newcomers)
    /\ MaxFailures \in Nat /\ LastHour \in Nat

VARIABLES
    message,     \* each scheduled notification: "none", "later", "due", "sent"
    copies,      \* how often each was delivered
    mailer,      \* each run of the minute cron: the messages left and the one in hand
    newcomer,    \* each newcomer: age in hours since the first day, active, has bet
    nudges,      \* how often each was nudged, which is how many rows there are
    nudger,      \* the run of the hourly cron: the users left
    hour,        \* hours since the newcomers were a day old
    failures,    \* how many calls failed so far
    parallel,    \* history: a run of the minute cron began before another ended
    unstamped    \* history: the messages delivered by a run that could not say so

deliveriesVars == <<message, copies, mailer, newcomer, nudges, nudger, hour,
                    failures, parallel, unstamped>>

Resting == [pc |-> "rests"]

DeliveriesInit ==
    /\ message = [m \in Messages |-> "none"]
    /\ copies = [m \in Messages |-> 0]
    /\ mailer = [r \in Mailers |-> Resting]
    /\ newcomer = [u \in Newcomers |-> [active |-> TRUE, bet |-> FALSE]]
    /\ nudges = [u \in Newcomers |-> 0]
    /\ nudger = [pc |-> "rests"]
    /\ hour = 0
    /\ failures = 0
    /\ parallel = FALSE
    /\ unstamped = {}

nudgeVars == <<newcomer, nudges, nudger, hour>>
mailVars == <<message, copies, mailer, parallel, unstamped>>

-----------------------------------------------------------------------------
(* Faulty variants, for testing the properties. *)

\* a message that was delivered is not taken up again, stamped or not
DueUndelivered == {m \in Messages : message[m] = "due" /\ copies[m] = 0}

\* those who were nudged are not left out
IdleOrNudged == {u \in Newcomers : newcomer[u].active /\ ~newcomer[u].bet}

-----------------------------------------------------------------------------
(* The scheduled notifications. *)

Mailing == {r \in Mailers : mailer[r] # Resting}

\* schedule
Schedule(m) ==
    /\ message[m] = "none"
    /\ \E at \in {"later", "due"} : message' = [message EXCEPT ![m] = at]
    /\ UNCHANGED <<copies, mailer, failures, parallel, unstamped, nudgeVars>>

SendAtPasses(m) ==
    /\ message[m] = "later"
    /\ message' = [message EXCEPT ![m] = "due"]
    /\ UNCHANGED <<copies, mailer, failures, parallel, unstamped, nudgeVars>>

\* tick: sentAt is null and sendAt has passed
DueNow == {m \in Messages : message[m] = "due"}

MailerStarts ==
    /\ Mailing # Mailers
    /\ DueNow # {}
    /\ mailer' = [mailer EXCEPT ![CHOOSE r \in Mailers : mailer[r] = Resting] =
                    [pc |-> "delivers", left |-> DueNow]]
    /\ parallel' = (parallel \/ Mailing # {})
    /\ UNCHANGED <<message, copies, failures, unstamped, nudgeVars>>

\* The next message of the list, or the end of the run.
NextMessage(left) == IF left = {} THEN Resting ELSE [pc |-> "delivers", left |-> left]

\* deliver: the row and the push.  The list is in the order of sendAt, which may
\* be any.
Deliver(r) ==
    /\ mailer[r].pc = "delivers"
    /\ \E m \in mailer[r].left :
         /\ copies' = [copies EXCEPT ![m] = @ + 1]
         /\ mailer' = [mailer EXCEPT ![r] = [pc |-> "stamps", left |-> @.left \ {m}, now |-> m]]
    /\ UNCHANGED <<message, failures, parallel, unstamped, nudgeVars>>

\* sentAt
Stamp(r) ==
    /\ mailer[r].pc = "stamps"
    /\ message' = [message EXCEPT ![mailer[r].now] = "sent"]
    /\ mailer' = [mailer EXCEPT ![r] = NextMessage(@.left)]
    /\ UNCHANGED <<copies, failures, parallel, unstamped, nudgeVars>>

\* The catch is inside the loop: the run goes on with the next message.
MailFails(r) ==
    /\ Faults /\ failures < MaxFailures
    /\ failures' = failures + 1
    /\ \/ /\ mailer[r].pc = "delivers"
          /\ \E m \in mailer[r].left :
               mailer' = [mailer EXCEPT ![r] = NextMessage(@.left \ {m})]
          /\ UNCHANGED unstamped
       \/ /\ mailer[r].pc = "stamps"
          /\ mailer' = [mailer EXCEPT ![r] = NextMessage(@.left)]
          /\ unstamped' = unstamped \cup {mailer[r].now}
    /\ UNCHANGED <<message, copies, parallel, nudgeVars>>

-----------------------------------------------------------------------------
(* The onboarding nudge. *)

\* active, without a prediction and without a nudge
Idlers == {u \in Newcomers : newcomer[u].active /\ ~newcomer[u].bet /\ nudges[u] = 0}

\* tick; an hour at night or past the week addresses nobody, which is the end of
\* this clock.
NudgerStarts ==
    /\ nudger.pc = "due"
    /\ nudger' = IF Idlers = {} THEN [pc |-> "rests"] ELSE [pc |-> "nudges", left |-> Idlers]
    /\ UNCHANGED <<newcomer, nudges, hour, failures, mailVars>>

\* deliver, to each of the list in turn
Nudge ==
    /\ nudger.pc = "nudges"
    /\ \E u \in nudger.left :
         /\ nudges' = [nudges EXCEPT ![u] = @ + 1]
         /\ nudger' = IF nudger.left = {u} THEN [pc |-> "rests"]
                      ELSE [nudger EXCEPT !.left = @ \ {u}]
    /\ UNCHANGED <<newcomer, hour, failures, mailVars>>

\* The catch is outside the loop: those left wait for the next hour.
NudgerFails ==
    /\ Faults /\ failures < MaxFailures
    /\ nudger.pc \in {"due", "nudges"}
    /\ failures' = failures + 1
    /\ nudger' = [pc |-> "rests"]
    /\ UNCHANGED <<newcomer, nudges, hour, mailVars>>

\* An hour goes by: its run of the cron is over.
HourPasses ==
    /\ nudger.pc = "rests" /\ hour < LastHour
    /\ hour' = hour + 1
    /\ nudger' = [pc |-> "due"]
    /\ UNCHANGED <<newcomer, nudges, failures, mailVars>>

\* A newcomer bets, or is deactivated or reactivated.
NewcomerChanges(u) ==
    /\ hour < LastHour
    /\ \/ newcomer' = [newcomer EXCEPT ![u].bet = TRUE]
       \/ newcomer' = [newcomer EXCEPT ![u].active = ~@]
    /\ UNCHANGED <<nudges, nudger, hour, failures, mailVars>>

-----------------------------------------------------------------------------
\* The process dies.
DeliveriesCrash ==
    /\ Faults /\ failures < MaxFailures
    /\ Mailing # {} \/ nudger.pc = "nudges"
    /\ failures' = failures + 1
    /\ unstamped' = unstamped \cup {mailer[r].now : r \in {q \in Mailers : mailer[q].pc = "stamps"}}
    /\ mailer' = [r \in Mailers |-> Resting]
    /\ nudger' = [pc |-> "rests"]
    /\ UNCHANGED <<message, copies, newcomer, nudges, hour, parallel>>

DeliveriesNext ==
    \/ MailerStarts \/ NudgerStarts \/ Nudge \/ NudgerFails \/ HourPasses \/ DeliveriesCrash
    \/ \E m \in Messages : Schedule(m) \/ SendAtPasses(m)
    \/ \E r \in Mailers : Deliver(r) \/ Stamp(r) \/ MailFails(r)
    \/ \E u \in Newcomers : NewcomerChanges(u)

DeliveriesSpec == DeliveriesInit /\ [][DeliveriesNext]_deliveriesVars

-----------------------------------------------------------------------------
(* Properties. *)

\* Nobody is sent the same thing twice: a message only when runs of its cron
\* overlap, or when a delivery could not be stamped; a nudge never, although
\* nothing but the notification itself says that it was sent, whatever fails or
\* dies in the middle of the list.
AtMostOneCopy ==
    /\ \A m \in Messages : copies[m] > 1 => parallel \/ m \in unstamped
    /\ \A u \in Newcomers : nudges[u] <= 1

\* A message that is due is delivered and then says so: one that fails, or whose
\* run dies, is taken up by a later run.
DueIsSent ==
    \A m \in Messages : message[m] = "due" ~> message[m] = "sent" /\ copies[m] > 0
=============================================================================
