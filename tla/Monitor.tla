------------------------------ MODULE Monitor ------------------------------
(***************************************************************************)
(* The operational watchdog (MonitorService): the robots' heartbeats, the  *)
(* probe of the database, and the alerts on their way in and out.  The     *)
(* clock ticks once per run of the watchdog.  A heartbeat is kept as its   *)
(* age, because nothing else is ever asked of it.                          *)
(***************************************************************************)
EXTENDS Common

CONSTANTS
    Robots,
    Stale       \* staleAfterMs, in runs of the watchdog

ASSUME MonitorAssumption == IsFiniteSet(Robots) /\ Stale \in Nat \ {0}

VARIABLES
    beat,       \* each robot: not registered yet, or the age of its last beat
                \* and whether it is in a stuck episode
    dbDown,     \* the last probe failed
    connHigh,   \* the connections were near their limit and have not come down
    probe,      \* the watchdog: idle, waiting for the probe, or done
    alerted,    \* what the last alert about each subject said, "" if none
    repeated,   \* history: an alert said what the one before it did
    quiet,      \* history: for how long each robot has not completed a tick
    calm        \* history: for how long no probe has failed

monitorVars == <<beat, dbDown, connHigh, probe, alerted, repeated, quiet, calm>>

Subjects == Robots \cup {"bank", "connections"}
Unregistered == [age |-> -1, stuck |-> FALSE]
Longest == Stale + 3
Later(n) == IF n < Longest THEN n + 1 ELSE n

MonitorInit ==
    /\ beat = [r \in Robots |-> Unregistered]
    /\ dbDown = FALSE
    /\ connHigh = FALSE
    /\ probe = "idle"
    /\ alerted = [x \in Subjects |-> ""]
    /\ repeated = FALSE
    /\ quiet = [r \in Robots |-> 0]
    /\ calm = Longest

-----------------------------------------------------------------------------
(* Faulty variants, for testing the properties. *)

\* after an outage the robots keep the beats they had
AgesKept(b) == b

-----------------------------------------------------------------------------
\* notify, about several subjects at once
Alerts(said) ==
    /\ alerted' = [x \in Subjects |-> IF x \in DOMAIN said THEN said[x] ELSE alerted[x]]
    /\ repeated' = (repeated \/ \E x \in DOMAIN said : alerted[x] = said[x])

\* beat: the robot's tick succeeded, which takes a bank that answers.
Beat(r) ==
    /\ beat' = [beat EXCEPT ![r] = [age |-> 0, stuck |-> FALSE]]
    /\ Alerts(IF beat[r].stuck THEN [x \in {r} |-> "ok"] ELSE <<>>)
    /\ quiet' = [quiet EXCEPT ![r] = 0]
    /\ UNCHANGED <<dbDown, connHigh, probe, calm>>

WatchdogStarts ==
    /\ probe = "idle"
    /\ probe' = "waiting"
    /\ UNCHANGED <<beat, dbDown, connHigh, alerted, repeated, quiet, calm>>

\* The recovery gives every robot a fresh window.
Renewed(b) == [r \in Robots |-> IF b[r] = Unregistered THEN b[r] ELSE [b[r] EXCEPT !.age = 0]]

\* checkRobots: silent for longer than the threshold, and not flagged yet
Silent(b) == {r \in Robots : b[r] # Unregistered /\ ~b[r].stuck /\ b[r].age > Stale}

\* CONN_HIGH and CONN_LOW: between them the flag stays
HighAfter(load) == load = "high" \/ (load = "between" /\ connHigh)

\* checkDb when the probe answers, and then checkRobots.  A row without a maximum
\* says nothing of the connections.
ProbeAnswers ==
    /\ probe = "waiting"
    /\ \E load \in {"low", "between", "high", "unknown"} :
         LET seen == IF dbDown THEN Renewed(beat) ELSE beat
             high == IF load = "unknown" THEN connHigh ELSE HighAfter(load)
             silent == Silent(seen)
         IN /\ beat' = [r \in Robots |-> [seen[r] EXCEPT !.stuck = @ \/ r \in silent]]
            /\ connHigh' = high
            /\ Alerts([x \in silent \cup (IF dbDown THEN {"bank"} ELSE {})
                             \cup (IF high # connHigh THEN {"connections"} ELSE {}) |->
                         IF x \in Robots \/ (x = "connections" /\ high) THEN "bad" ELSE "ok"])
    /\ dbDown' = FALSE
    /\ probe' = "done"
    /\ UNCHANGED <<quiet, calm>>

\* checkDb when it fails or takes too long: checkRobots has nothing to say.
ProbeFails ==
    /\ Faults
    /\ probe = "waiting"
    /\ dbDown' = TRUE
    /\ Alerts(IF dbDown THEN <<>> ELSE [x \in {"bank"} |-> "bad"])
    /\ probe' = "done"
    /\ calm' = 0
    /\ UNCHANGED <<beat, connHigh, quiet>>

\* The next run is due.
PeriodPasses ==
    /\ probe = "done"
    /\ probe' = "idle"
    /\ beat' = [r \in Robots |-> IF beat[r] = Unregistered THEN beat[r]
                                 ELSE [beat[r] EXCEPT !.age = Later(@)]]
    /\ quiet' = [r \in Robots |-> Later(quiet[r])]
    /\ calm' = IF dbDown THEN 0 ELSE Later(calm)
    /\ UNCHANGED <<dbDown, connHigh, alerted, repeated>>

MonitorNext ==
    \/ WatchdogStarts \/ ProbeAnswers \/ ProbeFails \/ PeriodPasses
    \/ \E r \in Robots : Beat(r)

MonitorSpec == MonitorInit /\ [][MonitorNext]_monitorVars

-----------------------------------------------------------------------------
(* Properties. *)

\* An alarm is true and is raised: a robot is called stuck only when it has been
\* silent for longer than its threshold, all of it with a bank that answers, so
\* that an outage is never blamed on the robots, not even while they recover from
\* it; and one that has registered and is silent that long is called stuck within
\* two further runs.
AlarmsAreTrue ==
    [][\A r \in Robots :
        /\ beat'[r].stuck /\ ~beat[r].stuck => quiet[r] > Stale /\ calm > Stale
        /\ (beat[r] # Unregistered /\ quiet[r] = Longest /\ calm = Longest)
              => beat[r].stuck]_monitorVars

=============================================================================
