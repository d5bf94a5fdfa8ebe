----------------------------- MODULE EspnClient -----------------------------
(***************************************************************************)
(* The client every robot asks ESPN through (getJson and noteRateLimit of  *)
(* live-ingest/espn.service.ts) with the pause it keeps when it is         *)
(* rate-limited, and the robot of the odds (match-summary/odds.service.ts),*)
(* one of its callers.  A call waits for its answer and others are sent    *)
(* meanwhile; what ESPN answers is arbitrary.                              *)
(***************************************************************************)
EXTENDS Common, SequencesExt

CONSTANTS
    Callers,     \* the other robots, each with one call at a time
    Refreshers,  \* the ticks of the odds robot that may overlap
    FirstPause,  \* 30 s
    MaxPause,    \* MAX_BACKOFF_MS
    RetryAfter,  \* the pauses ESPN may ask for; None asks for none
    Leagues,     \* the scoreboards the odds robot reads, as a sequence
    LeagueMatch, \* the matches of each, by their league
    Prices,      \* the odds ESPN may serve
    MaxClock     \* bound on the clock

PricedMatches == UNION {LeagueMatch[l] : l \in ToSet(Leagues)}

ASSUME EspnClientAssumption ==
    /\ FirstPause \in Nat \ {0} /\ MaxPause \in Nat /\ MaxClock \in Nat
    /\ RetryAfter \subseteq Nat \cup {None}
    /\ None \notin Prices /\ Callers \cap Refreshers = {}

VARIABLES
    espnClock,
    blockedUntil,
    backoffStreak,
    calling,   \* the callers with a call under way
    odds,      \* the odds of each match, None before ESPN priced it
    oddsRun,   \* of each tick its refresh: the odds it read, the leagues it has left
               \* and what it was answered; None without one
    crossing   \* history: the callers with a call under way since before the last
               \* pause was armed

espnVars == <<espnClock, blockedUntil, backoffStreak, calling, odds, oddsRun, crossing>>
clientVars == <<blockedUntil, backoffStreak, calling, crossing>>

EspnInit ==
    /\ espnClock = 0 /\ blockedUntil = 0 /\ backoffStreak = 0
    /\ calling = {}
    /\ odds = [m \in PricedMatches |-> None] /\ oddsRun = [r \in Refreshers |-> None]
    /\ crossing = {}

-----------------------------------------------------------------------------
(* Faulty variants, for testing the property. *)

\* the pause is not looked at
SendsAlways(c) == c \notin calling

-----------------------------------------------------------------------------
(* The client. *)

Min2(a, b) == IF a < b THEN a ELSE b

MaySend(c) == c \notin calling /\ espnClock >= blockedUntil

Sends(c) ==
    /\ MaySend(c)
    /\ calling' = calling \cup {c}
    /\ UNCHANGED <<blockedUntil, backoffStreak, crossing>>

ComesBack(c) ==
    /\ calling' = calling \ {c}
    /\ crossing' = crossing \ {c}

\* An answer ends whatever pause is in force.
AnsweredOk(c) ==
    /\ c \in calling
    /\ IF backoffStreak > 0 THEN backoffStreak' = 0 /\ blockedUntil' = 0
         ELSE UNCHANGED <<backoffStreak, blockedUntil>>
    /\ ComesBack(c)

\* noteRateLimit: what ESPN asks for, or twice as long each time
PauseFor(asked) ==
    IF asked \in {None, 0} THEN Min2(MaxPause, FirstPause * 2 ^ backoffStreak) ELSE asked

RateLimited(c) ==
    /\ c \in calling
    /\ \E asked \in RetryAfter : blockedUntil' = espnClock + PauseFor(asked)
    /\ backoffStreak' = backoffStreak + 1
    /\ calling' = calling \ {c} /\ crossing' = calling'

\* The request times out, fails, or is answered with another error.
Failed(c) ==
    /\ c \in calling
    /\ ComesBack(c)
    /\ UNCHANGED <<blockedUntil, backoffStreak>>

CallerMoves(c) ==
    /\ Sends(c) \/ AnsweredOk(c) \/ RateLimited(c) \/ Failed(c)
    /\ UNCHANGED <<espnClock, odds, oddsRun>>

-----------------------------------------------------------------------------
(* The odds. *)

\* running
OddsIdle == \A q \in Refreshers : oddsRun[q] = None

\* refresh reads the candidates with their odds
OddsStarts(r) ==
    /\ OddsIdle
    /\ oddsRun' = [oddsRun EXCEPT ![r] = [old |-> odds, left |-> Leagues, priced |-> None]]
    /\ UNCHANGED <<espnClock, clientVars, odds>>

Refreshing(r) == oddsRun[r] # None /\ oddsRun[r].left # <<>> /\ oddsRun[r].priced = None

\* getJson sends nothing during a pause and answers null: the league has no events.
OddsFetches(r) ==
    /\ Refreshing(r)
    /\ \/ Sends(r) /\ UNCHANGED oddsRun
       \/ /\ espnClock < blockedUntil /\ r \notin calling
          /\ oddsRun' = [oddsRun EXCEPT ![r].left = Tail(@)]
          /\ UNCHANGED clientVars
    /\ UNCHANGED <<espnClock, odds>>

\* parseScoreboardOdds: a price for a match, or None unless all three odds parse
Priced(league) == [LeagueMatch[league] -> Prices \cup {None}]

\* The answer prices some matches of the league, or there is none.
OddsAnswered(r) ==
    /\ Refreshing(r)
    /\ \/ /\ AnsweredOk(r)
          /\ \E prices \in Priced(Head(oddsRun[r].left)) :
               oddsRun' = [oddsRun EXCEPT ![r].priced = prices]
       \/ /\ RateLimited(r) \/ Failed(r)
          /\ oddsRun' = [oddsRun EXCEPT ![r].left = Tail(@)]
    /\ UNCHANGED <<espnClock, odds>>

\* applyOdds: a match without a price, or with the price read before, is left alone
Applied(r, m) == oddsRun[r].priced[m] \notin {None, oddsRun[r].old[m]}

\* A write that throws is passed over; its price is served again in the next refresh.
OddsApplied(r) ==
    /\ oddsRun[r] # None /\ oddsRun[r].priced # None
    /\ LET due == {m \in DOMAIN oddsRun[r].priced : Applied(r, m)}
       IN \E lost \in IF Faults THEN SUBSET due ELSE {{}} :
            odds' = [m \in PricedMatches |->
                       IF m \in due \ lost THEN oddsRun[r].priced[m] ELSE odds[m]]
    /\ oddsRun' = [oddsRun EXCEPT ![r].priced = None, ![r].left = Tail(@)]
    /\ UNCHANGED <<espnClock, clientVars>>

OddsEnd(r) ==
    /\ oddsRun[r] # None /\ oddsRun[r].left = <<>>
    /\ oddsRun' = [oddsRun EXCEPT ![r] = None]
    /\ UNCHANGED <<espnClock, clientVars, odds>>

ClockMoves ==
    /\ espnClock < MaxClock
    /\ espnClock' = espnClock + 1
    /\ UNCHANGED <<clientVars, odds, oddsRun>>

EspnNext ==
    \/ \E c \in Callers : CallerMoves(c)
    \/ \E r \in Refreshers :
         OddsStarts(r) \/ OddsFetches(r) \/ OddsAnswered(r) \/ OddsApplied(r) \/ OddsEnd(r)
    \/ ClockMoves

EspnSpec == EspnInit /\ [][EspnNext]_espnVars

-----------------------------------------------------------------------------
(* A property. *)

\* A pause in force is only cut short by the answer to a call that was under way
\* when it was armed: nobody asks ESPN again to find out.
PauseStands ==
    [][(espnClock < blockedUntil /\ blockedUntil' < blockedUntil) =>
         \E c \in crossing : c \notin calling']_espnVars
=============================================================================
