------------------------------- MODULE MCJobs -------------------------------
(* The jobs that run behind the API: the reminders, the timeline of a match  *)
(* and its page, the content pipeline, the monitor, ESPN's client, the seeds *)
(* of the matches, the backups.  They share no state, so each behaviour is   *)
(* one of them, chosen at the start, and the others stand still.             *)
EXTENDS Reminders, Newsroom, Monitor, MatchFeed, TimelinePage, EspnClient, LeagueSeed,
        Backups, TLC

\* two items about the same event
MCEvent == ("i1" :> "e") @@ ("i2" :> "e")

\* a goal and the notice of its review; the kickoff, then an annulment told twice,
\* of which the window lets go one by one
MCKeyKind == ("g" :> "goal") @@ ("v" :> "var")
MCPlays == << [id |-> None, kind |-> "narration", at |-> 0],
              [id |-> "v", kind |-> "deletion", at |-> 1],
              [id |-> "n", kind |-> "no_goal", at |-> 2] >>

\* two rounds of four clubs
MCTable == << [round |-> 1, home |-> "A", away |-> "B"], [round |-> 1, home |-> "C", away |-> "D"],
              [round |-> 2, home |-> "B", away |-> "C"], [round |-> 2, home |-> "D", away |-> "A"] >>

\* the events of a match stored out of order, with a delay told twice
PageEvent(type, period, base, added, clock, detail) ==
    [type |-> type, period |-> period, base |-> base, added |-> added, clock |-> clock, detail |-> detail]
MCPageEvents ==
    << PageEvent("START", 1, 0, 0, 0, None), PageEvent("GOAL", 2, 90, 3, 90, None),
       PageEvent("CARD", 2, 90, 1, 90, None), PageEvent("DELAY", 2, 90, 2, 90, "Jogo paralisado"),
       PageEvent("DELAY", 2, 90, 2, 90, "VAR"), PageEvent("PERIOD_END", 2, None, 0, 90, None) >>

\* two competitions, a match of each
MCLeagues == << "bra", "wc" >>
MCLeagueMatch == ("bra" :> {"m1"}) @@ ("wc" :> {"m2"})

VARIABLE part

InitJobs ==
    /\ part \in {"reminders", "news", "monitor", "feed", "page", "espn", "league", "backup"}
    \* what a component chooses at its start, it chooses in its own part
    /\ RemindersInit
    /\ part # "reminders" =>
         /\ match.status = "SCHEDULED" /\ \A k \in KickoffTimes : match.kickoff <= k
         /\ follows = {} /\ bettors = {} /\ watched = Types[1]
    /\ NewsInit /\ MonitorInit /\ MatchFeedInit /\ PageInit /\ EspnInit
    /\ LeagueInit
    /\ part # "league" => division = "serie_a"
    /\ BackupsInit

OfNews == <<newsVars, monitorVars>>
OfMatch == <<matchFeedVars, pageVars>>
OfServers == <<espnVars, backupsVars>>

InPart(p, others) == part = p /\ UNCHANGED <<others, part>>

NextJobs ==
    \/ InPart("reminders", <<OfNews, OfMatch, leagueVars, OfServers>>) /\ RemindersNext
    \/ InPart("news", <<remindersVars, monitorVars, OfMatch, leagueVars, OfServers>>) /\ NewsNext
    \/ InPart("monitor", <<remindersVars, newsVars, OfMatch, leagueVars, OfServers>>) /\ MonitorNext
    \/ InPart("feed", <<remindersVars, OfNews, pageVars, leagueVars, OfServers>>) /\ MatchFeedNext
    \/ InPart("page", <<remindersVars, OfNews, matchFeedVars, leagueVars, OfServers>>) /\ PageNext
    \/ InPart("league", <<remindersVars, OfNews, OfMatch, OfServers>>) /\ LeagueNext
    \/ InPart("espn", <<remindersVars, OfNews, OfMatch, leagueVars, backupsVars>>) /\ EspnNext
    \/ InPart("backup", <<remindersVars, OfNews, OfMatch, leagueVars, espnVars>>) /\ BackupsNext

SpecJobs ==
    /\ InitJobs
    /\ [][NextJobs]_<<part, remindersVars, OfNews, OfMatch, leagueVars, OfServers>>

\* The runs of the reminders are alike.
AlikePasses == Permutations(Passes)
=============================================================================
