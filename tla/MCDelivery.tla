----------------------------- MODULE MCDelivery -----------------------------
(* What must come to happen, whatever is interrupted: campaigns are settled, *)
(* scheduled notifications are delivered, the structure of a World Cup is    *)
(* whole again.  They share no state, so each behaviour is one of them,      *)
(* chosen at the start, and the others stand still.                          *)
EXTENDS Campaigns, Deliveries, WorldCupSeed

\* a group of four; the first plays a third, the winner the second, the loser the fourth
GroupGame(h, a, d) == [phase |-> "Fase de Grupos", group |-> "A", home |-> h, away |-> a, day |-> d,
                       homeFrom |-> None, awayFrom |-> None]
KoGame(p, d, h, a) == [phase |-> p, group |-> None, home |-> None, away |-> None, day |-> d,
                       homeFrom |-> h, awayFrom |-> a]
FromPlace(n) == [says |-> "place", group |-> "A", position |-> n]
FromWinner(n) == [says |-> "winner", match |-> n]
FromLoser(n) == [says |-> "loser", match |-> n]
MCCard ==
    << GroupGame("C1", "C2", 1), GroupGame("C3", "C4", 1),
       GroupGame("C1", "C3", 2), GroupGame("C2", "C4", 2),
       KoGame("semi", 3, FromPlace(1), [says |-> "third", groups |-> {"A"}]),
       KoGame("third", 4, FromLoser(5), FromPlace(4)),
       KoGame("final", 4, FromWinner(5), FromPlace(2)) >>
MCKoOrder == << "semi", "third", "final" >>
MCTableOf == [l \in {"A"} |-> << "C1", "C2", "C3", "C4" >>]

VARIABLE part

InitDelivery ==
    /\ part \in {"campaigns", "deliveries", "worldcup"}
    /\ Init /\ DeliveriesInit /\ WorldCupInit

InPart(p, others) == part = p /\ UNCHANGED <<others, part>>

NextDelivery ==
    \/ InPart("campaigns", <<deliveriesVars, wcVars>>) /\ Next
    \/ InPart("deliveries", <<vars, wcVars>>) /\ DeliveriesNext
    \/ InPart("worldcup", <<vars, deliveriesVars>>) /\ WorldCupNext

\* The fairness of each, while it is the one that runs.  The minute crons of the
\* campaigns and of the deliveries fire, scheduled moments arrive and the awaits of
\* their runs return.
FairDelivery ==
    /\ WF_vars(part = "campaigns" /\ TimePasses)
    /\ WF_vars(part = "campaigns" /\ CronTick)
    /\ \A r \in Runners : WF_vars(part = "campaigns" /\ RunnerStep(r))
    /\ WF_deliveriesVars(part = "deliveries" /\ MailerStarts)
    /\ \A r \in Mailers : WF_deliveriesVars(part = "deliveries" /\ (Deliver(r) \/ Stamp(r)))

SpecDelivery ==
    /\ InitDelivery
    /\ [][NextDelivery]_<<part, vars, deliveriesVars, wcVars>>
    /\ FairDelivery
=============================================================================
