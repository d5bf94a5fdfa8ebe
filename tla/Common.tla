------------------------------- MODULE Common -------------------------------
(***************************************************************************)
(* What several components take from the deployment: the users of the      *)
(* service, whether calls may fail and the process may die, and how many   *)
(* requests are served at once.                                            *)
(***************************************************************************)
EXTENDS Integers, FiniteSets, Sequences, Unset

CONSTANTS
    Users,
    Faults,     \* calls may fail and the process may die
    MaxInFlight \* bound on the requests being served at once

ASSUME CommonAssumption ==
    IsFiniteSet(Users) /\ Faults \in BOOLEAN /\ MaxInFlight \in Nat

\* A set in its order, given for each of its elements the set of those ahead of it.
InOrder(ahead) ==
    [i \in 1 .. Cardinality(DOMAIN ahead) |->
       CHOOSE n \in DOMAIN ahead : Cardinality(ahead[n]) = i - 1]
=============================================================================
