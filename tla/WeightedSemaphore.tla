-------------------------- MODULE WeightedSemaphore --------------------------
(***************************************************************************)
(* What the agent's two memory budgets promise (byteBudget for chunk       *)
(* bodies, decodeBudget for thumbnails): reservations are granted whole,   *)
(* given back whole, and never exceed the limit together.                  *)
(***************************************************************************)
EXTENDS Naturals, FiniteSetsExt

CONSTANTS Users, Need, Limit

VARIABLE holders

SemInit == holders = {}

Reserved(S) == MapThenSumSet(LAMBDA u : Need[u], S)

Grant(G) ==
    /\ G # {} /\ G \cap holders = {}
    /\ Reserved(holders \cup G) <= Limit
    /\ holders' = holders \cup G

\* Returning a reservation may admit waiting users in the same step.
Return(u, G) ==
    /\ u \in holders
    /\ G \cap holders = {}
    /\ Reserved((holders \ {u}) \cup G) <= Limit
    /\ holders' = (holders \ {u}) \cup G

SemNext ==
    \/ \E G \in SUBSET Users : Grant(G)
    \/ \E u \in Users, G \in SUBSET Users : Return(u, G)

SemSpec == SemInit /\ [][SemNext]_holders
====
