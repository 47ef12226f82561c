------------------------------ MODULE ByteBudget ------------------------------
(***************************************************************************)
(* agent/internal/server/chunkbudget.go: the memory all chunk uploads      *)
(* together may hold.  A chunk that finds no room waits on the channel     *)
(* "wake", which the next release closes and replaces; it then looks       *)
(* again, until its timer fires or its client goes away.                   *)
(*                                                                         *)
(* A waiter keeps the channel it read under the mutex, so the only thing   *)
(* to know of the channels is which waiters hold a closed one.             *)
(***************************************************************************)
EXTENDS Naturals, FiniteSets

CONSTANTS
    Users,      \* chunk uploads
    Need,       \* bytes each reserves: the chunk size of its session
    Limit       \* chunkBufferBytes

ASSUME BudgetAssumption ==
    /\ IsFiniteSet(Users)
    /\ Need \in [Users -> Nat \ {0}]
    /\ Limit \in Nat

VARIABLES
    free,       \* byteBudget.free
    pc,         \* where each upload is
    woken       \* waiters whose channel has been closed

vars == <<free, pc, woken>>

Init ==
    /\ free = Limit
    /\ pc = [u \in Users |-> "idle"]
    /\ woken = {}

Enter(u) ==
    /\ pc[u] = "idle"
    /\ pc' = [pc EXCEPT ![u] = "try"]
    /\ UNCHANGED <<free, woken>>

\* Variant: any room at all is taken for enough.
TryAnyRoom(u) ==
    /\ pc[u] = "try"
    /\ IF free >= 1
       THEN free' = free - Need[u] /\ pc' = [pc EXCEPT ![u] = "hold"]
       ELSE pc' = [pc EXCEPT ![u] = "wait"] /\ UNCHANGED free
    /\ UNCHANGED woken

\* One turn of acquire's loop up to the select.
Try(u) ==
    /\ pc[u] = "try"
    /\ IF free >= Need[u]
       THEN free' = free - Need[u] /\ pc' = [pc EXCEPT ![u] = "hold"]
       ELSE pc' = [pc EXCEPT ![u] = "wait"] /\ UNCHANGED free
    /\ UNCHANGED woken

Wake(u) ==
    /\ pc[u] = "wait" /\ u \in woken
    /\ pc' = [pc EXCEPT ![u] = "try"]
    /\ woken' = woken \ {u}
    /\ UNCHANGED free

\* Variant: the wait has no deadline, and the client does not go away.
GiveUpNever(u) == FALSE /\ UNCHANGED vars

\* The timer, or the request's Done channel.
GiveUp(u) ==
    /\ pc[u] = "wait"
    /\ pc' = [pc EXCEPT ![u] = "idle"]
    /\ woken' = woken \ {u}
    /\ UNCHANGED free

\* Variant: a release wakes one waiter only.
ReleaseWakesOne(u) ==
    /\ pc[u] = "hold"
    /\ free' = free + Need[u]
    /\ pc' = [pc EXCEPT ![u] = "idle"]
    /\ LET asleep == {v \in Users : pc[v] = "wait"} \ woken
       IN  IF asleep = {} THEN UNCHANGED woken ELSE \E v \in asleep : woken' = woken \cup {v}


Release(u) ==
    /\ pc[u] = "hold"
    /\ free' = free + Need[u]
    /\ pc' = [pc EXCEPT ![u] = "idle"]
    /\ woken' = {v \in Users : pc[v] = "wait"}

Next == \E u \in Users : Enter(u) \/ Try(u) \/ Wake(u) \/ GiveUp(u) \/ Release(u)

Spec == Init /\ [][Next]_vars

\* A handler that runs is scheduled; one that holds memory ends (its body read
\* is bounded by the server's timeouts).  The timer is armed once per acquire:
\* once it has fired it stays ready at every select, and select chooses among
\* the ready cases at random, hence strong fairness.
Fairness ==
    \A u \in Users : /\ WF_vars(Try(u)) /\ WF_vars(Wake(u)) /\ WF_vars(Release(u))
                     /\ SF_vars(GiveUp(u))

LiveSpec == Spec /\ Fairness

(***************************************************************************)
(* Properties.                                                             *)
(***************************************************************************)
\* The variables keep their types; in particular free never goes negative.
TypeOK ==
    /\ free \in Nat
    /\ pc \in [Users -> {"idle", "try", "wait", "hold"}]
    /\ woken \subseteq {u \in Users : pc[u] = "wait"}

\* No lost wakeup: an upload sleeps on an open channel only while there is no
\* room for it, so room that appears between its check and its wait cannot be
\* missed (acquire reads wake under the mutex).
NoLostWakeup ==
    \A u \in Users : pc[u] = "wait" /\ u \notin woken => free < Need[u]

\* The budget is a weighted semaphore: nothing leaks and nothing is granted
\* beyond the limit (acquire, release).
Sem == INSTANCE WeightedSemaphore WITH holders <- {u \in Users : pc[u] = "hold"}
ImplementsSemaphore == Sem!SemSpec

\* Every upload that asks is answered, with memory or with 429 CHUNK_BUSY.
AcquireReturns == \A u \in Users : pc[u] \in {"try", "wait"} ~> pc[u] \in {"hold", "idle"}
====
