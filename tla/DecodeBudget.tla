----------------------------- MODULE DecodeBudget -----------------------------
(***************************************************************************)
(* decodeBudget of agent/internal/thumbs/thumbs.go: the memory that image  *)
(* decodes together may use, granted in FIFO order.  acquire queues a      *)
(* waiter under the mutex and then selects between its ready channel and   *)
(* its context, so a grant and a cancellation can cross.                   *)
(***************************************************************************)
EXTENDS Naturals, FiniteSets, Sequences, SequencesExt

CONSTANTS
    Users,      \* renders
    Need,       \* estimated working set of each
    Limit       \* decodeMemoryBudget

ASSUME DecodeAssumption ==
    /\ IsFiniteSet(Users)
    /\ Limit \in Nat
    /\ Need \in [Users -> 1..Limit]    \* acquire refuses any other weight

VARIABLES
    used,       \* decodeBudget.used
    queue,      \* decodeBudget.waiters, oldest first
    granted,    \* users whose waiter was granted and not given back
    pc,
    gone        \* users whose context is done

vars == <<used, queue, granted, pc, gone>>

Init ==
    /\ used = 0
    /\ queue = <<>>
    /\ granted = {}
    /\ pc = [u \in Users |-> "idle"]
    /\ gone = {}

Weight(q) == FoldLeft(LAMBDA w, u : w + Need[u], 0, q)

\* Variant: dispatch looks past a head that does not fit.
AdmittedSkipping(u, q) ==
    LET Fits(S) == u + Weight(SetToSeq(S)) <= Limit
        S == CHOOSE T \in SUBSET ToSet(q) : Fits(T) /\ \A v \in ToSet(q) \ T : ~Fits(T \cup {v})
    IN  SelectSeq(q, LAMBDA v : v \in S)

\* Variant: room is checked before the waiter's own weight is added.
AdmittedOver(u, q) ==
    LET Fits(n) == n = 0 \/ u + Weight(SubSeq(q, 1, n - 1)) < Limit
        n == CHOOSE n \in 0..Len(q) : Fits(n) /\ \A m \in (n + 1)..Len(q) : ~Fits(m)
    IN  SubSeq(q, 1, n)

\* dispatchLocked: the longest prefix of the queue that fits beside used.
Admitted(u, q) ==
    LET Fits(n) == u + Weight(SubSeq(q, 1, n)) <= Limit
        n == CHOOSE n \in 0..Len(q) : Fits(n) /\ \A m \in (n + 1)..Len(q) : ~Fits(m)
    IN  SubSeq(q, 1, n)

\* Variant: nobody is dispatched.
DispatchNobody(u, q, g) ==
    /\ used' = u
    /\ queue' = q
    /\ granted' = g

Dispatch(u, q, g) ==
    LET in == Admitted(u, q)
    IN  /\ used' = u + Weight(in)
        /\ queue' = SelectSeq(q, LAMBDA v : v \notin ToSet(in))
        /\ granted' = g \cup ToSet(in)

Acquire(u) ==
    /\ pc[u] = "idle" /\ u \notin gone
    /\ IF queue = <<>> /\ used + Need[u] <= Limit
       THEN /\ used' = used + Need[u]
            /\ granted' = granted \cup {u}
            /\ UNCHANGED queue
       ELSE Dispatch(used, Append(queue, u), granted)
    /\ pc' = [pc EXCEPT ![u] = "select"]
    /\ UNCHANGED gone

\* The ready case: the context is looked at once more.
Ready(u) ==
    /\ pc[u] = "select" /\ u \in granted
    /\ pc' = [pc EXCEPT ![u] = IF u \in gone THEN "giveback" ELSE "hold"]
    /\ UNCHANGED <<used, queue, granted, gone>>

\* Variant: a cancelled waiter that was granted in between keeps its grant.
CancelledLeaks(u) ==
    /\ pc[u] = "select" /\ u \in gone
    /\ Dispatch(used, Remove(queue, u), granted \ {u})
    /\ pc' = [pc EXCEPT ![u] = "idle"]
    /\ UNCHANGED gone

\* Variant: a cancelled waiter stays in the queue.
CancelledStaysQueued(u) ==
    /\ pc[u] = "select" /\ u \in gone
    /\ IF u \in granted
       THEN Dispatch(used - Need[u], queue, granted \ {u})
       ELSE Dispatch(used, queue, granted)
    /\ pc' = [pc EXCEPT ![u] = "idle"]
    /\ UNCHANGED gone

\* The ctx.Done case: the grant may have come first.
Cancelled(u) ==
    /\ pc[u] = "select" /\ u \in gone
    /\ IF u \in granted
       THEN Dispatch(used - Need[u], queue, granted \ {u})
       ELSE Dispatch(used, Remove(queue, u), granted)
    /\ pc' = [pc EXCEPT ![u] = "idle"]
    /\ UNCHANGED gone

\* Variant: the memory is given back when the render's context ends.
ReleaseWhenGone(u) ==
    /\ pc[u] \in {"hold", "giveback"} /\ u \in gone
    /\ Dispatch(used - Need[u], queue, granted \ {u})
    /\ pc' = [pc EXCEPT ![u] = "idle"]
    /\ UNCHANGED gone

\* release, after the decode or after a grant that came too late.
Release(u) ==
    /\ pc[u] \in {"hold", "giveback"}
    /\ Dispatch(used - Need[u], queue, granted \ {u})
    /\ pc' = [pc EXCEPT ![u] = "idle"]
    /\ UNCHANGED gone

\* The last caller of the shared render goes away.
Leave(u) ==
    /\ u \notin gone /\ pc[u] # "idle"
    /\ gone' = gone \cup {u}
    /\ UNCHANGED <<used, queue, granted, pc>>

\* A new render, with a context of its own.
Renew(u) ==
    /\ u \in gone /\ pc[u] = "idle"
    /\ gone' = gone \ {u}
    /\ UNCHANGED <<used, queue, granted, pc>>

Next ==
    \E u \in Users :
        Acquire(u) \/ Ready(u) \/ Cancelled(u) \/ Release(u) \/ Leave(u) \/ Renew(u)

Spec == Init /\ [][Next]_vars

\* Goroutines are scheduled and a decode ends.
Fairness == \A u \in Users : WF_vars(Ready(u) \/ Cancelled(u)) /\ WF_vars(Release(u))

LiveSpec == Spec /\ Fairness

(***************************************************************************)
(* Properties.                                                             *)
(***************************************************************************)
\* The variables keep their types, and a user waits in the queue once.
TypeOK ==
    /\ used \in Nat
    /\ queue \in Seq(Users) /\ IsInjective(queue)
    /\ granted \subseteq Users
    /\ pc \in [Users -> {"idle", "select", "hold", "giveback"}]
    /\ gone \subseteq Users

\* The reservation is exactly what the granted renders need: a cancellation
\* that crosses a grant neither leaks it nor returns it twice (acquire).
Accounted == used = Weight(SetToSeq(granted))

\* No lost wakeup: the oldest waiter is queued only while it does not fit.
HeadIsBlocked == queue # <<>> => used + Need[Head(queue)] > Limit

\* The budget is a weighted semaphore.
Sem == INSTANCE WeightedSemaphore WITH holders <- granted
ImplementsSemaphore == Sem!SemSpec

\* A waiter is never overtaken by one that queued after it (dispatchLocked).
Fifo ==
    [][\A i, j \in 1..Len(queue) :
         i < j /\ queue[j] \in granted' => ~Contains(queue', queue[i])]_vars

\* Every waiter gets its turn: a large image is not starved by small ones.
AcquireReturns == \A u \in Users : pc[u] = "select" ~> pc[u] # "select"
====
