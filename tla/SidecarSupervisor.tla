--------------------------- MODULE SidecarSupervisor ---------------------------
(***************************************************************************)
(* agent/internal/sidecar/supervisor.go: one goroutine (loop) starts the   *)
(* helper process, watches it, takes it down and tries again; Stop and the *)
(* callers of Client run beside it.  The process and its client fail by    *)
(* themselves (client.go, module SidecarClient): here a client is only     *)
(* usable or done, and the kill that follows its failure is a step of its  *)
(* own, because fail kills after it has closed done.                       *)
(*                                                                         *)
(* onReady runs in a goroutine of its own and is left out.                 *)
(***************************************************************************)
EXTENDS Naturals

CONSTANTS
    BreakerFailures,    \* breakerFailures, 5 in the code
    MinBackoff, MaxBackoff

ASSUME SupervisorAssumption ==
    /\ BreakerFailures \in Nat \ {0}
    /\ MinBackoff \in Nat \ {0} /\ MaxBackoff \in Nat /\ MinBackoff <= MaxBackoff

VARIABLES
    pc,         \* where loop is
    ran,        \* Supervisor.run has fired
    failures,   \* consecutive failed starts
    backoff, wait,
    breaker,    \* stats.breakerOpen
    client,     \* Supervisor.client # nil
    clientDone, \* the latest client's done is closed
    proc,       \* the latest process: "none", "up", "eof" (stdin closed) or "gone"
    stop,       \* the stop channel is closed
    stopper     \* Stop: "idle", "waiting" or "stopped"

vars == <<pc, ran, failures, backoff, wait, breaker, client, clientDone, proc, stop, stopper>>

\* failures is only compared with BreakerFailures: beyond it one value will do.
FailureCap == BreakerFailures + 1

\* Variant: the doubling has no cap.
DoubledUncapped(b) == 2 * b

Doubled(b) == IF 2 * b < MaxBackoff THEN 2 * b ELSE MaxBackoff

Init ==
    /\ pc = "idle"
    /\ ran = FALSE
    /\ failures = 0
    /\ backoff = MinBackoff
    /\ wait = MinBackoff
    /\ breaker = FALSE
    /\ client = FALSE
    /\ clientDone = FALSE
    /\ proc = "none"
    /\ stop = FALSE
    /\ stopper = "idle"

Run ==
    /\ ~ran
    /\ ran' = TRUE
    /\ pc' = "top"
    /\ UNCHANGED <<failures, backoff, wait, breaker, client, clientDone, proc, stop, stopper>>

\* What Client returns to a caller.
ClientResult ==
    IF client /\ ~clientDone THEN "client"
    ELSE IF breaker THEN "breaker open" ELSE "unavailable"

(***************************************************************************)
(* loop                                                                    *)
(***************************************************************************)
\* The stop check, then the start of the process, if it starts at all.
Top ==
    /\ pc = "top"
    /\ \/ /\ stop
          /\ pc' = "done"
          /\ UNCHANGED <<clientDone, proc>>
       \/ /\ ~stop
          /\ pc' = "starting"
          /\ proc' \in {"none", "up"}
          /\ clientDone' = FALSE
    /\ UNCHANGED <<ran, failures, backoff, wait, breaker, client, stop, stopper>>

\* No process, a bad hello or none in time: Start kills what it started.
StartFails ==
    /\ pc = "starting"
    /\ pc' = "sleepFailed"
    /\ proc' = IF proc = "none" THEN "none" ELSE "gone"
    /\ failures' = IF failures < FailureCap THEN failures + 1 ELSE failures
    /\ breaker' = (breaker \/ failures' = BreakerFailures)
    /\ wait' = IF failures' >= BreakerFailures THEN MaxBackoff ELSE backoff
    /\ UNCHANGED <<ran, backoff, client, clientDone, stop, stopper>>

\* Variant: the breaker stays open when a start succeeds.
StartedBreakerStays ==
    /\ pc = "starting" /\ proc # "none"
    /\ pc' = "ready"
    /\ UNCHANGED <<ran, failures, backoff, wait, breaker, client, clientDone, proc, stop, stopper>>

Started ==
    /\ pc = "starting" /\ proc # "none"
    /\ pc' = "ready"
    /\ breaker' = FALSE
    /\ UNCHANGED <<ran, failures, backoff, wait, client, clientDone, proc, stop, stopper>>

SetClient ==
    /\ pc = "ready"
    /\ pc' = "watch"
    /\ client' = TRUE
    /\ UNCHANGED <<ran, failures, backoff, wait, breaker, clientDone, proc, stop, stopper>>

\* Variant: watch looks at pings only.
WatchEndsIgnoringStop ==
    /\ pc = "watch"
    /\ clientDone
    /\ pc' = "closing"
    /\ client' = FALSE
    /\ UNCHANGED <<ran, failures, backoff, wait, breaker, clientDone, proc, stop, stopper>>

\* The client is done, Stop was called, or a ping failed; setClient(nil).
WatchEnds ==
    /\ pc = "watch"
    /\ pc' = "closing"
    /\ client' = FALSE
    /\ UNCHANGED <<ran, failures, backoff, wait, breaker, clientDone, proc, stop, stopper>>

\* Variant: the process is left to itself.
CloseNothing ==
    /\ pc = "closing"
    /\ pc' = "closed"
    /\ UNCHANGED <<ran, failures, backoff, wait, breaker, client, clientDone, proc, stop, stopper>>

\* Close: stdin is closed; a client that is not done by the end of the grace
\* period is killed, one that is done is killed by whoever failed it.
CloseClient ==
    /\ pc = "closing"
    /\ pc' = "closed"
    /\ clientDone' = TRUE
    /\ \/ clientDone /\ proc' = IF proc = "up" THEN "eof" ELSE proc
       \/ proc' = "gone"
    /\ UNCHANGED <<ran, failures, backoff, wait, breaker, client, stop, stopper>>

\* The stop check, then the reset if the process had stayed up long enough.
Crashed ==
    /\ pc = "closed"
    /\ \/ /\ stop
          /\ pc' = "done"
          /\ UNCHANGED <<failures, backoff, wait>>
       \/ /\ ~stop
          /\ pc' = "sleepCrashed"
          /\ \/ UNCHANGED <<failures, backoff>>
             \/ failures' = 0 /\ backoff' = MinBackoff
          /\ wait' = backoff'
    /\ UNCHANGED <<ran, breaker, client, clientDone, proc, stop, stopper>>

\* Variant: an open breaker ends supervision.
WakeGivesUp ==
    /\ pc \in {"sleepFailed", "sleepCrashed"}
    /\ pc' = IF stop \/ breaker THEN "done" ELSE "top"
    /\ backoff' = Doubled(backoff)
    /\ UNCHANGED <<ran, failures, wait, breaker, client, clientDone, proc, stop, stopper>>

\* sleep: the timer fires, or Stop ends it; with both ready, either.
Wake ==
    /\ pc \in {"sleepFailed", "sleepCrashed"}
    /\ \/ pc' = "top" /\ backoff' = Doubled(backoff)
       \/ stop /\ pc' = "done" /\ UNCHANGED backoff
    /\ UNCHANGED <<ran, failures, wait, breaker, client, clientDone, proc, stop, stopper>>

(***************************************************************************)
(* The client fails by itself: a write error, a broken frame, end of file. *)
(***************************************************************************)
ClientFails ==
    /\ pc \in {"ready", "watch", "closing"} /\ ~clientDone
    /\ clientDone' = TRUE
    /\ UNCHANGED <<pc, ran, failures, backoff, wait, breaker, client, proc, stop, stopper>>

\* The process dies by itself, at end of file on stdin, or by that fail's kill.
ProcessEnds ==
    /\ proc \in {"up", "eof"}
    /\ proc' = "gone"
    /\ UNCHANGED <<pc, ran, failures, backoff, wait, breaker, client, clientDone, stop, stopper>>

(***************************************************************************)
(* Stop                                                                    *)
(***************************************************************************)
\* stop is closed; a loop that never ran is over.
StopCalled ==
    /\ stopper = "idle"
    /\ stopper' = "waiting"
    /\ stop' = TRUE
    /\ ran' = TRUE
    /\ pc' = IF ran THEN pc ELSE "done"
    /\ UNCHANGED <<failures, backoff, wait, breaker, client, clientDone, proc>>

\* Variant: Stop does not wait for loop.
StopReturnsEarly ==
    /\ stopper = "waiting"
    /\ stopper' = "stopped"
    /\ client' = FALSE
    /\ UNCHANGED <<pc, ran, failures, backoff, wait, breaker, clientDone, proc, stop>>

\* After done; a client still set is closed here, killed if it is not done.
StopReturns ==
    /\ stopper = "waiting" /\ pc = "done"
    /\ stopper' = "stopped"
    /\ client' = FALSE
    /\ clientDone' = (clientDone \/ client)
    /\ proc' \in IF client THEN {"eof", "gone"} ELSE {proc}
    /\ UNCHANGED <<pc, ran, failures, backoff, wait, breaker, stop>>

LoopStep ==
    \/ Top \/ StartFails \/ Started \/ SetClient
    \/ CloseClient \/ Crashed \/ Wake

Next ==
    \/ Run \/ LoopStep \/ WatchEnds
    \/ ClientFails \/ ProcessEnds
    \/ StopCalled \/ StopReturns

\* loop runs on: its sleeps and the handshake are timed, and watch returns once
\* its client is done or stop is closed.  That a started process stays up, dies
\* or answers pings is not assumed.
Fairness ==
    /\ WF_vars(LoopStep)
    /\ WF_vars(WatchEnds /\ (clientDone \/ stop))
    /\ WF_vars(StopReturns)

Spec == Init /\ [][Next]_vars /\ Fairness

(***************************************************************************)
(* Properties                                                              *)
(***************************************************************************)
\* Type invariant; the backoff stays between its bounds.
TypeOK ==
    /\ pc \in {"idle", "top", "starting", "sleepFailed", "ready", "watch", "closing",
               "closed", "sleepCrashed", "done"}
    /\ ran \in BOOLEAN /\ breaker \in BOOLEAN /\ client \in BOOLEAN
    /\ clientDone \in BOOLEAN /\ stop \in BOOLEAN
    /\ failures \in 0..FailureCap
    /\ backoff \in MinBackoff..MaxBackoff /\ wait \in MinBackoff..MaxBackoff
    /\ proc \in {"none", "up", "eof", "gone"}
    /\ stopper \in {"idle", "waiting", "stopped"}

\* No second process is started while the last one is running with its stdin
\* open: every way out of watch goes through Close.
OneSidecar == pc = "top" => proc # "up"

\* When Stop has returned, loop is over, no caller can get a client, and the
\* last process is gone or has been told to go, whatever loop was doing when
\* Stop was called.
StopIsFinal ==
    stopper = "stopped" => pc = "done" /\ ~client /\ proc # "up"

\* A caller is told of an open breaker only while no process is offered, and
\* only after BreakerFailures failed starts that no healthy run came after.
BreakerMeansDown == breaker => ~client /\ failures >= BreakerFailures

\* Until Stop, there is a usable client or another attempt to start one, again
\* and again: no failure, crash or open breaker ends supervision.
KeepsTrying ==
    [](ran => <>(stop \/ pc = "starting" \/ ClientResult = "client"))

\* Stop returns.
StopEnds == (stopper = "waiting") ~> (stopper = "stopped")
================================================================================
