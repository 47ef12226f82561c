----------------------------- MODULE SidecarClient -----------------------------
(***************************************************************************)
(* agent/internal/sidecar/client.go: calls to one helper process over its  *)
(* stdin and stdout.  Callers, the read loop and Close share pending and   *)
(* failure under Client.mu; whoever calls fail first also kills the        *)
(* process, closes stdin and hands a result to every waiting call, all of  *)
(* it after the mutex is released.  Every call has a channel that holds    *)
(* one result.                                                             *)
(*                                                                         *)
(* The process (alive, inbox, outbox) is external and not trusted: it      *)
(* answers what it was sent in any order, twice or never, may write a      *)
(* frame that breaks the protocol, and may die at any time.  What it wrote *)
(* before it died is still read.                                           *)
(***************************************************************************)
EXTENDS Naturals, FiniteSets, Sequences

CONSTANTS
    Calls,      \* calls, each with an id of its own (Client.nextID)
    MaxFrames   \* bound: frames the process writes in a behaviour

ASSUME ClientAssumption == MaxFrames \in Nat /\ Calls \cap {"loop", "close", "none"} = {}

VARIABLES
    pc,         \* where each caller is
    outcome,    \* what its call returned
    expired,    \* calls whose context is done
    pending,    \* Client.pending
    chan,       \* the result in each call's channel, or "empty"
    failure,    \* Client.failure # nil; done is closed with it
    failer,     \* who runs the rest of fail, and the results it still owes
    failing,
    killed,     \* that fail has killed the process
    stdin,      \* the agent's end of the pipe is open
    reader,     \* read loop: "read", "deliver" or "ended"
    taken,      \* the answer it is about to hand over
    closer,     \* Close: "idle", "waiting", "failing" or "closed"
    alive, inbox, outbox, written

process == <<alive, inbox, outbox, written>>
caller == <<pc, outcome, expired>>
client == <<pending, chan, failure, failer, failing, killed, stdin>>
loop == <<reader, taken>>
vars == <<caller, client, loop, closer, process>>

Frame == [c : Calls, result : {"reply", "remote", "bad"}]

Init ==
    /\ pc = [c \in Calls |-> "new"]
    /\ outcome = [c \in Calls |-> "none"]
    /\ expired = {}
    /\ pending = {}
    /\ chan = [c \in Calls |-> "empty"]
    /\ failure = FALSE
    /\ failer = "none"
    /\ failing = {}
    /\ killed = FALSE
    /\ stdin = TRUE
    /\ reader = "read"
    /\ taken = {}
    /\ closer = "idle"
    /\ alive = TRUE
    /\ inbox = {}
    /\ outbox = <<>>
    /\ written = 0

(***************************************************************************)
(* fail                                                                    *)
(***************************************************************************)
\* Variant: the waiting calls stay registered.
FailKeepsPending(who) ==
    IF failure THEN UNCHANGED <<failure, failer, failing, pending>>
    ELSE /\ failure' = TRUE
         /\ failer' = who
         /\ failing' = pending
         /\ UNCHANGED pending

\* The critical section; only the first call goes on to the rest.
Fail(who) ==
    IF failure THEN UNCHANGED <<failure, failer, failing, pending>>
    ELSE /\ failure' = TRUE
         /\ failer' = who
         /\ failing' = pending
         /\ pending' = {}

\* kill, and stdin closed.
FailKill ==
    /\ failer # "none" /\ ~killed
    /\ killed' = TRUE
    /\ alive' = FALSE
    /\ stdin' = FALSE
    /\ UNCHANGED <<caller, pending, chan, failure, failer, failing, loop, closer, inbox, outbox, written>>

\* "ch <- result" waits while the channel is full.
FailHand(c) ==
    /\ failer # "none" /\ killed
    /\ c \in failing
    /\ chan[c] = "empty"
    /\ chan' = [chan EXCEPT ![c] = "interrupted"]
    /\ failing' = failing \ {c}
    /\ UNCHANGED <<caller, pending, failure, failer, killed, stdin, loop, closer, process>>

FailReturns ==
    /\ failer # "none" /\ killed
    /\ failing = {}
    /\ failer' = "none"
    /\ UNCHANGED <<caller, pending, chan, failure, failing, killed, stdin, loop, closer, process>>

(***************************************************************************)
(* call                                                                    *)
(***************************************************************************)
Return(c, result) ==
    /\ pc' = [pc EXCEPT ![c] = "done"]
    /\ outcome' = [outcome EXCEPT ![c] = result]

\* The context's state, then the failure, then the entry in pending.
Register(c) ==
    /\ pc[c] = "new"
    /\ \/ c \in expired /\ Return(c, "canceled") /\ UNCHANGED pending
       \/ c \notin expired /\ failure /\ Return(c, "unavailable") /\ UNCHANGED pending
       \/ /\ c \notin expired /\ ~failure
          /\ pc' = [pc EXCEPT ![c] = "send"]
          /\ pending' = pending \cup {c}
          /\ UNCHANGED outcome
    /\ UNCHANGED <<expired, chan, failure, failer, failing, killed, stdin, loop, closer, process>>

Send(c) ==
    /\ pc[c] = "send"
    /\ alive /\ stdin
    /\ pc' = [pc EXCEPT ![c] = "select"]
    /\ inbox' = inbox \cup {c}
    /\ UNCHANGED <<outcome, expired, client, loop, closer, alive, outbox, written>>

\* A closed pipe, a dead process, or the write deadline; part of the request
\* may have been written.
SendFails(c) ==
    /\ pc[c] = "send"
    /\ Fail(c)
    /\ pc' = [pc EXCEPT ![c] = "failed"]
    /\ inbox' \in {inbox, inbox \cup {c}}
    /\ UNCHANGED <<outcome, expired, chan, killed, stdin, loop, closer, alive, outbox, written>>

SendFailed(c) ==
    /\ pc[c] = "failed"
    /\ failer # c
    /\ Return(c, "interrupted")
    /\ UNCHANGED <<expired, client, loop, closer, process>>

\* Variant: the call does not wait for a result.
TakeResultBlindly(c) ==
    /\ pc[c] = "select"
    /\ Return(c, chan[c])
    /\ UNCHANGED <<expired, client, loop, closer, process>>

\* The select: when several of the three are ready, any of them.
TakeResult(c) ==
    /\ pc[c] = "select"
    /\ chan[c] # "empty"
    /\ \/ Return(c, chan[c])
       \/ chan[c] = "reply" /\ Return(c, "undecodable")
    /\ chan' = [chan EXCEPT ![c] = "empty"]
    /\ UNCHANGED <<expired, pending, failure, failer, failing, killed, stdin, loop, closer, process>>

\* Variant: a call the process died on is reported as one it never took.
TakeDoneAsAbsent(c) ==
    /\ pc[c] = "select"
    /\ failure
    /\ Return(c, "unavailable")
    /\ UNCHANGED <<expired, client, loop, closer, process>>

TakeDone(c) ==
    /\ pc[c] = "select"
    /\ failure
    /\ Return(c, "interrupted")
    /\ UNCHANGED <<expired, client, loop, closer, process>>

\* Variant: the entry stays in pending.
TakeCancelLeaks(c) ==
    /\ pc[c] = "select"
    /\ c \in expired
    /\ pc' = [pc EXCEPT ![c] = "cancel"]
    /\ UNCHANGED <<outcome, expired, client, loop, closer, process>>

\* Variant: the context is not watched.
TakeCancelNever(c) == FALSE /\ pc[c] = "select" /\ UNCHANGED vars

TakeCancel(c) ==
    /\ pc[c] = "select"
    /\ c \in expired
    /\ pc' = [pc EXCEPT ![c] = "cancel"]
    /\ pending' = pending \ {c}
    /\ UNCHANGED <<outcome, expired, chan, failure, failer, failing, killed, stdin, loop, closer, process>>

\* The cancel frame's own fate is ignored; the process owes it nothing.
SendCancel(c) ==
    /\ pc[c] = "cancel"
    /\ Return(c, "canceled")
    /\ UNCHANGED <<expired, client, loop, closer, process>>

\* The caller's context (external).
Expire(c) ==
    /\ pc[c] # "done" /\ c \notin expired
    /\ expired' = expired \cup {c}
    /\ UNCHANGED <<pc, outcome, client, loop, closer, process>>

(***************************************************************************)
(* readLoop                                                                *)
(***************************************************************************)
\* An answer nobody waits for is dropped; a broken frame ends the client.
Read ==
    /\ reader = "read" /\ outbox # <<>>
    /\ outbox' = Tail(outbox)
    /\ LET f == Head(outbox)
       IN  \/ /\ f.result # "bad"
              /\ IF f.c \in pending THEN reader' = "deliver" /\ taken' = {f}
                                    ELSE UNCHANGED loop
              /\ pending' = pending \ {f.c}
              /\ UNCHANGED <<failure, failer, failing>>
           \/ f.result = "bad" /\ Fail("loop") /\ reader' = "ended" /\ UNCHANGED taken
    /\ UNCHANGED <<caller, chan, killed, stdin, closer, alive, inbox, written>>

\* "ch <- result" outside the mutex.
Deliver ==
    /\ reader = "deliver"
    /\ \E f \in taken :
          /\ chan[f.c] = "empty"
          /\ chan' = [chan EXCEPT ![f.c] = f.result]
    /\ reader' = "read"
    /\ taken' = {}
    /\ UNCHANGED <<caller, pending, failure, failer, failing, killed, stdin, closer, process>>

\* End of file; the fail after cmd.Wait then finds the failure set.
ReadEOF ==
    /\ reader = "read" /\ outbox = <<>> /\ ~alive
    /\ Fail("loop")
    /\ reader' = "ended"
    /\ UNCHANGED <<caller, chan, killed, stdin, taken, closer, process>>

(***************************************************************************)
(* Close                                                                   *)
(***************************************************************************)
CloseStdin ==
    /\ closer = "idle"
    /\ closer' = "waiting"
    /\ stdin' = FALSE
    /\ UNCHANGED <<caller, pending, chan, failure, failer, failing, killed, loop, process>>

\* done is closed, or the grace period ends and the process is killed.
CloseWaited ==
    /\ closer = "waiting"
    /\ closer' = "failing"
    /\ alive' \in IF failure THEN {alive, FALSE} ELSE {FALSE}
    /\ UNCHANGED <<caller, client, loop, inbox, outbox, written>>

CloseFail ==
    /\ closer = "failing"
    /\ Fail("close")
    /\ closer' = "closed"
    /\ UNCHANGED <<caller, chan, killed, stdin, loop, process>>

(***************************************************************************)
(* The helper process (external).                                          *)
(***************************************************************************)
Answer(c, result) ==
    /\ alive /\ c \in inbox /\ written < MaxFrames
    /\ outbox' = Append(outbox, [c |-> c, result |-> result])
    /\ written' = written + 1
    /\ UNCHANGED <<caller, client, loop, closer, alive, inbox>>

Die ==
    /\ alive
    /\ alive' = FALSE
    /\ UNCHANGED <<caller, client, loop, closer, inbox, outbox, written>>

(***************************************************************************)
(* Specification                                                           *)
(***************************************************************************)
CallStep(c) ==
    \/ Send(c) \/ SendFails(c) \/ SendFailed(c)
    \/ TakeResult(c) \/ TakeDone(c) \/ TakeCancel(c) \/ SendCancel(c)

FailStep == FailKill \/ (\E c \in Calls : FailHand(c)) \/ FailReturns

LoopStep == Read \/ Deliver \/ ReadEOF

Next ==
    \/ \E c \in Calls : Register(c) \/ CallStep(c) \/ Expire(c)
    \/ FailStep
    \/ LoopStep
    \/ CloseStdin \/ CloseWaited \/ CloseFail
    \/ \E c \in Calls, result \in {"reply", "remote", "bad"} : Answer(c, result)
    \/ Die

\* A started call, the read loop, fail and Close run on: each is a goroutine
\* whose waits all have a deadline or another way out.  Nothing is assumed of
\* the process, of contexts, or of calls and Close being made.
Fairness ==
    /\ \A c \in Calls : WF_vars(CallStep(c))
    /\ WF_vars(FailStep)
    /\ WF_vars(LoopStep)
    /\ WF_vars(CloseWaited) /\ WF_vars(CloseFail)

Spec == Init /\ [][Next]_vars /\ Fairness

(***************************************************************************)
(* Properties                                                              *)
(***************************************************************************)
Result == {"reply", "remote", "interrupted"}

\* Type invariant of the client, its callers and the process.
TypeOK ==
    /\ pc \in [Calls -> {"new", "send", "failed", "select", "cancel", "done"}]
    /\ outcome \in [Calls -> Result \cup {"none", "undecodable", "unavailable", "canceled"}]
    /\ expired \subseteq Calls /\ pending \subseteq Calls /\ failing \subseteq Calls
    /\ chan \in [Calls -> Result \cup {"empty"}]
    /\ failure \in BOOLEAN /\ killed \in BOOLEAN /\ stdin \in BOOLEAN /\ alive \in BOOLEAN
    /\ failer \in Calls \cup {"loop", "close", "none"}
    /\ reader \in {"read", "deliver", "ended"}
    /\ taken \subseteq Frame /\ Cardinality(taken) <= 1
    /\ closer \in {"idle", "waiting", "failing", "closed"}
    /\ inbox \subseteq Calls /\ outbox \in Seq(Frame) /\ written \in 0..MaxFrames

\* Neither readLoop nor fail ever waits on a full channel: a call is owed at
\* most one result, even when the process answers twice or dies while an answer
\* is being handed over, so one slot in make(chan result, 1) is enough.
HandoverNeverBlocks ==
    /\ \A c \in failing : chan[c] = "empty"
    /\ \A f \in taken : chan[f.c] = "empty" /\ f.c \notin failing

\* ErrUnavailable without ErrInterrupted means the process never saw a byte of
\* the request: thumbs uses it to decide that decoding in-process is harmless.
PlainMeansUnsent ==
    \A c \in Calls : outcome[c] = "unavailable" => c \notin inbox

\* Client.pending does not grow with finished calls, whichever of the select's
\* cases or error returns ended them.
NothingLeftPending ==
    \A c \in Calls : pc[c] = "done" => c \notin pending

\* Once its context is done or the client has failed, a call that was made
\* returns: no caller hangs on a dead or silent process.
CallsEnd ==
    \A c \in Calls :
        (pc[c] # "new" /\ (failure \/ c \in expired)) ~> pc[c] = "done"
====
