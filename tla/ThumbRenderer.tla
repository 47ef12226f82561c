----------------------------- MODULE ThumbRenderer -----------------------------
(***************************************************************************)
(* agent/internal/thumbs: callers that want the same thumbnail share one   *)
(* render (GetFileContext, waitForCall, renderCall); renders take decode   *)
(* slots, try the sidecar first and fall back to the built-in decoder      *)
(* (renderOpened, renderWithRemote); crashLog counts the renders a dying   *)
(* sidecar interrupted, per file, and forgets the oldest file first.       *)
(*                                                                         *)
(* A key is a cache path: one version of a file at one size.  Image data,  *)
(* cache bytes and the memory budget (module DecodeBudget) are left out.   *)
(***************************************************************************)
EXTENDS Naturals, FiniteSets, Sequences, SequencesExt

CONSTANTS
    Callers, Keys, Files,
    FileOf,         \* the file version a key is a thumbnail of
    Renders,        \* renderCall objects; one is used again once forgotten
    Slots,          \* capacity of fullDecodeSem
    CrashLogCap,    \* crashLogCap
    None

ASSUME RendererAssumption ==
    /\ FileOf \in [Keys -> Files]
    /\ Slots \in Nat \ {0} /\ CrashLogCap \in Nat \ {0}
    /\ None \notin Renders

VARIABLES
    at,         \* callers: "idle", "missed" or "waiting"
    wants,      \* the key a caller asked for
    joined,     \* the render it waits for
    inFlight,   \* Renderer.inFlight
    call,       \* renderCall: key, waiters, canceled and finished
    step,       \* where a render's goroutine is, "free" for no goroutine
    slots,      \* decode slots taken
    cached,     \* keys with a file in the cache
    strikes, order  \* crashLog

vars == <<at, wants, joined, inFlight, call, step, slots, cached, strikes, order>>
callers == <<at, wants, joined>>
log == <<strikes, order>>

Init ==
    /\ at = [c \in Callers |-> "idle"]
    /\ wants = [c \in Callers |-> None]
    /\ joined = [c \in Callers |-> None]
    /\ inFlight = [k \in Keys |-> None]
    /\ call = [r \in Renders |-> [key |-> None, waiters |-> 0,
                                  canceled |-> FALSE, finished |-> FALSE]]
    /\ step = [r \in Renders |-> "free"]
    /\ slots = 0
    /\ cached = {}
    /\ strikes = [f \in Files |-> 0]
    /\ order = <<>>

(***************************************************************************)
(* GetFileContext and waitForCall                                          *)
(***************************************************************************)
\* A hit is returned at once and changes nothing.
Get(c, k) ==
    /\ at[c] = "idle" /\ k \notin cached
    /\ wants' = [wants EXCEPT ![c] = k]
    /\ at' = [at EXCEPT ![c] = "missed"]
    /\ UNCHANGED <<joined, inFlight, call, step, slots, cached, log>>

Waiting(r) == {c \in Callers : at[c] = "waiting" /\ joined[c] = r}

CanJoin(r) == r # None /\ ~call[r].canceled /\ ~call[r].finished

Join(c) ==
    LET r == inFlight[wants[c]]
    IN  /\ at[c] = "missed"
        /\ CanJoin(r)
        /\ at' = [at EXCEPT ![c] = "waiting"]
        /\ joined' = [joined EXCEPT ![c] = r]
        /\ call' = [call EXCEPT ![r].waiters = @ + 1]
        /\ UNCHANGED <<wants, inFlight, step, slots, cached, log>>

Begin(c, r) ==
    /\ at[c] = "missed"
    /\ ~CanJoin(inFlight[wants[c]])
    /\ step[r] = "free" /\ Waiting(r) = {}
    /\ at' = [at EXCEPT ![c] = "waiting"]
    /\ joined' = [joined EXCEPT ![c] = r]
    /\ call' = [call EXCEPT ![r] = [key |-> wants[c], waiters |-> 1,
                                    canceled |-> FALSE, finished |-> FALSE]]
    /\ inFlight' = [inFlight EXCEPT ![wants[c]] = r]
    /\ step' = [step EXCEPT ![r] = "slot"]
    /\ UNCHANGED <<wants, slots, cached, log>>

\* done is closed: data or the render's error.
Served(c) ==
    /\ at[c] = "waiting"
    /\ call[joined[c]].finished
    /\ at' = [at EXCEPT ![c] = "idle"]
    /\ joined' = [joined EXCEPT ![c] = None] /\ wants' = [wants EXCEPT ![c] = None]
    /\ UNCHANGED <<inFlight, call, step, slots, cached, log>>

Dropped(k, r) == IF inFlight[k] = r THEN [inFlight EXCEPT ![k] = None] ELSE inFlight

\* Variant: any caller that leaves cancels the render.
LeaveCancels(c) ==
    LET r == joined[c]
    IN  /\ at[c] = "waiting"
        /\ at' = [at EXCEPT ![c] = "idle"]
        /\ joined' = [joined EXCEPT ![c] = None] /\ wants' = [wants EXCEPT ![c] = None]
        /\ IF call[r].finished THEN UNCHANGED <<call, inFlight>>
           ELSE /\ call' = [call EXCEPT ![r].waiters = @ - 1, ![r].canceled = TRUE]
                /\ inFlight' = Dropped(call[r].key, r)
        /\ UNCHANGED <<step, slots, cached, log>>

\* The caller's context is done; the last one to leave cancels the render.
Leave(c) ==
    LET r == joined[c]
        last == call[r].waiters = 1
    IN  /\ at[c] = "waiting"
        /\ at' = [at EXCEPT ![c] = "idle"]
        /\ joined' = [joined EXCEPT ![c] = None] /\ wants' = [wants EXCEPT ![c] = None]
        /\ IF call[r].finished THEN UNCHANGED <<call, inFlight>>
           ELSE /\ call' = [call EXCEPT ![r].waiters = @ - 1, ![r].canceled = last]
                /\ inFlight' = IF last THEN Dropped(call[r].key, r) ELSE inFlight
        /\ UNCHANGED <<step, slots, cached, log>>

(***************************************************************************)
(* renderCall                                                              *)
(***************************************************************************)
Goto(r, s) == step' = [step EXCEPT ![r] = s]

\* The end of a render that has data or an error; data nobody waits for is not
\* cached.
Settle(r, ok) == Goto(r, IF ok /\ ~call[r].canceled THEN "write" ELSE "finish")

\* A source the sidecar is not asked about: empty, or too large.
SkipRemote(r) ==
    /\ step[r] = "slot"
    /\ Goto(r, "slotLocal")
    /\ UNCHANGED <<callers, inFlight, call, slots, cached, log>>

\* Not an image, or one beyond the limits of the built-in decoder.
LocalRefused(r) ==
    /\ step[r] = "slotLocal"
    /\ Settle(r, FALSE)
    /\ UNCHANGED <<callers, inFlight, call, slots, cached, log>>

\* acquireDecodeSlot, for the sidecar and later for the built-in decoder: a
\* slot, or the render's context; with both ready, either.
TakeSlot(r) ==
    /\ step[r] \in {"slot", "slotLocal"}
    /\ slots < Slots
    /\ slots' = slots + 1
    /\ Goto(r, IF step[r] = "slot" THEN "remote" ELSE "decode")
    /\ UNCHANGED <<callers, inFlight, call, cached, log>>

\* Variant: the wait for a slot does not watch the context, and a canceled
\* render holds its place.
TakeSlotNever(r) == FALSE /\ step[r] = "slot" /\ UNCHANGED vars

SlotCanceled(r) ==
    /\ step[r] \in {"slot", "slotLocal"}
    /\ call[r].canceled
    /\ Settle(r, FALSE)
    /\ UNCHANGED <<callers, inFlight, call, slots, cached, log>>

\* The file cannot be read, or the sidecar died on it twice; or it has grown
\* too large and is left to the built-in decoder.
Refuse(r) ==
    /\ step[r] = "remote"
    /\ slots' = slots - 1
    /\ Settle(r, FALSE) \/ Goto(r, "slotLocal")
    /\ UNCHANGED <<callers, inFlight, call, cached, log>>

Send(r) ==
    /\ step[r] = "remote"
    /\ strikes[FileOf[call[r].key]] < 2
    /\ Goto(r, "sent")
    /\ UNCHANGED <<callers, inFlight, call, slots, cached, log>>

\* A thumbnail, an error that is final (not supported, failed, breaker open,
\* canceled), or a format the built-in decoder has to handle.
Answered(r, result) ==
    /\ step[r] = "sent"
    /\ slots' = slots - 1
    /\ \/ result = "data" /\ Settle(r, TRUE)
       \/ result = "final" /\ Settle(r, FALSE)
       \/ result = "unsupported" /\ ~call[r].canceled /\ Goto(r, "slotLocal")
    /\ UNCHANGED <<callers, inFlight, call, cached, log>>

\* ErrInterrupted, and the render is still wanted.
Interrupted(r) ==
    /\ step[r] = "sent" /\ ~call[r].canceled
    /\ Goto(r, "strike")
    /\ UNCHANGED <<callers, inFlight, call, slots, cached, log>>

\* Plain ErrUnavailable: in-process unless the file has a strike.
Unavailable(r) ==
    /\ step[r] = "sent" /\ ~call[r].canceled
    /\ slots' = slots - 1
    /\ IF strikes[FileOf[call[r].key]] >= 1 THEN Settle(r, FALSE)
                                            ELSE Goto(r, "slotLocal")
    /\ UNCHANGED <<callers, inFlight, call, cached, log>>

\* Variant: the oldest file keeps its strikes when it leaves the list.
StruckKeepsCount(f) ==
    LET grown == IF strikes[f] = 0 THEN Append(order, f) ELSE order
    IN  /\ order' = IF Len(grown) > CrashLogCap THEN Tail(grown) ELSE grown
        /\ strikes' = [strikes EXCEPT ![f] = IF @ < 3 THEN @ + 1 ELSE @]

\* crashLog.strike; beyond two, the count is not told apart.
Struck(f) ==
    LET grown == IF strikes[f] = 0 THEN Append(order, f) ELSE order
        full == Len(grown) > CrashLogCap
    IN  /\ order' = IF full THEN Tail(grown) ELSE grown
        /\ strikes' = [g \in Files |->
                          IF full /\ g = Head(grown) THEN 0
                          ELSE IF g = f /\ strikes[g] < 3 THEN strikes[g] + 1 ELSE strikes[g]]

Strike(r) ==
    /\ step[r] = "strike"
    /\ Struck(FileOf[call[r].key])
    /\ slots' = slots - 1
    /\ Settle(r, FALSE)
    /\ UNCHANGED <<callers, inFlight, call, cached>>


\* The built-in decoder: data, an error, or a panic turned into one.
Decode(r) ==
    /\ step[r] = "decode"
    /\ slots' = slots - 1
    /\ \E ok \in BOOLEAN : Settle(r, ok)
    /\ UNCHANGED <<callers, inFlight, call, cached, log>>

\* writeCache; it may fail, and pruning may remove others.
WriteCache(r) ==
    /\ step[r] = "write"
    /\ \/ cached' = cached
       \/ \E kept \in SUBSET cached : cached' = kept \cup {call[r].key}
    /\ Goto(r, "finish")
    /\ UNCHANGED <<callers, inFlight, call, slots, log>>

\* Variant: whatever render is registered for the key is removed.
FinishDropsAny(r) ==
    /\ step[r] = "finish"
    /\ call' = [call EXCEPT ![r].finished = TRUE, ![r].canceled = TRUE]
    /\ inFlight' = [inFlight EXCEPT ![call[r].key] = None]
    /\ Goto(r, "free")
    /\ UNCHANGED <<callers, slots, cached, log>>

Finish(r) ==
    /\ step[r] = "finish"
    /\ call' = [call EXCEPT ![r].finished = TRUE, ![r].canceled = TRUE]
    /\ inFlight' = Dropped(call[r].key, r)
    /\ Goto(r, "free")
    /\ UNCHANGED <<callers, slots, cached, log>>

(***************************************************************************)
(* Specification                                                           *)
(***************************************************************************)
\* What a render does by itself once its remote call has returned.
RenderStep(r) ==
    \/ TakeSlot(r) \/ SlotCanceled(r) \/ Refuse(r) \/ Send(r)
    \/ Strike(r) \/ Decode(r) \/ WriteCache(r) \/ Finish(r)

\* What only some sources do.
SourceStep(r) == SkipRemote(r) \/ LocalRefused(r)

RemoteStep(r) ==
    \/ \E result \in {"data", "final", "unsupported"} : Answered(r, result)
    \/ Interrupted(r) \/ Unavailable(r)

Next ==
    \/ \E c \in Callers :
          \/ \E k \in Keys : Get(c, k)
          \/ Join(c) \/ Served(c) \/ Leave(c)
          \/ \E r \in Renders : Begin(c, r)
    \/ \E r \in Renders : RenderStep(r) \/ SourceStep(r) \/ RemoteStep(r)

\* Renders run on; a remote call is only known to return once its context is
\* done (CallsEnd of SidecarClient).  Callers owe nothing, and no source is
\* assumed to be one that skips the wait for a slot.
Fairness ==
    \A r \in Renders :
        /\ WF_vars(RenderStep(r))
        /\ WF_vars(RemoteStep(r) /\ call[r].canceled)

Spec == Init /\ [][Next]_vars /\ Fairness

(***************************************************************************)
(* Properties                                                              *)
(***************************************************************************)
Live(r) == step[r] # "free" /\ ~call[r].canceled

\* "Shared work remains alive while another caller still waits": a render is
\* canceled before its end exactly when its last caller has gone, so waiters
\* counts the callers that wait.
CanceledWhenAlone ==
    \A r \in Renders : step[r] # "free" =>
        /\ call[r].waiters = Cardinality(Waiting(r))
        /\ call[r].canceled <=> Waiting(r) = {}

\* Concurrent callers of one key share one render: no key has two live ones,
\* and inFlight holds the live ones and nothing else, also when a canceled
\* render of the key is still finishing.
SharedOnce ==
    /\ \A r, q \in Renders : Live(r) /\ Live(q) /\ call[r].key = call[q].key => r = q
    /\ \A k \in Keys, r \in Renders : inFlight[k] = r <=> Live(r) /\ call[r].key = k


\* crashLog.order lists exactly the files with strikes, once each, so the map is
\* bounded by the cap and nothing in it is beyond eviction.
CrashLogConsistent ==
    /\ Len(order) <= CrashLogCap
    /\ \A i, j \in 1..Len(order) : order[i] = order[j] => i = j
    /\ {order[i] : i \in 1..Len(order)} = {f \in Files : strikes[f] > 0}

\* A render all of whose callers have gone ends, and gives its slot back, even
\* if the sidecar never answers it.
CanceledEnds ==
    \A r \in Renders : (step[r] # "free" /\ call[r].canceled) ~> step[r] = "free"
================================================================================
