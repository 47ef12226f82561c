-------------------------- MODULE TransferManager --------------------------
(***************************************************************************)
(* Resumable uploads: agent/internal/transfer, the SQLite rows behind it   *)
(* (agent/internal/store/transfers.go) and the four HTTP handlers that     *)
(* drive it (agent/internal/server/transferhandlers.go).                   *)
(*                                                                         *)
(* Durable state: the session row (status, stamp, received, decl), the     *)
(* session's temp file (onDisk, data, oldTemp) and the destination files   *)
(* (file).  Volatile state: the Manager's leases (active, completing) and  *)
(* the HTTP requests in flight (req).  A restart loses the volatile part.  *)
(*                                                                         *)
(* Manager.mu makes each critical section one action.  WriteChunk and      *)
(* complete run outside the mutex under a lease, so they are split where   *)
(* another request, the sweeper or a crash can come between two steps.     *)
(***************************************************************************)
EXTENDS Naturals, FiniteSets, FiniteSetsExt

CONSTANTS
    Sessions,            \* transfer ids (random UUIDs: never issued twice)
    Devices,             \* devices that may open sessions
    Paths,               \* destination paths
    Chunks,              \* chunk numbers of a session
    Sizes,               \* declared sizes, in units of reserved bytes
    Reqs,                \* concurrent HTTP requests
    MaxHostSessions, MaxHostBytes, MaxDeviceSessions, MaxDeviceBytes,
    HardLinks            \* does the destination filesystem support link(2)?

ASSUME TransferAssumption ==
    /\ IsFiniteSet(Sessions) /\ Sessions # {}
    /\ IsFiniteSet(Chunks) /\ Chunks # {}
    /\ IsFiniteSet(Reqs)
    /\ Devices # {} /\ Paths # {}
    /\ Sizes \subseteq Nat /\ Sizes # {}
    /\ MaxHostSessions \in Nat /\ MaxDeviceSessions \in Nat
    /\ MaxHostBytes \in Nat /\ MaxDeviceBytes \in Nat
    /\ HardLinks \in BOOLEAN

VARIABLES
    issued,      \* ids openSession has used
    status,      \* row status; "none" = no row
    stamp,       \* updated_at of an open row, terminal_at of a finished one
    received,    \* transfer_chunks of the row
    decl,        \* what the client declared when it opened the session
    onDisk,      \* sessions whose temp file exists
    data,        \* contents of the temp file, chunk by chunk
    oldTemp,     \* temp files whose mtime is before the stale cutoff
    active,      \* Manager.active: lease counts
    completing,  \* Manager.completing
    req,         \* HTTP requests in flight
    file,        \* destination files
    published    \* ghost: sessions whose bytes have been placed

row  == <<status, stamp, received, decl>>
temp == <<onDisk, data, oldTemp>>
lease == <<active, completing>>
vars == <<issued, row, temp, lease, req, file, published>>

Status == {"none", "open", "completed", "failed"}
Stamp == {"never", "fresh", "stale"}
Data == {"zero", "good", "bad"}   \* "good": the bytes the declared hash covers
Decl == [dev : Devices, path : Paths, size : Sizes, overwrite : BOOLEAN]
File == [by : Sessions \cup {"nobody", "other"}, whole : BOOLEAN, intact : BOOLEAN]

NoFile == [by |-> "nobody", whole |-> TRUE, intact |-> TRUE]
OtherFile == [by |-> "other", whole |-> TRUE, intact |-> TRUE]
Hole == [n \in Chunks |-> "zero"]

PutPC == {"body", "check", "write", "mark"}
VerifyPC == {"verify", "copy", "place", "fill", "unlink", "record", "discard", "release"}
PC == {"idle", "leave"} \cup PutPC \cup VerifyPC
Req == [pc : PC, s : Sessions, n : Chunks, d : Data, copy : BOOLEAN]

Idle == [pc |-> "idle", s |-> CHOOSE s \in Sessions : TRUE,
         n |-> CHOOSE n \in Chunks : TRUE, d |-> "zero", copy |-> FALSE]

Goto(r, pc) == req' = [req EXCEPT ![r].pc = pc]
Finish(r) == req' = [req EXCEPT ![r] = Idle]

OpenSessions == {s \in Sessions : status[s] = "open"}

(***************************************************************************)
(* The stale sweep (cleanupStaleLocked), as a function of the leases held. *)
(* "stuck" is the set of temp files whose os.Remove fails.                 *)
(***************************************************************************)
\* Variant: a row whose temp file is missing counts as fresh.
IsStaleNeedsTemp(s) ==
    \/ stamp[s] = "stale"
    \/ stamp[s] = "never" /\ s \in oldTemp

IsStale(s) ==
    \/ stamp[s] = "stale"
    \/ stamp[s] = "never" /\ (s \notin onDisk \/ s \in oldTemp)

\* Variant: the sweep does not look at the leases.
StaleIgnoringLeases(act) == {s \in OpenSessions : IsStale(s)}

Stale(act) == {s \in OpenSessions : act[s] = 0 /\ IsStale(s)}
Expired == {s \in Sessions : status[s] \in {"completed", "failed"} /\ stamp[s] = "stale"}
Swept(act) == Stale(act) \cup Expired

Orphans(act) ==
    {s \in onDisk \cap oldTemp : act[s] = 0 /\ s \notin OpenSessions \ Stale(act)}

StatusSwept(act) == [s \in Sessions |-> IF s \in Swept(act) THEN "none" ELSE status[s]]
StampSwept(act) == [s \in Sessions |-> IF s \in Swept(act) THEN "never" ELSE stamp[s]]
ReceivedSwept(act) == [s \in Sessions |-> IF s \in Swept(act) THEN {} ELSE received[s]]

ReplaceTemps(gone, new) ==
    /\ onDisk' = (onDisk \ gone) \cup new
    /\ data' = [s \in Sessions |-> IF s \in gone THEN Hole ELSE data[s]]
    /\ oldTemp' = oldTemp \ gone

SweepWith(act, stuck) ==
    /\ status' = StatusSwept(act)
    /\ stamp' = StampSwept(act)
    /\ received' = ReceivedSwept(act)
    /\ ReplaceTemps((Stale(act) \cup Orphans(act)) \ stuck, {})
    /\ UNCHANGED <<issued, decl, file, published>>

Sweep(stuck) == SweepWith(active, stuck) /\ UNCHANGED <<lease, req>>

(***************************************************************************)
(* POST /transfers.  openSession sweeps first, reserves the row within the *)
(* quotas in one INSERT, and then allocates the temp file.  A refusal (an  *)
(* existing destination, a failed sweep, a full quota, a temp file that    *)
(* cannot be allocated and whose row is given back) leaves at most the     *)
(* effect of the sweep, which is Sweep.  ~allocated is an allocation that  *)
(* failed, or a crash before it, with the row left behind.                 *)
(***************************************************************************)
Bytes(S) == MapThenSumSet(LAMBDA s : decl[s].size, S)

\* Variant: the session counts are compared after the insert.
WithinLimitsLate(d, open) ==
    LET mine == {s \in open : decl[s].dev = d.dev}
    IN  /\ Cardinality(open) <= MaxHostSessions
        /\ Bytes(open) + d.size <= MaxHostBytes
        /\ Cardinality(mine) <= MaxDeviceSessions
        /\ Bytes(mine) + d.size <= MaxDeviceBytes

WithinLimits(d, open) ==
    LET mine == {s \in open : decl[s].dev = d.dev}
    IN  /\ Cardinality(open) < MaxHostSessions
        /\ Bytes(open) + d.size <= MaxHostBytes
        /\ Cardinality(mine) < MaxDeviceSessions
        /\ Bytes(mine) + d.size <= MaxDeviceBytes

Exists(p) == file[p].by # "nobody"

OpenSession(s, d, allocated) ==
    /\ s \notin issued
    /\ d.overwrite \/ ~Exists(d.path)
    /\ WithinLimits(d, OpenSessions \ Stale(active))
    /\ issued' = issued \cup {s}
    /\ status' = [StatusSwept(active) EXCEPT ![s] = "open"]
    /\ stamp' = StampSwept(active)
    /\ received' = ReceivedSwept(active)
    /\ decl' = [decl EXCEPT ![s] = d]
    /\ ReplaceTemps(Stale(active) \cup Orphans(active), {t \in {s} : allocated})
    /\ UNCHANGED <<lease, req, file, published>>

DeleteRow(s) ==
    /\ status' = [status EXCEPT ![s] = "none"]
    /\ stamp' = [stamp EXCEPT ![s] = "never"]
    /\ received' = [received EXCEPT ![s] = {}]
    /\ UNCHANGED decl

\* SetTransferStatus; when it fails the row is deleted, and when that fails
\* too the row stays open.
SetStatus(s, final) ==
    \/ /\ status' = [status EXCEPT ![s] = final]
       /\ stamp' = [stamp EXCEPT ![s] = "fresh"]
       /\ UNCHANGED <<received, decl>>
    \/ DeleteRow(s)
    \/ UNCHANGED row

(***************************************************************************)
(* Leases.  beginActivity refuses a session that is completing, touches    *)
(* updated_at and counts the lease; beginCompletion needs the session to   *)
(* itself.                                                                 *)
(***************************************************************************)
Touch(s) == stamp' = [stamp EXCEPT ![s] = "fresh"]

\* Variant: a lease is granted beside a completion.
BeginActivityAnytime(s) ==
    /\ status[s] = "open"
    /\ Touch(s)
    /\ active' = [active EXCEPT ![s] = @ + 1]
    /\ UNCHANGED completing

BeginActivity(s) ==
    /\ status[s] = "open"
    /\ s \notin completing
    /\ Touch(s)
    /\ active' = [active EXCEPT ![s] = @ + 1]
    /\ UNCHANGED completing

\* Variant: a release that runs twice (no sync.Once, no floor).
EndActivityTwice(s) ==
    /\ active' = [active EXCEPT ![s] = @ - 2]
    /\ UNCHANGED completing

EndActivity(s) ==
    /\ active' = [active EXCEPT ![s] = IF @ <= 1 THEN 0 ELSE @ - 1]
    /\ UNCHANGED completing

\* Variant: completion does not wait for the chunk writes in flight.
BeginCompletionEarly(s) ==
    /\ status[s] = "open"
    /\ s \notin completing
    /\ Touch(s)
    /\ active' = [active EXCEPT ![s] = 1]
    /\ completing' = completing \cup {s}

BeginCompletion(s) ==
    /\ status[s] = "open"
    /\ active[s] = 0
    /\ s \notin completing
    /\ Touch(s)
    /\ active' = [active EXCEPT ![s] = 1]
    /\ completing' = completing \cup {s}

\* Variant: the completing flag is not cleared.
EndCompletionKeepsFlag(s) ==
    /\ active' = [active EXCEPT ![s] = 0]
    /\ UNCHANGED completing

EndCompletion(s) ==
    /\ active' = [active EXCEPT ![s] = 0]
    /\ completing' = completing \ {s}

(***************************************************************************)
(* PUT /transfers/{id}/chunks/{n}.  The handler takes a lease before it    *)
(* reads the body; WriteChunk takes a second one, nested in the first.     *)
(* d is what the body holds: the declared bytes ("good") or others that    *)
(* match their own X-Chunk-Sha256 ("bad").                                 *)
(***************************************************************************)
PutBegin(r, s, n, d) ==
    /\ req[r].pc = "idle"
    /\ BeginActivity(s)
    /\ req' = [req EXCEPT ![r] = [pc |-> "body", s |-> s, n |-> n, d |-> d, copy |-> FALSE]]
    /\ UNCHANGED <<issued, status, received, decl, temp, file, published>>

\* No room in the chunk budget, a body that cannot be read or is too long.
PutRefused(r) ==
    /\ req[r].pc = "body"
    /\ EndActivity(req[r].s)
    /\ Finish(r)
    /\ UNCHANGED <<issued, row, temp, file, published>>

PutLease(r) ==
    /\ req[r].pc = "body"
    /\ BeginActivity(req[r].s)
    /\ Goto(r, "check")
    /\ UNCHANGED <<issued, status, received, decl, temp, file, published>>

\* Variant: a chunk that is already recorded is written again.
PutCheckRewrites(r, accepted) ==
    LET s == req[r].s
    IN  /\ req[r].pc = "check"
        /\ IF accepted /\ status[s] = "open"
           THEN Goto(r, "write") /\ UNCHANGED lease
           ELSE Goto(r, "leave") /\ EndActivity(s)
        /\ UNCHANGED <<issued, row, temp, file, published>>

\* Variant: the chunk is recorded before it is written.
PutCheckRecords(r, accepted) ==
    LET s == req[r].s
    IN  /\ req[r].pc = "check"
        /\ IF accepted /\ status[s] = "open" /\ req[r].n \notin received[s]
           THEN /\ Goto(r, "write")
                /\ received' = [received EXCEPT ![s] = @ \cup {req[r].n}]
                /\ UNCHANGED lease
           ELSE Goto(r, "leave") /\ EndActivity(s) /\ UNCHANGED received
        /\ UNCHANGED <<issued, status, stamp, decl, temp, file, published>>

\* A chunk already recorded is answered without writing (accepted = FALSE
\* also stands for a wrong index, length or chunk hash).
PutCheck(r, accepted) ==
    LET s == req[r].s
    IN  /\ req[r].pc = "check"
        /\ IF accepted /\ status[s] = "open" /\ req[r].n \notin received[s]
           THEN Goto(r, "write") /\ UNCHANGED lease
           ELSE Goto(r, "leave") /\ EndActivity(s)
        /\ UNCHANGED <<issued, row, temp, file, published>>

\* OpenFile and WriteAt; a failed WriteAt leaves the chunk torn.
PutWrite(r, torn) ==
    LET s == req[r].s
    IN  /\ req[r].pc = "write"
        /\ IF s \notin onDisk
           THEN UNCHANGED temp
           ELSE /\ data' = [data EXCEPT ![s][req[r].n] = IF torn THEN "bad" ELSE req[r].d]
                /\ oldTemp' = oldTemp \ {s}
                /\ UNCHANGED onDisk
        /\ IF s \in onDisk /\ ~torn
           THEN Goto(r, "mark") /\ UNCHANGED lease
           ELSE Goto(r, "leave") /\ EndActivity(s)
        /\ UNCHANGED <<issued, row, file, published>>

\* MarkChunkReceived (stored = FALSE: the transaction failed), then
\* WriteChunk gives its lease back.
PutMark(r, stored) ==
    LET s == req[r].s
    IN  /\ req[r].pc = "mark"
        /\ IF stored /\ status[s] # "none"
           THEN /\ received' = [received EXCEPT ![s] = @ \cup {req[r].n}]
                /\ Touch(s)
           ELSE UNCHANGED <<received, stamp>>
        /\ EndActivity(s)
        /\ Goto(r, "leave")
        /\ UNCHANGED <<issued, status, decl, temp, file, published>>

\* The deferred release of the chunk handler, and of Status.
Leave(r) ==
    /\ req[r].pc = "leave"
    /\ EndActivity(req[r].s)
    /\ Finish(r)
    /\ UNCHANGED <<issued, row, temp, file, published>>

\* GET /transfers/{id} of an open session; a finished one takes no lease.
StatusBegin(r, s) ==
    /\ req[r].pc = "idle"
    /\ BeginActivity(s)
    /\ req' = [req EXCEPT ![r] = [Idle EXCEPT !.pc = "leave", !.s = s]]
    /\ UNCHANGED <<issued, status, received, decl, temp, file, published>>

(***************************************************************************)
(* POST /transfers/{id}/complete.                                          *)
(***************************************************************************)
CompleteBegin(r, s) ==
    /\ req[r].pc = "idle"
    /\ BeginCompletion(s)
    /\ req' = [req EXCEPT ![r] = [Idle EXCEPT !.pc = "verify", !.s = s]]
    /\ UNCHANGED <<issued, status, received, decl, temp, file, published>>

AllGood(s) == \A n \in Chunks : data[s][n] = "good"

\* Missing chunks or a missing temp file: the session stays open.
CompleteIncomplete(r) ==
    LET s == req[r].s
    IN  /\ req[r].pc = "verify"
        /\ Cardinality(received[s]) < Cardinality(Chunks) \/ s \notin onDisk
        /\ Goto(r, "release")
        /\ UNCHANGED <<issued, row, temp, lease, file, published>>

\* The whole-file hash: a mismatch ends the session.
Complete(r) ==
    LET s == req[r].s
    IN  /\ req[r].pc = "verify"
        /\ Cardinality(received[s]) >= Cardinality(Chunks)
        /\ s \in onDisk
        /\ IF AllGood(s)
           THEN Goto(r, "copy") /\ UNCHANGED row
           ELSE Goto(r, "discard") /\ SetStatus(s, "failed")
        /\ UNCHANGED <<issued, temp, lease, file, published>>

\* PublishReader streams the temp file, through the handle that was hashed,
\* into a hidden file beside the destination.
PublishCopy(r) ==
    /\ req[r].pc = "copy"
    /\ req' = [req EXCEPT ![r].pc = "place", ![r].copy = AllGood(req[r].s)]
    /\ UNCHANGED <<issued, row, temp, lease, file, published>>

\* A read-only or forbidden destination, an I/O error: the session stays open.
PublishError(r) ==
    /\ req[r].pc \in {"copy", "place"}
    /\ Goto(r, "release")
    /\ UNCHANGED <<issued, row, temp, lease, file, published>>

\* Variant: the destination check made when the session was opened is trusted.
PublishPlaceTrusting(r) ==
    LET s == req[r].s
    IN  /\ req[r].pc = "place"
        /\ file' = [file EXCEPT ![decl[s].path] = [by |-> s, whole |-> TRUE, intact |-> req[r].copy]]
        /\ published' = published \cup {s}
        /\ Goto(r, "unlink")
        /\ UNCHANGED <<issued, row, temp, lease>>

\* rename(2) with overwrite, link(2) without: atomic either way.  Where link
\* is not supported, an O_EXCL copy first claims the name.
PublishPlace(r) ==
    LET s == req[r].s
        p == decl[s].path
        New(whole) == [by |-> s, whole |-> whole, intact |-> req[r].copy]
    IN  /\ req[r].pc = "place"
        /\ IF ~decl[s].overwrite /\ Exists(p)
           THEN Goto(r, "release") /\ UNCHANGED <<file, published>>
           ELSE IF decl[s].overwrite \/ HardLinks
           THEN /\ file' = [file EXCEPT ![p] = New(TRUE)]
                /\ published' = published \cup {s}
                /\ Goto(r, "unlink")
           ELSE /\ file' = [file EXCEPT ![p] = New(FALSE)]
                /\ Goto(r, "fill")
                /\ UNCHANGED published
        /\ UNCHANGED <<issued, row, temp, lease>>

\* copyNoReplaceRooted writes through its own descriptor, so a file that has
\* replaced its own is not written; its cleanup removes by name.
PublishFill(r, ok) ==
    LET s == req[r].s
        p == decl[s].path
    IN  /\ req[r].pc = "fill"
        /\ IF ok
           THEN /\ file' = IF file[p].by = s THEN [file EXCEPT ![p].whole = TRUE] ELSE file
                /\ published' = published \cup {s}
                /\ Goto(r, "unlink")
           ELSE /\ file' = [file EXCEPT ![p] = NoFile]
                /\ Goto(r, "release")
                /\ UNCHANGED published
        /\ UNCHANGED <<issued, row, temp, lease>>

\* The temp file is removed after publishing or after a hash mismatch; a
\* failed removal is only logged.
CompleteUnlink(r, removed) ==
    /\ req[r].pc \in {"unlink", "discard"}
    /\ ReplaceTemps({s \in {req[r].s} : removed}, {})
    /\ Goto(r, IF req[r].pc = "unlink" THEN "record" ELSE "release")
    /\ UNCHANGED <<issued, row, lease, file, published>>

CompleteRecord(r) ==
    /\ req[r].pc = "record"
    /\ SetStatus(req[r].s, "completed")
    /\ Goto(r, "release")
    /\ UNCHANGED <<issued, temp, lease, file, published>>

CompleteRelease(r) ==
    /\ req[r].pc = "release"
    /\ EndCompletion(req[r].s)
    /\ Finish(r)
    /\ UNCHANGED <<issued, row, temp, file, published>>

(***************************************************************************)
(* DELETE /transfers/{id}, time, the outside world, restart.               *)
(***************************************************************************)
DeleteSession(s, removed) ==
    /\ active[s] = 0
    /\ status[s] # "none"
    /\ DeleteRow(s)
    /\ ReplaceTemps({t \in {s} : removed}, {})
    /\ UNCHANGED <<issued, lease, req, file, published>>

\* A week (for a finished row, the history retention) passes without s being
\* touched.
Age(s) ==
    /\ stamp[s] = "fresh" \/ s \in onDisk \ oldTemp
    /\ stamp' = [stamp EXCEPT ![s] = IF @ = "fresh" THEN "stale" ELSE @]
    /\ oldTemp' = oldTemp \cup ({s} \cap onDisk)
    /\ UNCHANGED <<issued, status, received, decl, onDisk, data, lease, req, file, published>>

\* Another handler or another program creates, replaces or removes the file.
OutsideWrite(p) ==
    /\ file' \in {[file EXCEPT ![p] = f] : f \in {NoFile, OtherFile}}
    /\ UNCHANGED <<issued, row, temp, lease, req, published>>

\* The agent dies and starts again: leases and requests are gone, and
\* StartStaleCleanup sweeps before the server listens.
Restart(stuck) ==
    LET none == [s \in Sessions |-> 0]
    IN  /\ SweepWith(none, stuck)
        /\ active' = none
        /\ completing' = {}
        /\ req' = [r \in Reqs |-> Idle]

Init ==
    /\ issued = {}
    /\ status = [s \in Sessions |-> "none"]
    /\ stamp = [s \in Sessions |-> "never"]
    /\ received = [s \in Sessions |-> {}]
    /\ decl \in [Sessions -> {CHOOSE d \in Decl : TRUE}]
    /\ onDisk = {}
    /\ data = [s \in Sessions |-> Hole]
    /\ oldTemp = {}
    /\ active = [s \in Sessions |-> 0]
    /\ completing = {}
    /\ req = [r \in Reqs |-> Idle]
    /\ file \in [Paths -> {NoFile, OtherFile}]
    /\ published = {}

PutNext(r) ==
    \/ \E s \in Sessions, n \in Chunks, d \in {"good", "bad"} : PutBegin(r, s, n, d)
    \/ PutRefused(r)
    \/ PutLease(r)
    \/ \E accepted \in BOOLEAN : PutCheck(r, accepted)
    \/ \E torn \in BOOLEAN : PutWrite(r, torn)
    \/ \E stored \in BOOLEAN : PutMark(r, stored)

CompleteNext(r) ==
    \/ \E s \in Sessions : CompleteBegin(r, s)
    \/ CompleteIncomplete(r)
    \/ Complete(r)
    \/ PublishCopy(r)
    \/ PublishError(r)
    \/ PublishPlace(r)
    \/ \E ok \in BOOLEAN : PublishFill(r, ok)
    \/ \E removed \in BOOLEAN : CompleteUnlink(r, removed)
    \/ CompleteRecord(r)
    \/ CompleteRelease(r)

ManagerNext ==
    \/ \E s \in Sessions, d \in Decl, allocated \in BOOLEAN : OpenSession(s, d, allocated)
    \/ \E s \in Sessions, removed \in BOOLEAN : DeleteSession(s, removed)
    \/ \E stuck \in SUBSET onDisk : Sweep(stuck)

OutsideNext ==
    \/ \E s \in Sessions : Age(s)
    \/ \E p \in Paths : OutsideWrite(p)
    \/ \E stuck \in SUBSET onDisk : Restart(stuck)

Next ==
    \/ \E r \in Reqs : PutNext(r) \/ CompleteNext(r) \/ Leave(r)
    \/ \E r \in Reqs, s \in Sessions : StatusBegin(r, s)
    \/ ManagerNext
    \/ OutsideNext

Spec == Init /\ [][Next]_vars

(***************************************************************************)
(* Fairness: the hourly ticker keeps sweeping and os.Remove does not fail  *)
(* for ever; time passes; a handler that has started runs to its end (its  *)
(* body read is bounded by the server's timeouts).                         *)
(***************************************************************************)
Step(r) ==
    \/ PutRefused(r) \/ PutLease(r) \/ CompleteIncomplete(r) \/ Complete(r)
    \/ PublishCopy(r) \/ PublishPlace(r) \/ CompleteRecord(r) \/ CompleteRelease(r) \/ Leave(r)
    \/ \E ok \in BOOLEAN :
         PutCheck(r, ok) \/ PutWrite(r, ok) \/ PutMark(r, ok) \/ PublishFill(r, ok) \/ CompleteUnlink(r, ok)

Fairness ==
    /\ WF_vars(Sweep({}))
    /\ \A s \in Sessions : WF_vars(Age(s))
    /\ \A r \in Reqs : WF_vars(Step(r))

LiveSpec == Spec /\ Fairness

(***************************************************************************)
(* Properties.                                                             *)
(***************************************************************************)
\* The variables keep their types.
TypeOK ==
    /\ issued \subseteq Sessions
    /\ status \in [Sessions -> Status]
    /\ stamp \in [Sessions -> Stamp]
    /\ received \in [Sessions -> SUBSET Chunks]
    /\ decl \in [Sessions -> Decl]
    /\ onDisk \subseteq Sessions
    /\ data \in [Sessions -> [Chunks -> Data]]
    /\ oldTemp \subseteq onDisk
    /\ active \in [Sessions -> Nat]
    /\ completing \subseteq Sessions
    /\ req \in [Reqs -> Req]
    /\ file \in [Paths -> File]
    /\ published \subseteq Sessions

\* What an upload puts at its destination is exactly the declared bytes,
\* although complete hashes the temp file and publishes it in two passes and
\* chunk writes of the same session run outside the mutex (complete,
\* PublishReader).
PublishedIntact == \A p \in Paths : file[p].whole => file[p].intact

InUse(r) == req[r].pc # "idle"

\* A completion has the session to itself: no chunk write or status request
\* of that session is in flight beside it, and no second completion
\* (beginCompletion against beginActivity, with nested leases counted).
CompletionExclusive ==
    \A r1, r2 \in Reqs :
        /\ r1 # r2
        /\ req[r1].pc \in VerifyPC
        /\ InUse(r2)
        => req[r1].s # req[r2].s

\* While a request holds a lease, its session's row stays: neither the stale
\* sweep nor an explicit delete removes it, however old its stamp is
\* (cleanupStaleLocked, DeleteSession).
LeaseKeepsSession ==
    \A r \in Reqs :
        req[r].pc \in (PutPC \cup VerifyPC) \ {"discard", "release"} => status[req[r].s] = "open"

\* A chunk is recorded only after its bytes are in the temp file, so what
\* Status reports to a resuming client never has a hole, crashes included
\* (WriteChunk: WriteAt before MarkChunkReceived).
RecordedIsWritten ==
    \A s \in OpenSessions \cap onDisk : \A n \in received[s] : data[s][n] # "zero"

\* The recorded outcome is what happened to the destination: "completed" was
\* published, and "failed" never was, even when a crash between publishing
\* and recording made the client complete a second time.
OutcomeHonest ==
    \A s \in Sessions :
        /\ status[s] = "completed" => s \in published
        /\ status[s] = "failed" => s \notin published

\* Open sessions never exceed the host and per-device session and byte
\* quotas (CreateTransferWithinLimits).
QuotaHolds ==
    /\ Cardinality(OpenSessions) <= MaxHostSessions
    /\ Bytes(OpenSessions) <= MaxHostBytes
    /\ \A d \in Devices :
         LET mine == {s \in OpenSessions : decl[s].dev = d}
         IN  Cardinality(mine) <= MaxDeviceSessions /\ Bytes(mine) <= MaxDeviceBytes

KeepsForeignFile(r) ==
    LET s == req[r].s
        p == decl[s].path
    IN  /\ req[r].pc \in {"place", "fill"}
        /\ req'[r] # req[r]
        /\ ~decl[s].overwrite
        /\ file[p].by \notin {"nobody", s}
        => file'[p] = file[p]

\* A session opened with overwrite=false never changes a file that somebody
\* else put at its destination while the upload ran (PublishReader).
NoReplace == [][\A r \in Reqs : KeepsForeignFile(r)]_vars

\* An abandoned session gives its reservation and its temp file back: once
\* nobody uses it any more, its row is not open and its temp file is gone,
\* whatever crash or failed removal came before (the stale and orphan sweeps).
AbandonedIsReclaimed ==
    \A s \in Sessions : <>[](active[s] = 0) => <>[](status[s] # "open" /\ s \notin onDisk)
====
