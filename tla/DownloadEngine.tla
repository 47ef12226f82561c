--------------------------- MODULE DownloadEngine ---------------------------
(***************************************************************************)
(* One download of the phone's TransferEngine (TransferEngine.kt) and the  *)
(* agent's GET /v1/content that serves it.  An attempt is a pool task that *)
(* appends the response body to <dest>.part; pause, cancel and resume come *)
(* from other threads, the process can die between any two steps, and the  *)
(* remote file can be replaced at any time.                                *)
(***************************************************************************)
EXTENDS Naturals, FiniteSets, Sequences, SequencesExt

CONSTANTS
    Versions,       \* the remote file's versions are 1..Versions
    Size,           \* blocks of each version
    MaxAttempts,    \* attempts started
    MaxCrashes      \* process deaths

ASSUME EngineAssumption ==
    /\ Versions \in Nat \ {0}
    /\ MaxAttempts \in Nat \ {0}
    /\ MaxCrashes \in Nat
    /\ Size \in [1..Versions -> Nat \ {0}]

Attempts == 1..MaxAttempts

VARIABLES
    rec,        \* records[id]: state and validator (0: null)
    journal,    \* <id>.json
    cur,        \* attempts[id], 0 when absent
    started,    \* attempts submitted so far
    stop,       \* Attempt.stop
    interrupted,
    pc,         \* where run(id, attempt) is
    w,          \* its locals
    part,       \* inode at <dest>.part, 0 when absent
    content,    \* blocks of each inode
    stopper,    \* a stop(id, reason) in flight on another thread
    remote,     \* current version of the remote file
    crashes,
    delivered,  \* the file the last finished attempt left, and whether its length was stated
    torn,       \* the process died between a new validator and the truncation
    raced       \* a stop wrote back a record that an attempt had taken over

worker == <<stop, interrupted, pc, w>>
files == <<part, content>>
ghosts == <<torn, raced>>
shared == <<cur, started, stopper, remote, crashes, delivered, ghosts>>
vars == <<rec, journal, cur, started, worker, files, stopper, remote, crashes, delivered, ghosts>>

None == [state |-> "NONE", validator |-> 0]
NoStop == [at |-> "idle", reason |-> "PAUSED", seen |-> None]
Fresh == [validator |-> 0, ver |-> 1, next |-> 1, append |-> FALSE, plain |-> TRUE, fd |-> 0]
NoFile == [blocks |-> <<>>, plain |-> TRUE]
Busy == {"RUNNING", "QUEUED"}
Alive(a) == pc[a] \notin {"off", "queued"}

Init ==
    /\ rec = None /\ journal = None
    /\ cur = 0 /\ started = 0
    /\ stop = [a \in Attempts |-> "no"]
    /\ interrupted = {}
    /\ pc = [a \in Attempts |-> "off"]
    /\ w = [a \in Attempts |-> Fresh]
    /\ part = 0
    /\ content = [a \in Attempts |-> <<>>]
    /\ stopper = NoStop
    /\ remote = 1
    /\ crashes = 0
    /\ delivered = NoFile
    /\ torn = FALSE /\ raced = FALSE

\* update: the map, then the journal.
Update(r) == rec' = r /\ journal' = r

\* submit: a new Attempt replaces the current one and goes to the pool.
Submit(p) ==
    /\ started < MaxAttempts
    /\ started' = started + 1
    /\ cur' = started + 1
    /\ pc' = [p EXCEPT ![started + 1] = "queued"]

Go(a, l) == pc' = [pc EXCEPT ![a] = l]

\* The attempt is over and its stream is closed.
Ends(a) ==
    /\ Go(a, "off")
    /\ stop' = [stop EXCEPT ![a] = "no"]
    /\ interrupted' = interrupted \ {a}
    /\ w' = [w EXCEPT ![a] = Fresh]

\* Inodes that no name and no stream refers to are freed.
Linked(p, l) == [i \in Attempts |-> IF i = p \/ \E a \in Attempts : l[a].fd = i THEN content[i] ELSE <<>>]

\* What is in a file, nothing when there is none.
Bytes(i) == IF i = 0 THEN <<>> ELSE content[i]
PartLen == Len(Bytes(part))

\* cancel runs on the module's queue, with enqueue, resume and remove.
QueueFree == stopper.at = "idle" \/ stopper.reason = "PAUSED"


\* A new record under an id that no live transfer has.
Enqueue ==
    /\ QueueFree
    /\ rec.state \notin Busy
    /\ Update([state |-> "QUEUED", validator |-> 0])
    /\ Submit(pc)
    /\ delivered' = NoFile
    /\ UNCHANGED <<stop, interrupted, w, files, stopper, remote, crashes, ghosts>>

Resume ==
    /\ QueueFree
    /\ rec.state \in {"PAUSED", "FAILED"}
    /\ Update([rec EXCEPT !.state = "QUEUED"])
    /\ Submit(pc)
    /\ UNCHANGED <<stop, interrupted, w, files, stopper, remote, crashes, delivered, ghosts>>

RemoveRecord ==
    /\ QueueFree
    /\ rec.state \notin Busy \cup {"NONE"}
    /\ rec' = None /\ journal' = None
    /\ cur' = 0
    /\ part' = IF rec.state = "DONE" THEN part ELSE 0
    /\ content' = Linked(part', w)
    /\ UNCHANGED <<started, worker, stopper, remote, crashes, delivered, ghosts>>

\* stop(id, reason) reads the record ...
StopReads ==
    /\ stopper.at = "idle"
    /\ rec.state \notin {"NONE", "DONE"}
    /\ \E reason \in {"PAUSED", "CANCELLED"} :
           stopper' = [at |-> "signal", reason |-> reason, seen |-> rec]
    /\ UNCHANGED <<rec, journal, cur, started, worker, files, remote, crashes, delivered, ghosts>>

\* cancel of a finished transfer: stop returns at once, dropPartial does not.
CancelDone ==
    /\ stopper.at = "idle"
    /\ rec.state = "DONE"
    /\ part' = 0
    /\ content' = Linked(0, w)
    /\ UNCHANGED <<rec, journal, worker, shared>>

\* ... marks the current attempt, cancels its call and its future ...
StopSignals ==
    /\ stopper.at = "signal"
    /\ stopper' = [stopper EXCEPT !.at = "record"]
    /\ IF cur = 0 \/ pc[cur] = "off"
       THEN UNCHANGED <<stop, interrupted, pc>>
       ELSE IF pc[cur] = "queued"
       THEN Go(cur, "off") /\ UNCHANGED <<stop, interrupted>>
       ELSE /\ stop' = [stop EXCEPT ![cur] = stopper.reason]
            /\ interrupted' = interrupted \cup {cur}
            /\ UNCHANGED pc
    /\ UNCHANGED <<rec, journal, cur, started, w, files, remote, crashes, delivered, ghosts>>

\* ... and records the outcome unless a worker is there to do it; cancel
\* then drops the partial file.
StopRecords ==
    /\ stopper.at = "record"
    /\ stopper' = NoStop
    /\ IF stopper.seen.state = "RUNNING"
       THEN UNCHANGED <<rec, journal, raced>>
       ELSE /\ Update([stopper.seen EXCEPT !.state = stopper.reason])
            /\ raced' = (raced \/ rec # stopper.seen \/ \E a \in Attempts : pc[a] # "off")
    /\ part' = IF stopper.reason = "CANCELLED" /\ rec'.state # "NONE" THEN 0 ELSE part
    /\ content' = Linked(part', w)
    /\ UNCHANGED <<cur, started, worker, remote, crashes, delivered, torn>>

\* run: a stopped attempt, or one whose record is gone, returns at once.
Begin(a) ==
    /\ pc[a] = "queued"
    /\ IF rec = None
       THEN Go(a, "off") /\ UNCHANGED w
       ELSE /\ Go(a, "start")
            /\ w' = [w EXCEPT ![a].validator = rec.validator]
    /\ UNCHANGED <<rec, journal, stop, interrupted, files, shared>>

SetRunning(a) ==
    /\ pc[a] = "start"
    /\ Go(a, "prepare")
    /\ Update([state |-> "RUNNING", validator |-> w[a].validator])
    /\ UNCHANGED <<stop, interrupted, w, files, shared>>

\* Variant: the offset is one short.
PrepareShort(a) ==
    /\ pc[a] = "prepare"
    /\ Go(a, "execute")
    /\ w' = [w EXCEPT ![a].next = PartLen]
    /\ UNCHANGED <<rec, journal, stop, interrupted, files, shared>>

\* A partial file is continued only when its version is known.
Prepare(a) ==
    /\ pc[a] = "prepare"
    /\ Go(a, "execute")
    /\ IF PartLen > 0 /\ w[a].validator = 0
       THEN part' = 0 /\ UNCHANGED w
       ELSE w' = [w EXCEPT ![a].next = PartLen + 1] /\ UNCHANGED part
    /\ content' = Linked(part', w)
    /\ UNCHANGED <<rec, journal, stop, interrupted, shared>>

\* The agent's answer.  Without a Range header it may be compressed: then it
\* states neither a length nor a Last-Modified.
Execute(a) ==
    /\ pc[a] = "execute" /\ a \notin interrupted
    /\ LET offset == w[a].next - 1
           match == offset > 0 /\ w[a].validator = remote
       IN  \/ /\ match /\ offset >= Size[remote]          \* 416
              /\ started < MaxAttempts
              /\ part' = 0
              /\ Go(a, "restart")
              /\ UNCHANGED w
           \/ /\ match /\ offset < Size[remote]           \* 206
              /\ w' = [w EXCEPT ![a].ver = remote, ![a].append = TRUE]
              /\ Go(a, "open")
              /\ UNCHANGED part
           \/ /\ ~match                                    \* 200
              /\ \E plain \in BOOLEAN :
                     /\ offset > 0 => plain
                     /\ w' = [w EXCEPT ![a].ver = remote, ![a].next = 1, ![a].plain = plain]
              /\ Go(a, "changed")
              /\ UNCHANGED part
    /\ content' = Linked(part', w)
    /\ UNCHANGED <<rec, journal, stop, interrupted, shared>>

\* No answer, a refusal, a broken connection, a full disk or a stop.
Fails(a) ==
    /\ pc[a] \in {"execute", "copy"}
    /\ Go(a, "failing")
    /\ UNCHANGED <<rec, journal, stop, interrupted, w, files, shared>>


\* A whole file begins: its validator is recorded before the truncation.
NewValidator(a) ==
    /\ pc[a] = "changed"
    /\ Go(a, "open")
    /\ LET v == IF w[a].plain THEN w[a].ver ELSE 0
       IN  /\ w' = [w EXCEPT ![a].validator = v]
           /\ Update([state |-> "RUNNING", validator |-> v])
    /\ UNCHANGED <<stop, interrupted, files, shared>>

\* FileOutputStream(part, resumed) creates or truncates.
Open(a) ==
    /\ pc[a] = "open"
    /\ Go(a, "copy")
    /\ part' = IF part = 0 THEN a ELSE part
    /\ content' = IF w[a].append THEN content ELSE [content EXCEPT ![part'] = <<>>]
    /\ w' = [w EXCEPT ![a].fd = part']
    /\ UNCHANGED <<rec, journal, stop, interrupted, shared>>

Stopped(a) == a \in interrupted \/ stop[a] # "no"

\* The blocks of a file after a write at place i; a gap reads as zeros.
PutAt(s, i, b) ==
    [j \in 1..(IF i > Len(s) THEN i ELSE Len(s)) |->
        IF j = i THEN b ELSE IF j <= Len(s) THEN s[j] ELSE <<0, 0>>]

\* One block of the body, and now and then a progress record.
WriteBlock(a) ==
    /\ pc[a] = "copy" /\ ~Stopped(a)
    /\ w[a].next <= Size[w[a].ver]
    /\ LET old == content[w[a].fd]
           at == IF w[a].append THEN Len(old) + 1 ELSE w[a].next
       IN  content' = [content EXCEPT ![w[a].fd] = PutAt(old, at, <<w[a].ver, w[a].next>>)]
    /\ w' = [w EXCEPT ![a].next = @ + 1]
    /\ \/ UNCHANGED <<rec, journal>>
       \/ cur = a /\ Update([state |-> "RUNNING", validator |-> w[a].validator])
    /\ UNCHANGED <<stop, interrupted, pc, part, shared>>

\* The end of the body.  A compressed body also ends well-formed when the
\* agent could not read the rest of its file.
EndOfBody(a) ==
    /\ pc[a] = "copy" /\ ~Stopped(a)
    /\ w[a].next > Size[w[a].ver] \/ ~w[a].plain
    /\ Go(a, "check")
    /\ UNCHANGED <<rec, journal, stop, interrupted, w, files, shared>>

\* The stated length, then whether the attempt still counts.
Check(a) ==
    /\ pc[a] = "check"
    /\ Go(a, IF \/ w[a].plain /\ PartLen # Size[w[a].ver]
                \/ stop[a] # "no" \/ cur # a
             THEN "failing" ELSE "rename")
    /\ UNCHANGED <<rec, journal, stop, interrupted, w, files, shared>>


\* dest is replaced; renameTo fails when a cancel has dropped the file.
Rename(a) ==
    /\ pc[a] = "rename"
    /\ Go(a, IF part = 0 THEN "failing" ELSE "publish")
    /\ w' = [w EXCEPT ![a].fd = part]
    /\ part' = 0
    /\ UNCHANGED <<rec, journal, stop, interrupted, content, shared>>

\* The publisher's copy, when it succeeds, replaces the file.
Finish(a) ==
    /\ pc[a] = "publish"
    /\ Ends(a)
    /\ delivered' = [blocks |-> Bytes(w[a].fd), plain |-> w[a].plain]
    /\ content' = Linked(part, w')
    /\ Update([state |-> "DONE", validator |-> w[a].validator])
    /\ UNCHANGED <<cur, started, part, stopper, remote, crashes, ghosts>>

\* The catch clause: a replaced attempt leaves the record alone.
Catch(a) ==
    /\ pc[a] = "failing"
    /\ Ends(a)
    /\ content' = Linked(part, w')
    /\ IF cur # a \/ rec = None
       THEN UNCHANGED <<rec, journal>>
       ELSE Update([rec EXCEPT !.state =
                IF stop[a] # "no" THEN stop[a] ELSE IF a \in interrupted THEN "PAUSED" ELSE "FAILED"])
    /\ UNCHANGED <<part, shared>>

\* RestartFromZero: the record stays as it is.
Restart(a) ==
    /\ pc[a] = "restart"
    /\ IF cur = a
       THEN Submit([pc EXCEPT ![a] = "off"])
       ELSE Go(a, "off") /\ UNCHANGED <<cur, started>>
    /\ stop' = [stop EXCEPT ![a] = "no"]
    /\ interrupted' = interrupted \ {a}
    /\ w' = [w EXCEPT ![a] = Fresh]
    /\ UNCHANGED <<rec, journal, files, stopper, remote, crashes, delivered, ghosts>>

\* The process dies; the next one reads the journal.
Crash ==
    /\ crashes < MaxCrashes
    /\ crashes' = crashes + 1
    /\ rec' = IF journal.state \in Busy THEN [journal EXCEPT !.state = "PAUSED"] ELSE journal
    /\ journal' = rec'
    /\ cur' = 0
    /\ pc' = [a \in Attempts |-> "off"]
    /\ stopper' = NoStop
    /\ torn' = (torn \/ \E a \in Attempts : pc[a] = "open" /\ ~w[a].append /\ part # 0)
    /\ stop' = [a \in Attempts |-> "no"] /\ interrupted' = {}
    /\ w' = [a \in Attempts |-> Fresh]
    /\ content' = Linked(part, w')
    /\ UNCHANGED <<started, part, remote, delivered, raced>>

RemoteChanges ==
    /\ remote < Versions
    /\ remote' = remote + 1
    /\ UNCHANGED <<rec, journal, cur, started, worker, files, stopper, crashes, delivered, ghosts>>

Step(a) ==
    \/ Begin(a) \/ SetRunning(a) \/ Prepare(a) \/ Execute(a) \/ Fails(a) \/ NewValidator(a)
    \/ Open(a) \/ WriteBlock(a) \/ EndOfBody(a) \/ Check(a) \/ Rename(a) \/ Finish(a)
    \/ Catch(a) \/ Restart(a)

Next ==
    \/ Enqueue \/ Resume \/ RemoveRecord \/ StopReads \/ CancelDone \/ StopSignals \/ StopRecords
    \/ \E a \in Attempts : Step(a)
    \/ Crash \/ RemoteChanges

Spec == Init /\ [][Next]_vars

(***************************************************************************)
(* Properties.                                                             *)
(***************************************************************************)
Block == (0..Versions) \X Nat

\* The variables keep their types.
TypeOK ==
    /\ {rec, journal} \subseteq
          [state : {"NONE", "QUEUED", "RUNNING", "PAUSED", "DONE", "FAILED", "CANCELLED"},
           validator : 0..Versions]
    /\ cur \in 0..started /\ started \in 0..MaxAttempts
    /\ \A a \in Attempts : w[a].validator \in 0..Versions /\ w[a].next \in Nat \ {0}
    /\ part \in 0..MaxAttempts
    /\ \A a \in Attempts : \A i \in DOMAIN content[a] : content[a][i] \in Block
    /\ remote \in 1..Versions /\ crashes \in 0..MaxCrashes

Whole(v) == [i \in 1..Size[v] |-> <<v, i>>]

\* A file that is reported DONE is one whole version of the remote file
\* (TransferEngine's integrity rule, the agent's /v1/content).
DoneIsWhole ==
    rec.state = "DONE" => \E v \in 1..Versions : delivered.blocks = Whole(v)


\* The validator is that of the response that started the partial file:
\* between attempts the file is a prefix of the version it names.
PartOfValidator ==
    rec.validator # 0 /\ part # 0 /\ (\A a \in Attempts : ~Alive(a)) =>
        IsPrefix(content[part], Whole(rec.validator))


=============================================================================
