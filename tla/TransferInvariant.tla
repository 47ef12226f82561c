-------------------------- MODULE TransferInvariant --------------------------
(***************************************************************************)
(* The inductive invariant behind the safety properties of TransferManager.*)
(* TLC checks it on small instances; TransferSafetyProofs proves it.       *)
(***************************************************************************)
EXTENDS TransferManager

\* The requests that hold a lease on s, and those that hold a second one
\* nested in it (WriteChunk inside the chunk handler).
Holders(s) == {r \in Reqs : InUse(r) /\ req[r].s = s}
Nested(s) == {r \in Reqs : req[r].pc \in {"check", "write", "mark"} /\ req[r].s = s}

\* Manager.active counts exactly the leases held, and Manager.completing is
\* the set of sessions some completion is working on.
LeasesCounted ==
    \A s \in Sessions :
        /\ active[s] = Cardinality(Holders(s)) + Cardinality(Nested(s))
        /\ s \in completing <=> \E r \in Reqs : req[r].pc \in VerifyPC /\ req[r].s = s

\* A session past its hash check keeps the bytes that were hashed.
VerifiedStays ==
    \A r \in Reqs :
        /\ req[r].pc \in {"copy", "place", "fill"} =>
             AllGood(req[r].s) /\ received[req[r].s] = Chunks
        /\ req[r].pc \in {"place", "fill"} => req[r].copy
        /\ req[r].pc \in {"unlink", "record"} => req[r].s \in published
        /\ req[r].pc = "fill" => ~HardLinks

\* Rows, chunk records and publications belong to issued ids only.
UnissuedIsBlank ==
    \A s \in Sessions \ issued : status[s] = "none" /\ received[s] = {} /\ s \notin published

\* A chunk write in flight carries bytes, and is recorded after they are stored.
WritesCarryBytes ==
    \A r \in Reqs :
        /\ req[r].pc \in PutPC => req[r].d # "zero"
        /\ req[r].pc = "mark" /\ req[r].s \in onDisk => data[req[r].s][req[r].n] # "zero"
        /\ req[r].pc = "write" /\ req[r].s \in published => req[r].s \notin onDisk

\* A session that is open although it was published (a crash came before the
\* status was recorded) still has the published bytes, or no temp file.
PublishedStays ==
    \A s \in published \cap onDisk \cap OpenSessions : AllGood(s) /\ received[s] = Chunks

AllIntact == \A p \in Paths : file[p].intact

\* The inductive invariant: the leases are counted exactly, so a completion is
\* alone, the row and the bytes it verified stay, and what it publishes is
\* intact (beginActivity, beginCompletion, cleanupStaleLocked, complete).
IInv ==
    /\ TypeOK
    /\ LeasesCounted
    /\ CompletionExclusive
    /\ LeaseKeepsSession
    /\ VerifiedStays
    /\ UnissuedIsBlank
    /\ WritesCarryBytes
    /\ PublishedStays
    /\ AllIntact
    /\ RecordedIsWritten
    /\ OutcomeHonest
====
