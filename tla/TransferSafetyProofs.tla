------------------------- MODULE TransferSafetyProofs -------------------------
(***************************************************************************)
(* The inductive invariant of the upload manager and the safety theorems   *)
(* that follow from it, for every value of the constants.                  *)
(*                                                                         *)
(* The argument: Manager.active counts the leases exactly (LeaseStepKeeps),*)
(* so a completion that found the count at zero is alone, and the sweep    *)
(* and DELETE leave a session in use alone (SweepSpares).  What a          *)
(* completion hashed therefore stays what it publishes.                    *)
(***************************************************************************)
EXTENDS TransferProofs, TransferInvariant

\* Only request r moves.
OnlyReq(r) == \A q \in Reqs : q # r => req'[q] = req[q]

NestedPC == {"check", "write", "mark"}

\* What a step of request r may do to the leases of session s.
LeaseStep(r, s) ==
    \/ req[r].pc = "idle" /\ req'[r].pc \in {"body", "leave"} /\ req'[r].s = s /\ BeginActivity(s)
    \/ req[r].pc = "body" /\ req'[r].pc = "check" /\ req[r].s = s /\ req'[r].s = s /\ BeginActivity(s)
    \/ req[r].pc \in NestedPC /\ req'[r].pc = "leave" /\ req[r].s = s /\ req'[r].s = s /\ EndActivity(s)
    \/ req[r].pc \in {"body", "leave"} /\ req'[r].pc = "idle" /\ req[r].s = s /\ EndActivity(s)
    \/ req[r].pc = "idle" /\ req'[r].pc = "verify" /\ req'[r].s = s /\ BeginCompletion(s)
    \/ req[r].pc = "release" /\ req'[r].pc = "idle" /\ req[r].s = s /\ EndCompletion(s)
    \/ /\ req[r].s = s /\ req'[r].s = s /\ UNCHANGED lease
       /\ \/ req[r].pc \in NestedPC /\ req'[r].pc \in NestedPC
          \/ req[r].pc \in VerifyPC /\ req'[r].pc \in VerifyPC

\* The two releases, as steps of the leases.
LEMMA LeaseReturned ==
  ASSUME NEW r, req[r].pc \in {"body", "leave"}, req'[r].pc = "idle", EndActivity(req[r].s)
  PROVE  LeaseStep(r, req[r].s)
BY Zenon DEF LeaseStep

LEMMA CompletionReturned ==
  ASSUME NEW r, req[r].pc = "release", req'[r].pc = "idle", EndCompletion(req[r].s)
  PROVE  LeaseStep(r, req[r].s)
BY Zenon DEF LeaseStep

\* The leases request r holds on s.
Weight(r, s) ==
    (IF r \in Holders(s) THEN 1 ELSE 0) + (IF r \in Nested(s) THEN 1 ELSE 0)

LEMMA LeaseSetsFinite ==
  ASSUME NEW s \in Sessions
  PROVE  /\ IsFiniteSet(Holders(s)) /\ IsFiniteSet(Nested(s))
         /\ Cardinality(Holders(s)) \in Nat /\ Cardinality(Nested(s)) \in Nat
         /\ IsFiniteSet(Holders(s))' /\ IsFiniteSet(Nested(s))'
         /\ Cardinality(Holders(s))' \in Nat /\ Cardinality(Nested(s))' \in Nat
<1>1. /\ Holders(s) \subseteq Reqs /\ Nested(s) \subseteq Reqs
      /\ Holders(s)' \subseteq Reqs /\ Nested(s)' \subseteq Reqs
  BY DEF Holders, Nested
<1>2. IsFiniteSet(Reqs)
  BY TransferAssumption
<1>. QED  BY <1>1, <1>2, FS_Subset, FS_CardinalityType

\* Replacing one member of a finite set changes its size by at most one.
LEMMA CardMove ==
  ASSUME NEW S, NEW T, NEW r, IsFiniteSet(S), IsFiniteSet(T), \A q : q # r => (q \in S <=> q \in T)
  PROVE  Cardinality(T) + (IF r \in S THEN 1 ELSE 0) = Cardinality(S) + (IF r \in T THEN 1 ELSE 0)
<1>1. Cardinality(S) \in Nat /\ Cardinality(T) \in Nat
  BY FS_CardinalityType
<1>2. CASE r \in S /\ r \notin T
  <2>1. S = T \cup {r}
    BY <1>2
  <2>. QED  BY <1>1, <1>2, <2>1, FS_AddElement
<1>3. CASE r \notin S /\ r \in T
  <2>1. T = S \cup {r}
    BY <1>3
  <2>. QED  BY <1>1, <1>3, <2>1, FS_AddElement
<1>4. CASE r \in S <=> r \in T
  <2>1. S = T
    BY <1>4
  <2>. QED  BY <1>1, <2>1
<1>. QED  BY <1>2, <1>3, <1>4

LEMMA CountMove ==
  ASSUME TypeOK, TypeOK', NEW r \in Reqs, OnlyReq(r), NEW s \in Sessions
  PROVE  Cardinality(Holders(s))' + Cardinality(Nested(s))' + Weight(r, s)
           = Cardinality(Holders(s)) + Cardinality(Nested(s)) + Weight(r, s)'
<1>1. \A q : q # r => (q \in Holders(s) <=> q \in Holders(s)')
  BY DEF OnlyReq, Holders, InUse
<1>2. \A q : q # r => (q \in Nested(s) <=> q \in Nested(s)')
  BY DEF OnlyReq, Nested
<1>3. Cardinality(Holders(s)') + (IF r \in Holders(s) THEN 1 ELSE 0)
        = Cardinality(Holders(s)) + (IF r \in Holders(s)' THEN 1 ELSE 0)
  BY <1>1, CardMove, LeaseSetsFinite
<1>4. Cardinality(Nested(s)') + (IF r \in Nested(s) THEN 1 ELSE 0)
        = Cardinality(Nested(s)) + (IF r \in Nested(s)' THEN 1 ELSE 0)
  BY <1>2, CardMove, LeaseSetsFinite
<1>. QED  BY <1>3, <1>4, LeaseSetsFinite DEF Weight

\* Whoever holds a lease is counted.
LEMMA HeldIsActive ==
  ASSUME TypeOK, LeasesCounted, NEW r \in Reqs
  PROVE  \A s \in Sessions : active[s] \in Nat /\ active[s] >= Weight(r, s)
<1>. SUFFICES ASSUME NEW s \in Sessions PROVE active[s] \in Nat /\ active[s] >= Weight(r, s)
  OBVIOUS
<1>1. r \in Holders(s) => Cardinality(Holders(s)) >= 1
  BY LeaseSetsFinite, FS_EmptySet
<1>2. r \in Nested(s) => Cardinality(Nested(s)) >= 1
  BY LeaseSetsFinite, FS_EmptySet
<1>. QED  BY <1>1, <1>2, LeaseSetsFinite DEF LeasesCounted, Weight

\* The lease counters stay exact and completions stay alone, whatever a
\* request does (beginActivity, beginCompletion and their releases).
LEMMA LeaseStepKeeps ==
  ASSUME TypeOK, TypeOK', LeasesCounted, CompletionExclusive,
         NEW r \in Reqs, NEW s \in Sessions, OnlyReq(r), LeaseStep(r, s)
  PROVE  LeasesCounted' /\ CompletionExclusive'
<1>0. /\ req[r].pc \in PC /\ req[r].s \in Sessions
      /\ req'[r].pc \in PC /\ req'[r].s \in Sessions
  BY DEF TypeOK, Req
<1>1. \A t \in Sessions : active'[t] = Cardinality(Holders(t))' + Cardinality(Nested(t))'
  <2>. SUFFICES ASSUME NEW t \in Sessions
                PROVE  active'[t] = Cardinality(Holders(t))' + Cardinality(Nested(t))'
    OBVIOUS
  <2>1. active[t] = Cardinality(Holders(t)) + Cardinality(Nested(t))
    BY DEF LeasesCounted
  <2>2. active[t] \in Nat /\ active[t] >= Weight(r, t)
    BY HeldIsActive
  <2>3. Weight(r, t) = (IF req[r].pc # "idle" /\ req[r].s = t THEN 1 ELSE 0)
                         + (IF req[r].pc \in NestedPC /\ req[r].s = t THEN 1 ELSE 0)
    BY DEF Weight, Holders, Nested, InUse, NestedPC
  <2>4. Weight(r, t)' = (IF req'[r].pc # "idle" /\ req'[r].s = t THEN 1 ELSE 0)
                          + (IF req'[r].pc \in NestedPC /\ req'[r].s = t THEN 1 ELSE 0)
    BY DEF Weight, Holders, Nested, InUse, NestedPC
  <2>5. CASE req[r].pc = "release" /\ req'[r].pc = "idle" /\ req[r].s = s /\ EndCompletion(s)
    <3>1. CASE t = s
      <4>1. Holders(t)' = {}
        BY <2>5, <3>1 DEF CompletionExclusive, Holders, InUse, OnlyReq, VerifyPC
      <4>2. Nested(t)' = {}
        BY <4>1 DEF Holders, Nested, InUse
      <4>. QED  BY <2>5, <3>1, <4>1, <4>2, FS_EmptySet DEF EndCompletion, TypeOK
    <3>2. CASE t # s
      <4>1. Weight(r, t) = 0 /\ Weight(r, t)' = 0
        BY <2>3, <2>4, <2>5, <3>2 DEF NestedPC
      <4>2. active'[t] = active[t]
        BY <2>5, <3>2 DEF EndCompletion, TypeOK
      <4>. QED  BY <2>1, <4>1, <4>2, CountMove, LeaseSetsFinite
    <3>. QED  BY <3>1, <3>2
  <2>6. CASE ~(req[r].pc = "release" /\ req'[r].pc = "idle")
    <3>1. active'[t] + Weight(r, t) = active[t] + Weight(r, t)'
      <4>. USE <1>0, <2>2 DEF NestedPC, TypeOK
      <4>1. CASE req[r].pc = "idle" /\ req'[r].pc \in {"body", "leave"} /\ req'[r].s = s /\ BeginActivity(s)
        BY <2>3, <2>4, <4>1 DEF BeginActivity
      <4>2. CASE req[r].pc = "body" /\ req'[r].pc = "check" /\ req[r].s = s /\ req'[r].s = s /\ BeginActivity(s)
        BY <2>3, <2>4, <4>2 DEF BeginActivity
      <4>3. CASE req[r].pc \in NestedPC /\ req'[r].pc = "leave" /\ req[r].s = s /\ req'[r].s = s /\ EndActivity(s)
        BY <2>3, <2>4, <4>3 DEF EndActivity
      <4>4. CASE req[r].pc \in {"body", "leave"} /\ req'[r].pc = "idle" /\ req[r].s = s /\ EndActivity(s)
        BY <2>3, <2>4, <4>4 DEF EndActivity
      <4>5. CASE req[r].pc = "idle" /\ req'[r].pc = "verify" /\ req'[r].s = s /\ BeginCompletion(s)
        BY <2>3, <2>4, <4>5 DEF BeginCompletion
      <4>6. CASE /\ req[r].s = s /\ req'[r].s = s /\ UNCHANGED lease
                 /\ \/ req[r].pc \in NestedPC /\ req'[r].pc \in NestedPC
                    \/ req[r].pc \in VerifyPC /\ req'[r].pc \in VerifyPC
        <5>1. active' = active
          BY <4>6 DEF lease
        <5>2. Weight(r, t) = Weight(r, t)'
          BY <2>3, <2>4, <4>6 DEF VerifyPC
        <5>. QED  BY <2>3, <5>1, <5>2
      <4>. QED  BY <2>6, <4>1, <4>2, <4>3, <4>4, <4>5, <4>6 DEF LeaseStep
    <3>2. Weight(r, t) \in Nat /\ Weight(r, t)' \in Nat /\ active'[t] \in Nat
      BY <2>3, <2>4 DEF TypeOK
    <3>. QED  BY <2>1, <3>1, <3>2, CountMove, LeaseSetsFinite
  <2>. QED  BY <2>5, <2>6 DEF LeaseStep, VerifyPC, NestedPC
<1>2. ASSUME NEW q \in Reqs, q # r, req[q].pc \in VerifyPC \/ req'[q].pc \in VerifyPC,
             req'[r].pc # "idle"
      PROVE  req'[q].s # req'[r].s
  <2>0. req'[q] = req[q] /\ req[q].pc \in VerifyPC /\ req[q].s \in Sessions
    BY <1>2 DEF OnlyReq, TypeOK, Req
  <2>1. req[q].s \in completing
    BY <2>0 DEF LeasesCounted
  <2>2. active[req[q].s] > 0
    <3>1. Weight(q, req[q].s) >= 1
      BY <2>0 DEF Weight, Holders, InUse, VerifyPC
    <3>. QED  BY <2>0, <3>1, HeldIsActive DEF Weight
  <2>3. CASE req[r].pc = "idle"
    BY <1>2, <2>0, <2>1, <2>2, <2>3 DEF LeaseStep, BeginActivity, BeginCompletion, NestedPC, VerifyPC
  <2>4. CASE req[r].pc # "idle"
    <3>1. req[q].s # req[r].s
      BY <1>2, <2>0, <2>4 DEF CompletionExclusive, InUse
    <3>. QED  BY <1>2, <2>0, <2>4, <3>1 DEF LeaseStep
  <2>. QED  BY <2>3, <2>4
<1>3. ASSUME NEW q \in Reqs, q # r, req'[q].pc # "idle", req'[r].pc \in VerifyPC
      PROVE  req'[q].s # req'[r].s
  <2>0. req'[q] = req[q] /\ req[q].s \in Sessions
    BY <1>3 DEF OnlyReq, TypeOK, Req
  <2>1. CASE req[r].pc = "idle"
    <3>1. active[req'[r].s] = 0
      BY <1>3, <2>1 DEF LeaseStep, BeginCompletion, NestedPC, VerifyPC
    <3>2. Weight(q, req[q].s) >= 1
      BY <1>3, <2>0 DEF Weight, Holders, InUse
    <3>3. active[req[q].s] > 0
      BY <2>0, <3>2, HeldIsActive DEF Weight
    <3>. QED  BY <2>0, <3>1, <3>3
  <2>2. CASE req[r].pc # "idle"
    <3>1. req[r].pc \in VerifyPC /\ req'[r].s = req[r].s
      BY <1>3, <2>2 DEF LeaseStep, VerifyPC, NestedPC
    <3>. QED  BY <1>3, <2>0, <3>1 DEF CompletionExclusive, InUse
  <2>. QED  BY <2>1, <2>2
<1>4. CompletionExclusive'
  <2>. SUFFICES ASSUME NEW r1 \in Reqs, NEW r2 \in Reqs, r1 # r2, req'[r1].pc \in VerifyPC, req'[r2].pc # "idle"
                PROVE  req'[r1].s # req'[r2].s
    BY DEF CompletionExclusive, InUse
  <2>1. CASE r1 = r
    BY <1>3, <2>1
  <2>2. CASE r2 = r
    BY <1>2, <2>2
  <2>3. CASE r1 # r /\ r2 # r
    BY <2>3 DEF CompletionExclusive, InUse, OnlyReq
  <2>. QED  BY <2>1, <2>2, <2>3
<1>5. ASSUME NEW t \in Sessions
      PROVE  t \in completing' <=> \E q \in Reqs : req'[q].pc \in VerifyPC /\ req'[q].s = t
  <2>1. t \in completing <=> \E q \in Reqs : req[q].pc \in VerifyPC /\ req[q].s = t
    BY DEF LeasesCounted
  <2>2. ASSUME req[r].pc \in VerifyPC /\ req[r].s = t
        PROVE  \A q \in Reqs : q # r => ~(req[q].pc \in VerifyPC /\ req[q].s = t)
    BY <2>2 DEF CompletionExclusive, InUse, VerifyPC
  <2>3. \A q \in Reqs : q # r => req'[q] = req[q]
    BY DEF OnlyReq
  <2>. DEFINE V(q) == req[q].pc \in VerifyPC /\ req[q].s = t
              W(q) == req'[q].pc \in VerifyPC /\ req'[q].s = t
  <2>4. CASE req[r].pc = "idle" /\ req'[r].pc = "verify" /\ req'[r].s = s /\ BeginCompletion(s)
    BY <2>1, <2>3, <2>4 DEF BeginCompletion, VerifyPC
  <2>5. CASE req[r].pc = "release" /\ req'[r].pc = "idle" /\ req[r].s = s /\ EndCompletion(s)
    BY <2>1, <2>2, <2>3, <2>5 DEF EndCompletion, VerifyPC
  <2>6. CASE completing' = completing /\ (V(r) <=> W(r))
    BY <2>1, <2>3, <2>6
  <2>7. \/ completing' = completing /\ (V(r) <=> W(r))
        \/ req[r].pc = "idle" /\ req'[r].pc = "verify" /\ req'[r].s = s /\ BeginCompletion(s)
        \/ req[r].pc = "release" /\ req'[r].pc = "idle" /\ req[r].s = s /\ EndCompletion(s)
    BY DEF LeaseStep, BeginActivity, EndActivity, lease, NestedPC, VerifyPC
  <2>. QED  BY <2>4, <2>5, <2>6, <2>7
<1>. QED  BY <1>1, <1>4, <1>5 DEF LeasesCounted

\* The part of the invariant that speaks of one request.
ReqOK(r) ==
    /\ req[r].pc \in (PutPC \cup VerifyPC) \ {"discard", "release"} => status[req[r].s] = "open"
    /\ req[r].pc \in {"copy", "place", "fill"} => AllGood(req[r].s) /\ received[req[r].s] = Chunks
    /\ req[r].pc \in {"place", "fill"} => req[r].copy
    /\ req[r].pc \in {"unlink", "record"} => req[r].s \in published
    /\ req[r].pc = "fill" => ~HardLinks
    /\ req[r].pc \in PutPC => req[r].d # "zero"
    /\ req[r].pc = "mark" /\ req[r].s \in onDisk => data[req[r].s][req[r].n] # "zero"
    /\ req[r].pc = "write" /\ req[r].s \in published => req[r].s \notin onDisk

\* A request that is over, or only has to release, is bound by nothing.
LEMMA RestIsOK ==
  ASSUME NEW r, req'[r].pc \in {"idle", "release"}
  PROVE  ReqOK(r)'
BY DEF ReqOK, PutPC, VerifyPC

\* The part that speaks of rows, temp files and destinations.
StoreOK == UnissuedIsBlank /\ PublishedStays /\ AllIntact /\ RecordedIsWritten /\ OutcomeHonest

\* The invariant in the form the proofs use.
LEMMA IInvParts ==
  IInv <=> /\ TypeOK /\ LeasesCounted /\ CompletionExclusive
           /\ (\A r \in Reqs : ReqOK(r))
           /\ StoreOK
<1>1. (\A r \in Reqs : ReqOK(r)) <=> LeaseKeepsSession /\ VerifiedStays /\ WritesCarryBytes
  BY DEF ReqOK, LeaseKeepsSession, VerifiedStays, WritesCarryBytes
<1>. QED  BY <1>1 DEF IInv, StoreOK

LEMMA IInvPartsNext ==
  IInv' <=> /\ TypeOK' /\ LeasesCounted' /\ CompletionExclusive'
            /\ (\A r \in Reqs : ReqOK(r)')
            /\ StoreOK'
<1>1. (\A r \in Reqs : ReqOK(r)') <=> LeaseKeepsSession' /\ VerifiedStays' /\ WritesCarryBytes'
  BY DEF ReqOK, LeaseKeepsSession, VerifiedStays, WritesCarryBytes
<1>. QED  BY <1>1 DEF IInv, StoreOK

\* A step that leaves rows, temp files and destinations alone.
LEMMA QuietStep ==
  ASSUME IInv, NEW r \in Reqs, OnlyReq(r),
         UNCHANGED <<issued, status, received, onDisk, data, file, published>>
  PROVE  (\A q \in Reqs : q # r => ReqOK(q)') /\ StoreOK'
<1>1. \A q \in Reqs : q # r => ReqOK(q)'
  <2>. SUFFICES ASSUME NEW q \in Reqs, q # r PROVE ReqOK(q)'
    OBVIOUS
  <2>1. ReqOK(q) /\ req'[q] = req[q]
    BY IInvParts DEF OnlyReq
  <2>. QED  BY <2>1 DEF ReqOK, AllGood
<1>2. StoreOK
  BY IInvParts
<1>. QED
  BY <1>1, <1>2
  DEF StoreOK, UnissuedIsBlank, PublishedStays, AllIntact, RecordedIsWritten, OutcomeHonest, OpenSessions, AllGood

\* The requests of a session that is being completed are one.
LEMMA CompletesAlone ==
  ASSUME IInv, NEW r \in Reqs, req[r].pc \in VerifyPC, NEW q \in Reqs, q # r, req[q].pc # "idle"
  PROVE  req[q].s # req[r].s
BY DEF IInv, CompletionExclusive, InUse

\* The sweep and DELETE spare a session some request is using.
LEMMA SweepSpares ==
  ASSUME IInv, NEW r \in Reqs, req[r].pc # "idle"
  PROVE  active[req[r].s] # 0 /\ req[r].s \notin Stale(active) \cup Orphans(active)
<1>1. req[r].s \in Sessions /\ TypeOK /\ LeasesCounted
  BY ReqFields DEF IInv
<1>2. Weight(r, req[r].s) >= 1
  BY <1>1 DEF Weight, Holders, InUse
<1>3. active[req[r].s] # 0
  BY <1>1, <1>2, HeldIsActive DEF Weight
<1>. QED  BY <1>3 DEF Stale, Orphans

\* Rows, temp files and destinations stay consistent through a sweep,
\* whichever leases it respects and whichever removals fail.
LEMMA SweepStore ==
  ASSUME IInv, NEW act \in [Sessions -> Nat], NEW stuck \in SUBSET onDisk, SweepWith(act, stuck)
  PROVE  StoreOK'
<1>0. TypeOK /\ StoreOK
  BY IInvParts DEF IInv
<1>1. \A s \in Sessions :
        \/ status'[s] = status[s] /\ received'[s] = received[s]
        \/ status'[s] = "none" /\ received'[s] = {}
  BY DEF SweepWith, StatusSwept, ReceivedSwept
<1>2. \A s \in Sessions : s \in onDisk' => s \in onDisk /\ data'[s] = data[s]
  BY DEF SweepWith, ReplaceTemps
<1>3. issued' = issued /\ published' = published /\ file' = file
  BY DEF SweepWith
<1>4. UnissuedIsBlank' /\ OutcomeHonest' /\ AllIntact'
  BY <1>0, <1>1, <1>3 DEF StoreOK, UnissuedIsBlank, OutcomeHonest, AllIntact
<1>5. PublishedStays'
  BY <1>0, <1>1, <1>2, <1>3 DEF StoreOK, PublishedStays, OpenSessions, AllGood
<1>6. RecordedIsWritten'
  BY <1>0, <1>1, <1>2 DEF StoreOK, RecordedIsWritten, OpenSessions
<1>. QED  BY <1>4, <1>5, <1>6 DEF StoreOK

\* Chunk uploads and status requests preserve the invariant.
LEMMA PutKeeps ==
  ASSUME IInv, TypeOK', NEW r \in Reqs,
         PutNext(r) \/ Leave(r) \/ \E s \in Sessions : StatusBegin(r, s)
  PROVE  IInv'
<1>. DEFINE sr == req[r].s
<1>0. /\ TypeOK /\ LeasesCounted /\ CompletionExclusive /\ StoreOK
      /\ \A q \in Reqs : ReqOK(q)
      /\ sr \in Sessions /\ req[r].n \in Chunks /\ req[r].d \in Data /\ req[r].pc \in PC
  BY IInvParts, ReqFields
<1>1. ASSUME NEW s \in Sessions, OnlyReq(r), LeaseStep(r, s), ReqOK(r)',
             UNCHANGED <<issued, status, received, onDisk, data, file, published>>
      PROVE  IInv'
  BY <1>0, <1>1, LeaseStepKeeps, QuietStep, IInvPartsNext
<1>2. ASSUME NEW s \in Sessions, NEW n \in Chunks, NEW d \in {"good", "bad"}, PutBegin(r, s, n, d)
      PROVE  IInv'
  <2>1. /\ OnlyReq(r) /\ req'[r] = [pc |-> "body", s |-> s, n |-> n, d |-> d, copy |-> FALSE]
        /\ status[s] = "open" /\ status' = status
    BY <1>0, <1>2 DEF PutBegin, BeginActivity, OnlyReq, TypeOK
  <2>2. LeaseStep(r, s)
    BY <1>2, <2>1 DEF PutBegin, LeaseStep
  <2>3. ReqOK(r)'
    BY <2>1 DEF ReqOK, PutPC, VerifyPC
  <2>. QED  BY <1>1, <1>2, <2>1, <2>2, <2>3 DEF PutBegin, temp
<1>3. CASE PutRefused(r) \/ Leave(r)
  <2>1. OnlyReq(r) /\ req'[r] = Idle
    BY <1>0, <1>3 DEF PutRefused, Leave, Finish, OnlyReq, TypeOK
  <2>2. LeaseStep(r, sr)
    <3>1. req[r].pc \in {"body", "leave"} /\ EndActivity(req[r].s)
      BY <1>3 DEF PutRefused, Leave
    <3>2. req'[r].pc = "idle"
      BY <2>1 DEF Idle
    <3>. QED  BY <3>1, <3>2, LeaseReturned
  <2>3. ReqOK(r)'
    <3>1. req'[r].pc = "idle"
      BY <2>1 DEF Idle
    <3>. QED  BY <3>1, RestIsOK
  <2>. QED  BY <1>0, <1>1, <1>3, <2>1, <2>2, <2>3 DEF PutRefused, Leave, row, temp
<1>4. CASE PutLease(r)
  <2>1. /\ OnlyReq(r) /\ req'[r] = [req[r] EXCEPT !.pc = "check"] /\ req[r].pc = "body"
        /\ status[sr] = "open" /\ status' = status
    BY <1>0, <1>4 DEF PutLease, BeginActivity, Goto, OnlyReq, TypeOK
  <2>2. req'[r].pc = "check" /\ req'[r].s = sr /\ req'[r].d = req[r].d
    BY <1>0, <2>1 DEF TypeOK, Req
  <2>3. LeaseStep(r, sr)
    BY <1>4, <2>1, <2>2 DEF PutLease, LeaseStep
  <2>4. ReqOK(r)'
    BY <1>0, <2>1, <2>2 DEF ReqOK, PutPC, VerifyPC
  <2>. QED  BY <1>0, <1>1, <1>4, <2>1, <2>3, <2>4 DEF PutLease, temp
<1>5. ASSUME NEW accepted \in BOOLEAN, PutCheck(r, accepted) PROVE IInv'
  <2>1. PICK pc \in {"write", "leave"} :
          /\ Goto(r, pc)
          /\ pc = "write" => status[sr] = "open" /\ req[r].n \notin received[sr] /\ UNCHANGED lease
          /\ pc = "leave" => EndActivity(sr)
    BY <1>5 DEF PutCheck
  <2>2. /\ OnlyReq(r) /\ req'[r].pc = pc /\ req'[r].s = sr /\ req'[r].d = req[r].d
        /\ req[r].pc = "check"
    BY <1>0, <1>5, <2>1 DEF PutCheck, Goto, OnlyReq, TypeOK, Req
  <2>3. LeaseStep(r, sr)
    BY <2>1, <2>2 DEF LeaseStep, NestedPC
  <2>4. pc = "write" /\ sr \in published => sr \notin onDisk
    BY <1>0, <2>1 DEF StoreOK, PublishedStays, OpenSessions
  <2>5. UNCHANGED <<issued, status, received, onDisk, data, file, published>>
    BY <1>5 DEF PutCheck, row, temp
  <2>6. ReqOK(r)'
    BY <1>0, <2>1, <2>2, <2>4, <2>5 DEF ReqOK, PutPC, VerifyPC
  <2>. QED  BY <1>0, <1>1, <2>2, <2>3, <2>5, <2>6
<1>6. ASSUME NEW torn \in BOOLEAN, PutWrite(r, torn) PROVE IInv'
  <2>1. PICK pc \in {"mark", "leave"} :
          /\ Goto(r, pc)
          /\ pc = "mark" => UNCHANGED lease
          /\ pc = "leave" => EndActivity(sr)
    BY <1>6 DEF PutWrite
  <2>2. /\ OnlyReq(r) /\ req'[r].pc = pc /\ req'[r].s = sr /\ req'[r].d = req[r].d /\ req'[r].n = req[r].n
        /\ req[r].pc = "write"
    BY <1>0, <1>6, <2>1 DEF PutWrite, Goto, OnlyReq, TypeOK, Req
  <2>3. LeaseStep(r, sr)
    BY <2>1, <2>2 DEF LeaseStep, NestedPC
  <2>4. UNCHANGED <<issued, status, received, file, published, onDisk>>
    BY <1>6 DEF PutWrite, row, temp
  <2>5. /\ sr \notin onDisk => data' = data
        /\ sr \in onDisk => data'[sr][req[r].n] # "zero"
        /\ \A s \in Sessions, n \in Chunks : s # sr \/ n # req[r].n => data'[s][n] = data[s][n]
    <3>1. req[r].d # "zero"
      BY <1>0, <2>2 DEF ReqOK, PutPC
    <3>. QED  BY <1>0, <1>6, <3>1 DEF PutWrite, TypeOK, temp
  <2>6. sr \in published => sr \notin onDisk
    BY <1>0, <2>2 DEF ReqOK
  <2>7. ASSUME NEW q \in Reqs, q # r PROVE ReqOK(q)'
    <3>1. ReqOK(q) /\ req'[q] = req[q] /\ req[q].s \in Sessions /\ req[q].n \in Chunks
      BY <1>0, <2>2, <2>7, ReqFields DEF OnlyReq
    <3>2. req[q].pc \in VerifyPC => req[q].s # sr
      BY <2>2, <2>7, CompletesAlone
    <3>3. req[q].pc \in {"copy", "place", "fill"} => AllGood(req[q].s)'
      BY <2>5, <3>1, <3>2 DEF ReqOK, AllGood, VerifyPC
    <3>4. req[q].pc = "mark" /\ req[q].s \in onDisk => data'[req[q].s][req[q].n] # "zero"
      BY <2>5, <3>1 DEF ReqOK
    <3>. QED  BY <2>4, <3>1, <3>3, <3>4 DEF ReqOK
  <2>8. ReqOK(r)'
    BY <1>0, <2>2, <2>4, <2>5 DEF ReqOK, PutPC, VerifyPC
  <2>9. StoreOK'
    <3>1. UnissuedIsBlank' /\ AllIntact' /\ OutcomeHonest'
      BY <1>0, <2>4 DEF StoreOK, UnissuedIsBlank, AllIntact, OutcomeHonest
    <3>2. PublishedStays'
      BY <1>0, <2>4, <2>5, <2>6 DEF StoreOK, PublishedStays, OpenSessions, AllGood
    <3>3. RecordedIsWritten'
      <4>. SUFFICES ASSUME NEW s \in Sessions, status[s] = "open", s \in onDisk, NEW n \in received[s]
                    PROVE  data'[s][n] # "zero"
        BY <2>4 DEF RecordedIsWritten, OpenSessions
      <4>1. data[s][n] # "zero" /\ n \in Chunks
        BY <1>0 DEF StoreOK, RecordedIsWritten, OpenSessions, TypeOK
      <4>. QED  BY <2>5, <4>1
    <3>. QED  BY <3>1, <3>2, <3>3 DEF StoreOK
  <2>. QED  BY <1>0, <2>2, <2>3, <2>7, <2>8, <2>9, LeaseStepKeeps, IInvPartsNext
<1>7. ASSUME NEW stored \in BOOLEAN, PutMark(r, stored) PROVE IInv'
  <2>1. /\ OnlyReq(r) /\ req'[r].pc = "leave" /\ req'[r].s = sr /\ req[r].pc = "mark"
        /\ EndActivity(sr)
    BY <1>0, <1>7 DEF PutMark, Goto, OnlyReq, TypeOK, Req
  <2>2. LeaseStep(r, sr)
    BY <2>1 DEF LeaseStep, NestedPC
  <2>3. UNCHANGED <<issued, status, file, published, onDisk, data>>
    BY <1>7 DEF PutMark, temp
  <2>4. /\ status[sr] = "open"
        /\ sr \in onDisk => data[sr][req[r].n] # "zero"
    BY <1>0, <2>1 DEF ReqOK, PutPC
  <2>5. /\ \A s \in Sessions : s # sr => received'[s] = received[s]
        /\ received'[sr] \in {received[sr], received[sr] \cup {req[r].n}}
    BY <1>0, <1>7 DEF PutMark, TypeOK
  <2>6. \A s \in Sessions : received[s] = Chunks => received'[s] = Chunks
    BY <1>0, <2>5
  <2>7. ASSUME NEW q \in Reqs, q # r PROVE ReqOK(q)'
    <3>1. ReqOK(q) /\ req'[q] = req[q] /\ req[q].s \in Sessions
      BY <1>0, <2>1, <2>7, ReqFields DEF OnlyReq
    <3>. QED  BY <2>3, <2>6, <3>1 DEF ReqOK, AllGood
  <2>8. ReqOK(r)'
    BY <2>1 DEF ReqOK, PutPC, VerifyPC
  <2>9. StoreOK'
    <3>1. sr \in issued
      BY <1>0, <2>4 DEF StoreOK, UnissuedIsBlank
    <3>2. UnissuedIsBlank' /\ AllIntact' /\ OutcomeHonest'
      BY <1>0, <2>3, <2>5, <3>1 DEF StoreOK, UnissuedIsBlank, AllIntact, OutcomeHonest
    <3>3. PublishedStays'
      BY <1>0, <2>3, <2>6 DEF StoreOK, PublishedStays, OpenSessions, AllGood
    <3>4. RecordedIsWritten'
      BY <1>0, <2>3, <2>4, <2>5 DEF StoreOK, RecordedIsWritten, OpenSessions
    <3>. QED  BY <3>2, <3>3, <3>4 DEF StoreOK
  <2>. QED  BY <1>0, <2>1, <2>2, <2>7, <2>8, <2>9, LeaseStepKeeps, IInvPartsNext
<1>8. ASSUME NEW s \in Sessions, StatusBegin(r, s) PROVE IInv'
  <2>1. OnlyReq(r) /\ req'[r].pc = "leave" /\ req'[r].s = s
    BY <1>0, <1>8 DEF StatusBegin, OnlyReq, TypeOK, Idle
  <2>2. LeaseStep(r, s)
    BY <1>8, <2>1 DEF StatusBegin, LeaseStep
  <2>3. ReqOK(r)'
    BY <2>1 DEF ReqOK, PutPC, VerifyPC
  <2>. QED  BY <1>1, <1>8, <2>1, <2>2, <2>3 DEF StatusBegin, temp
<1>. QED  BY <1>2, <1>3, <1>4, <1>5, <1>6, <1>7, <1>8 DEF PutNext

\* Recording an outcome touches one row.
LEMMA SetStatusEffect ==
  ASSUME TypeOK, NEW s \in Sessions, NEW final \in {"completed", "failed"}, SetStatus(s, final)
  PROVE  /\ \A t \in Sessions : t # s => status'[t] = status[t] /\ received'[t] = received[t]
         /\ \/ status'[s] = final /\ received'[s] = received[s]
            \/ status'[s] = "none" /\ received'[s] = {}
            \/ status'[s] = status[s] /\ received'[s] = received[s]
BY DEF SetStatus, DeleteRow, row, TypeOK

\* Completions preserve the invariant.
LEMMA CompleteKeeps ==
  ASSUME IInv, TypeOK', NEW r \in Reqs, CompleteNext(r)
  PROVE  IInv'
<1>. DEFINE sr == req[r].s
<1>0. /\ TypeOK /\ LeasesCounted /\ CompletionExclusive /\ StoreOK
      /\ \A q \in Reqs : ReqOK(q)
      /\ sr \in Sessions /\ req[r].copy \in BOOLEAN /\ req[r].pc \in PC
  BY IInvParts, ReqFields
<1>1. ASSUME NEW s \in Sessions, OnlyReq(r), LeaseStep(r, s), ReqOK(r)',
             UNCHANGED <<issued, status, received, onDisk, data, file, published>>
      PROVE  IInv'
  BY <1>0, <1>1, LeaseStepKeeps, QuietStep, IInvPartsNext
<1>2. ASSUME NEW pc \in VerifyPC, Goto(r, pc), req[r].pc \in VerifyPC, UNCHANGED lease
      PROVE  /\ OnlyReq(r) /\ LeaseStep(r, sr)
             /\ req'[r].pc = pc /\ req'[r].s = sr /\ req'[r].copy = req[r].copy
  <2>1. OnlyReq(r) /\ req'[r].pc = pc /\ req'[r].s = sr /\ req'[r].copy = req[r].copy
    BY <1>0, <1>2 DEF Goto, OnlyReq, TypeOK, Req
  <2>. QED  BY <1>2, <2>1 DEF LeaseStep
<1>3. ASSUME OnlyReq(r), req[r].pc \in VerifyPC, NEW q \in Reqs, q # r,
             issued' = issued,
             published' \in {published, published \cup {sr}},
             \A s \in Sessions : s # sr => /\ status'[s] = status[s] /\ received'[s] = received[s]
                                           /\ data'[s] = data[s] /\ (s \in onDisk' <=> s \in onDisk)
      PROVE  ReqOK(q)'
  <2>1. ReqOK(q) /\ req'[q] = req[q] /\ req[q].s \in Sessions
    BY <1>0, <1>3, ReqFields DEF OnlyReq
  <2>2. CASE req[q].pc = "idle"
    BY <2>1, <2>2 DEF ReqOK, PutPC, VerifyPC
  <2>3. CASE req[q].pc # "idle"
    <3>1. req[q].s # sr
      BY <1>3, <2>3, CompletesAlone
    <3>. DEFINE t == req[q].s
    <3>2. /\ status'[t] = status[t] /\ received'[t] = received[t] /\ data'[t] = data[t]
          /\ t \in onDisk' <=> t \in onDisk
          /\ t \in published' <=> t \in published
      BY <1>3, <2>1, <3>1
    <3>3. AllGood(t)' <=> AllGood(t)
      BY <2>1, <3>2 DEF AllGood
    <3>. QED  BY <2>1, <3>2, <3>3 DEF ReqOK
  <2>. QED  BY <2>2, <2>3
<1>4. ASSUME NEW s \in Sessions, CompleteBegin(r, s) PROVE IInv'
  <2>1. /\ OnlyReq(r) /\ req'[r].pc = "verify" /\ req'[r].s = s /\ req[r].pc = "idle"
        /\ status[s] = "open" /\ status' = status
    BY <1>0, <1>4 DEF CompleteBegin, BeginCompletion, OnlyReq, TypeOK, Idle
  <2>2. LeaseStep(r, s)
    BY <1>4, <2>1 DEF CompleteBegin, LeaseStep
  <2>3. ReqOK(r)'
    BY <2>1 DEF ReqOK, PutPC, VerifyPC
  <2>. QED  BY <1>1, <1>4, <2>1, <2>2, <2>3 DEF CompleteBegin, temp
<1>5. CASE CompleteIncomplete(r) \/ PublishError(r)
  <2>1. /\ Goto(r, "release") /\ req[r].pc \in VerifyPC /\ UNCHANGED lease
        /\ UNCHANGED <<issued, status, received, onDisk, data, file, published>>
    BY <1>5 DEF CompleteIncomplete, PublishError, row, temp, VerifyPC
  <2>2. OnlyReq(r) /\ LeaseStep(r, sr) /\ req'[r].pc = "release"
    BY <1>2, <2>1 DEF VerifyPC
  <2>3. ReqOK(r)'
    BY <2>2 DEF ReqOK, PutPC, VerifyPC
  <2>. QED  BY <1>0, <1>1, <2>1, <2>2, <2>3
<1>6. CASE Complete(r)
  <2>0. /\ req[r].pc = "verify" /\ status[sr] = "open" /\ sr \in onDisk
        /\ UNCHANGED <<issued, onDisk, data, file, published, lease>>
    BY <1>0, <1>6 DEF Complete, ReqOK, PutPC, VerifyPC, temp
  <2>1. CASE AllGood(sr)
    <3>1. received[sr] = Chunks
      <4>1. received[sr] \subseteq Chunks /\ IsFiniteSet(Chunks)
        BY <1>0, TransferAssumption DEF TypeOK
      <4>2. Cardinality(received[sr]) >= Cardinality(Chunks)
        BY <1>6 DEF Complete
      <4>. QED  BY <4>1, <4>2, FS_Subset, FS_CardinalityType
    <3>2. Goto(r, "copy") /\ UNCHANGED <<status, received>>
      BY <1>6, <2>1 DEF Complete, row
    <3>3. OnlyReq(r) /\ LeaseStep(r, sr) /\ req'[r].pc = "copy" /\ req'[r].s = sr
      BY <1>2, <2>0, <3>2 DEF VerifyPC
    <3>4. ReqOK(r)'
      BY <2>0, <2>1, <3>1, <3>2, <3>3 DEF ReqOK, PutPC, VerifyPC, AllGood
    <3>. QED  BY <1>0, <1>1, <2>0, <3>2, <3>3, <3>4
  <2>2. CASE ~AllGood(sr)
    <3>1. Goto(r, "discard") /\ SetStatus(sr, "failed")
      BY <1>6, <2>2 DEF Complete
    <3>2. OnlyReq(r) /\ LeaseStep(r, sr) /\ req'[r].pc = "discard"
      BY <1>2, <2>0, <3>1 DEF VerifyPC
    <3>3. ReqOK(r)'
      BY <3>2 DEF ReqOK, PutPC, VerifyPC
    <3>4. /\ \A t \in Sessions : t # sr => status'[t] = status[t] /\ received'[t] = received[t]
          /\ \/ status'[sr] = "failed" /\ received'[sr] = received[sr]
             \/ status'[sr] = "none" /\ received'[sr] = {}
             \/ status'[sr] = status[sr] /\ received'[sr] = received[sr]
      BY <1>0, <3>1, SetStatusEffect
    <3>5. \A q \in Reqs : q # r => ReqOK(q)'
      BY <1>3, <2>0, <3>2, <3>4 DEF VerifyPC
    <3>6. sr \notin published /\ sr \in issued
      BY <1>0, <2>0, <2>2 DEF StoreOK, PublishedStays, OpenSessions, UnissuedIsBlank
    <3>7. StoreOK'
      <4>1. UnissuedIsBlank' /\ AllIntact' /\ OutcomeHonest'
        BY <1>0, <2>0, <3>4, <3>6 DEF StoreOK, UnissuedIsBlank, AllIntact, OutcomeHonest
      <4>2. PublishedStays'
        BY <1>0, <2>0, <3>4, <3>6 DEF StoreOK, PublishedStays, OpenSessions, AllGood
      <4>3. RecordedIsWritten'
        BY <1>0, <2>0, <3>4 DEF StoreOK, RecordedIsWritten, OpenSessions
      <4>. QED  BY <4>1, <4>2, <4>3 DEF StoreOK
    <3>. QED  BY <1>0, <3>2, <3>3, <3>5, <3>7, LeaseStepKeeps, IInvPartsNext
  <2>. QED  BY <2>1, <2>2
<1>7. CASE PublishCopy(r)
  <2>1. /\ OnlyReq(r) /\ req'[r].pc = "place" /\ req'[r].s = sr /\ req'[r].copy = AllGood(sr)
        /\ req[r].pc = "copy"
    BY <1>0, <1>7 DEF PublishCopy, OnlyReq, TypeOK, Req
  <2>2. LeaseStep(r, sr)
    BY <1>7, <2>1 DEF PublishCopy, LeaseStep, VerifyPC
  <2>3. UNCHANGED <<issued, status, received, onDisk, data, file, published>>
    BY <1>7 DEF PublishCopy, row, temp
  <2>4. AllGood(sr) /\ received[sr] = Chunks /\ status[sr] = "open"
    BY <1>0, <2>1 DEF ReqOK, VerifyPC
  <2>5. ReqOK(r)'
    BY <2>1, <2>3, <2>4 DEF ReqOK, PutPC, VerifyPC, AllGood
  <2>. QED  BY <1>0, <1>1, <2>1, <2>2, <2>3, <2>5
<1>8. ASSUME NEW ok \in BOOLEAN, PublishPlace(r) \/ PublishFill(r, ok) PROVE IInv'
  <2>0. /\ req[r].pc \in {"place", "fill"} /\ req[r].copy /\ AllGood(sr) /\ received[sr] = Chunks
        /\ status[sr] = "open" /\ (req[r].pc = "fill" => ~HardLinks)
    BY <1>0, <1>8 DEF PublishPlace, PublishFill, ReqOK, VerifyPC
  <2>1. UNCHANGED <<issued, status, received, onDisk, data, lease>>
    BY <1>8 DEF PublishPlace, PublishFill, row, temp
  <2>2. PICK pc \in {"release", "unlink", "fill"} :
          /\ Goto(r, pc)
          /\ published' = IF pc = "unlink" THEN published \cup {sr} ELSE published
          /\ pc = "fill" => ~HardLinks
    BY <1>8 DEF PublishPlace, PublishFill
  <2>3. /\ OnlyReq(r) /\ LeaseStep(r, sr) /\ req'[r].pc = pc /\ req'[r].s = sr
        /\ req'[r].copy = req[r].copy
    BY <1>2, <2>0, <2>1, <2>2 DEF VerifyPC
  <2>4. ReqOK(r)'
    BY <2>0, <2>1, <2>2, <2>3 DEF ReqOK, PutPC, VerifyPC, AllGood
  <2>5. \A q \in Reqs : q # r => ReqOK(q)'
    BY <1>3, <2>0, <2>1, <2>2, <2>3 DEF VerifyPC
  <2>6. AllIntact'
    <3>1. AllIntact /\ file \in [Paths -> File]
      BY <1>0 DEF StoreOK, TypeOK
    <3>2. CASE PublishPlace(r)
      <4>1. \/ file' = file
            \/ \E whole \in BOOLEAN : file' = [file EXCEPT ![decl[sr].path] =
                                              [by |-> sr, whole |-> whole, intact |-> req[r].copy]]
        BY <3>2 DEF PublishPlace
      <4>2. req[r].copy = TRUE
        BY <1>0, <2>0
      <4>. SUFFICES ASSUME NEW p \in Paths PROVE file'[p].intact
        BY DEF AllIntact
      <4>3. file[p].intact
        BY <3>1 DEF AllIntact
      <4>4. CASE file' = file
        BY <4>3, <4>4
      <4>5. ASSUME NEW whole \in BOOLEAN,
                   file' = [file EXCEPT ![decl[sr].path] = [by |-> sr, whole |-> whole, intact |-> TRUE]]
            PROVE  file'[p].intact
        <5>1. CASE p = decl[sr].path
          BY <3>1, <4>5, <5>1
        <5>2. CASE p # decl[sr].path
          BY <3>1, <4>3, <4>5, <5>2
        <5>. QED  BY <5>1, <5>2
      <4>. QED  BY <4>1, <4>2, <4>4, <4>5
    <3>3. CASE PublishFill(r, ok)
      BY <3>1, <3>3 DEF PublishFill, AllIntact, NoFile, File
    <3>. QED  BY <1>8, <3>2, <3>3
  <2>7. StoreOK'
    <3>1. sr \in issued
      BY <1>0, <2>0 DEF StoreOK, UnissuedIsBlank
    <3>2. UnissuedIsBlank' /\ OutcomeHonest'
      BY <1>0, <2>0, <2>1, <2>2, <3>1 DEF StoreOK, UnissuedIsBlank, OutcomeHonest
    <3>3. PublishedStays'
      BY <1>0, <2>0, <2>1, <2>2 DEF StoreOK, PublishedStays, OpenSessions, AllGood
    <3>4. RecordedIsWritten'
      BY <1>0, <2>1 DEF StoreOK, RecordedIsWritten, OpenSessions
    <3>. QED  BY <2>6, <3>2, <3>3, <3>4 DEF StoreOK
  <2>. QED  BY <1>0, <2>3, <2>4, <2>5, <2>7, LeaseStepKeeps, IInvPartsNext
<1>9. ASSUME NEW removed \in BOOLEAN, CompleteUnlink(r, removed) PROVE IInv'
  <2>0. UNCHANGED <<issued, status, received, lease, file, published>> /\ req[r].pc \in {"unlink", "discard"}
    BY <1>9 DEF CompleteUnlink, row
  <2>1. PICK pc \in {"record", "release"} : Goto(r, pc) /\ (pc = "record" => req[r].pc = "unlink")
    BY <1>9 DEF CompleteUnlink
  <2>2. OnlyReq(r) /\ LeaseStep(r, sr) /\ req'[r].pc = pc /\ req'[r].s = sr
    BY <1>2, <2>0, <2>1 DEF VerifyPC
  <2>3. ReqOK(r)'
    BY <1>0, <2>0, <2>1, <2>2 DEF ReqOK, PutPC, VerifyPC
  <2>4. \A s \in Sessions : /\ s # sr => data'[s] = data[s] /\ (s \in onDisk' <=> s \in onDisk)
                            /\ s \in onDisk' => s \in onDisk /\ data'[s] = data[s]
    BY <1>9 DEF CompleteUnlink, ReplaceTemps
  <2>5. \A q \in Reqs : q # r => ReqOK(q)'
    BY <1>3, <2>0, <2>2, <2>4 DEF VerifyPC
  <2>6. StoreOK'
    <3>1. UnissuedIsBlank' /\ AllIntact' /\ OutcomeHonest'
      BY <1>0, <2>0 DEF StoreOK, UnissuedIsBlank, AllIntact, OutcomeHonest
    <3>2. PublishedStays'
      BY <1>0, <2>0, <2>4 DEF StoreOK, PublishedStays, OpenSessions, AllGood
    <3>3. RecordedIsWritten'
      BY <1>0, <2>0, <2>4 DEF StoreOK, RecordedIsWritten, OpenSessions
    <3>. QED  BY <3>1, <3>2, <3>3 DEF StoreOK
  <2>. QED  BY <1>0, <2>2, <2>3, <2>5, <2>6, LeaseStepKeeps, IInvPartsNext
<1>10. CASE CompleteRecord(r)
  <2>0. /\ UNCHANGED <<issued, onDisk, data, lease, file, published>> /\ req[r].pc = "record"
        /\ Goto(r, "release") /\ SetStatus(sr, "completed") /\ sr \in published /\ status[sr] = "open"
    BY <1>0, <1>10 DEF CompleteRecord, temp, ReqOK, VerifyPC
  <2>1. OnlyReq(r) /\ LeaseStep(r, sr) /\ req'[r].pc = "release"
    BY <1>2, <2>0 DEF VerifyPC
  <2>2. ReqOK(r)'
    BY <2>1, RestIsOK
  <2>3. /\ \A t \in Sessions : t # sr => status'[t] = status[t] /\ received'[t] = received[t]
        /\ \/ status'[sr] = "completed" /\ received'[sr] = received[sr]
           \/ status'[sr] = "none" /\ received'[sr] = {}
           \/ status'[sr] = status[sr] /\ received'[sr] = received[sr]
    BY <1>0, <2>0, SetStatusEffect
  <2>4. \A q \in Reqs : q # r => ReqOK(q)'
    BY <1>3, <2>0, <2>1, <2>3 DEF VerifyPC
  <2>5. StoreOK'
    <3>0. sr \in issued
      BY <1>0, <2>0 DEF StoreOK, UnissuedIsBlank
    <3>1. UnissuedIsBlank' /\ AllIntact' /\ OutcomeHonest'
      <4>0. UnissuedIsBlank /\ AllIntact /\ OutcomeHonest
        BY <1>0 DEF StoreOK
      <4>1. issued' = issued /\ published' = published /\ file' = file /\ sr \in published
        BY <2>0
      <4>2. AllIntact'
        BY <4>0, <4>1 DEF AllIntact
      <4>3. UnissuedIsBlank'
        BY <2>3, <3>0, <4>0, <4>1 DEF UnissuedIsBlank
      <4>4. OutcomeHonest'
        BY <2>0, <2>3, <4>0, <4>1 DEF OutcomeHonest
      <4>. QED  BY <4>2, <4>3, <4>4
    <3>a. ASSUME NEW t \in Sessions, status'[t] = "open"
          PROVE  status[t] = "open" /\ received'[t] = received[t]
      <4>1. CASE t = sr
        BY <2>0, <2>3, <3>a, <4>1
      <4>2. CASE t # sr
        BY <2>3, <3>a, <4>2
      <4>. QED  BY <4>1, <4>2
    <3>b. onDisk' = onDisk /\ data' = data /\ published' = published
      BY <2>0
    <3>c. PublishedStays /\ RecordedIsWritten
      BY <1>0 DEF StoreOK
    <3>2. PublishedStays'
      <4>. SUFFICES ASSUME NEW t \in published' \cap onDisk' \cap OpenSessions'
                    PROVE  AllGood(t)' /\ received'[t] = Chunks
        BY DEF PublishedStays
      <4>0. t \in Sessions /\ status'[t] = "open" /\ t \in published' /\ t \in onDisk'
        BY DEF OpenSessions
      <4>1. t \in published \cap onDisk \cap OpenSessions
        BY <3>a, <3>b, <4>0 DEF OpenSessions
      <4>2. AllGood(t) /\ received[t] = Chunks
        BY <3>c, <4>1 DEF PublishedStays
      <4>3. received'[t] = received[t]
        BY <3>a, <4>0
      <4>. QED  BY <3>b, <4>2, <4>3 DEF AllGood
    <3>3. RecordedIsWritten'
      <4>. SUFFICES ASSUME NEW t \in OpenSessions' \cap onDisk', NEW n \in received'[t]
                    PROVE  data'[t][n] # "zero"
        BY DEF RecordedIsWritten
      <4>0. t \in Sessions /\ status'[t] = "open" /\ t \in onDisk'
        BY DEF OpenSessions
      <4>1. t \in OpenSessions \cap onDisk /\ received'[t] = received[t]
        BY <3>a, <3>b, <4>0 DEF OpenSessions
      <4>. QED  BY <3>b, <3>c, <4>1 DEF RecordedIsWritten
    <3>. QED  BY <3>1, <3>2, <3>3 DEF StoreOK
  <2>. QED  BY <1>0, <2>1, <2>2, <2>4, <2>5, LeaseStepKeeps, IInvPartsNext
<1>11. CASE CompleteRelease(r)
  <2>1. OnlyReq(r) /\ req'[r] = Idle /\ req[r].pc = "release"
    BY <1>0, <1>11 DEF CompleteRelease, Finish, OnlyReq, TypeOK
  <2>a. req'[r].pc = "idle"
    BY <2>1 DEF Idle
  <2>2. LeaseStep(r, sr)
    <3>1. EndCompletion(req[r].s)
      BY <1>11 DEF CompleteRelease
    <3>. QED  BY <2>1, <2>a, <3>1, CompletionReturned
  <2>3. ReqOK(r)'
    BY <2>a, RestIsOK
  <2>. QED  BY <1>0, <1>1, <1>11, <2>1, <2>2, <2>3 DEF CompleteRelease, row, temp
<1>. QED
  BY <1>4, <1>5, <1>6, <1>7, <1>8, <1>9, <1>10, <1>11 DEF CompleteNext

\* A step that moves no request keeps the leases as they are.
LEMMA LeasesStill ==
  ASSUME LeasesCounted, CompletionExclusive, UNCHANGED <<lease, req>>
  PROVE  LeasesCounted' /\ CompletionExclusive'
<1>1. \A s \in Sessions : Holders(s)' = Holders(s) /\ Nested(s)' = Nested(s)
  BY DEF Holders, Nested, InUse
<1>2. LeasesCounted'
  BY <1>1 DEF LeasesCounted, lease
<1>. QED  BY <1>2 DEF CompletionExclusive, InUse

\* Opening, deleting and sweeping sessions, time, other writers and a restart
\* preserve the invariant.
LEMMA OthersKeep ==
  ASSUME IInv, TypeOK', ManagerNext \/ OutsideNext \/ UNCHANGED vars
  PROVE  IInv'
<1>0. /\ TypeOK /\ LeasesCounted /\ CompletionExclusive /\ StoreOK
      /\ \A q \in Reqs : ReqOK(q)
  BY IInvParts
<1>1. ASSUME UNCHANGED <<lease, req>>, StoreOK', \A q \in Reqs : ReqOK(q)'
      PROVE  IInv'
  BY <1>0, <1>1, LeasesStill, IInvPartsNext
<1>2. ASSUME UNCHANGED <<req, published>>, NEW q \in Reqs,
             req[q].pc # "idle" =>
               \A s \in {req[q].s} :
                  /\ status[s] = "open" => status'[s] = "open" /\ received'[s] = received[s]
                  /\ data'[s] = data[s] /\ (status[s] = "open" /\ s \in onDisk' => s \in onDisk)
      PROVE  ReqOK(q)'
  <2>1. ReqOK(q)
    BY <1>0
  <2>2. CASE req[q].pc = "idle"
    BY <1>2, <2>2 DEF ReqOK, PutPC, VerifyPC
  <2>3. CASE req[q].pc # "idle"
    BY <1>2, <2>1, <2>3 DEF ReqOK, AllGood, PutPC, VerifyPC
  <2>. QED  BY <2>2, <2>3
<1>3. ASSUME NEW s \in Sessions, NEW d \in Decl, NEW allocated \in BOOLEAN, OpenSession(s, d, allocated)
      PROVE  IInv'
  <2>1. /\ s \notin issued /\ issued' = issued \cup {s}
        /\ UNCHANGED <<lease, req, file, published>>
    BY <1>3 DEF OpenSession
  <2>2. status[s] = "none" /\ received[s] = {} /\ s \notin published
    BY <1>0, <2>1 DEF StoreOK, UnissuedIsBlank
  <2>3. /\ status'[s] = "open"
        /\ \A t \in Sessions : t # s => status'[t] = IF t \in Swept(active) THEN "none" ELSE status[t]
        /\ \A t \in Sessions : received'[t] = IF t \in Swept(active) THEN {} ELSE received[t]
    BY <1>0, <1>3 DEF OpenSession, StatusSwept, ReceivedSwept
  <2>4. \A t \in Sessions :
          /\ t \notin Stale(active) \cup Orphans(active) => data'[t] = data[t]
          /\ t # s /\ t \in onDisk' => t \in onDisk /\ data'[t] = data[t]
    BY <1>3 DEF OpenSession, ReplaceTemps
  <2>5. ASSUME NEW q \in Reqs PROVE ReqOK(q)'
    <3>1. CASE req[q].pc # "idle"
      <4>1. req[q].s \in Sessions /\ req[q].s \notin Stale(active) \cup Orphans(active)
        BY <1>0, <3>1, ReqFields, SweepSpares
      <4>2. status[req[q].s] = "open" => req[q].s # s /\ req[q].s \notin Swept(active)
        BY <2>2, <4>1 DEF Swept, Expired
      <4>. QED  BY <1>2, <2>1, <2>3, <2>4, <4>1, <4>2
    <3>2. CASE req[q].pc = "idle"
      BY <1>2, <2>1, <3>2
    <3>. QED  BY <3>1, <3>2
  <2>6. UnissuedIsBlank' /\ AllIntact' /\ OutcomeHonest'
    BY <1>0, <2>1, <2>2, <2>3 DEF StoreOK, UnissuedIsBlank, AllIntact, OutcomeHonest
  <2>7. PublishedStays'
    <3>. SUFFICES ASSUME NEW t \in Sessions, t \in published, t \in onDisk', status'[t] = "open"
                  PROVE  (AllGood(t) /\ received[t] = Chunks)'
      BY <2>1 DEF PublishedStays, OpenSessions, TypeOK
    <3>1. t # s
      BY <2>2
    <3>2. t \in onDisk /\ data'[t] = data[t] /\ status[t] = "open" /\ received'[t] = received[t]
      BY <2>3, <2>4, <3>1
    <3>. QED  BY <1>0, <3>2 DEF StoreOK, PublishedStays, OpenSessions, AllGood
  <2>8. RecordedIsWritten'
    <3>. SUFFICES ASSUME NEW t \in Sessions, t \in onDisk', status'[t] = "open", NEW n \in received'[t]
                  PROVE  data'[t][n] # "zero"
      BY DEF RecordedIsWritten, OpenSessions
    <3>1. t # s
      BY <2>2, <2>3
    <3>2. t \in onDisk /\ data'[t] = data[t] /\ status[t] = "open" /\ received'[t] = received[t]
      BY <2>3, <2>4, <3>1
    <3>. QED  BY <1>0, <3>2 DEF StoreOK, RecordedIsWritten, OpenSessions
  <2>. QED  BY <1>1, <2>1, <2>5, <2>6, <2>7, <2>8 DEF StoreOK
<1>4. ASSUME NEW s \in Sessions, NEW removed \in BOOLEAN, DeleteSession(s, removed) PROVE IInv'
  <2>1. active[s] = 0 /\ status[s] # "none" /\ UNCHANGED <<issued, lease, req, file, published>>
    BY <1>4 DEF DeleteSession
  <2>2. /\ status'[s] = "none" /\ received'[s] = {}
        /\ \A t \in Sessions : t # s => status'[t] = status[t] /\ received'[t] = received[t]
    BY <1>0, <1>4 DEF DeleteSession, DeleteRow, TypeOK
  <2>3. \A t \in Sessions : /\ t # s => data'[t] = data[t]
                            /\ t \in onDisk' => t \in onDisk /\ data'[t] = data[t]
    BY <1>4 DEF DeleteSession, ReplaceTemps
  <2>4. ASSUME NEW q \in Reqs PROVE ReqOK(q)'
    <3>1. req[q].s \in Sessions /\ (req[q].pc # "idle" => req[q].s # s)
      BY <1>0, <2>1, ReqFields, SweepSpares
    <3>. QED  BY <1>2, <2>1, <2>2, <2>3, <3>1
  <2>5. UnissuedIsBlank' /\ AllIntact' /\ OutcomeHonest'
    BY <1>0, <2>1, <2>2 DEF StoreOK, UnissuedIsBlank, AllIntact, OutcomeHonest
  <2>6. PublishedStays'
    BY <1>0, <2>1, <2>2, <2>3 DEF StoreOK, PublishedStays, OpenSessions, AllGood
  <2>7. RecordedIsWritten'
    BY <1>0, <2>2, <2>3 DEF StoreOK, RecordedIsWritten, OpenSessions
  <2>. QED  BY <1>1, <2>1, <2>4, <2>5, <2>6, <2>7 DEF StoreOK
<1>5. ASSUME NEW stuck \in SUBSET onDisk, Sweep(stuck) PROVE IInv'
  <2>1. SweepWith(active, stuck) /\ active \in [Sessions -> Nat] /\ UNCHANGED <<lease, req, published>>
    BY <1>0, <1>5 DEF Sweep, SweepWith, TypeOK
  <2>2. StoreOK'
    BY <2>1, SweepStore
  <2>3. ASSUME NEW q \in Reqs PROVE ReqOK(q)'
    <3>1. CASE req[q].pc # "idle"
      <4>1. req[q].s \in Sessions /\ req[q].s \notin Stale(active) \cup Orphans(active)
        BY <1>0, <3>1, ReqFields, SweepSpares
      <4>2. status[req[q].s] = "open" => req[q].s \notin Swept(active)
        BY <4>1 DEF Swept, Expired
      <4>3. /\ status[req[q].s] = "open" =>
                 status'[req[q].s] = "open" /\ received'[req[q].s] = received[req[q].s]
            /\ data'[req[q].s] = data[req[q].s] /\ (req[q].s \in onDisk' => req[q].s \in onDisk)
        BY <2>1, <4>1, <4>2 DEF SweepWith, StatusSwept, ReceivedSwept, ReplaceTemps
      <4>. QED  BY <1>2, <2>1, <4>3
    <3>2. CASE req[q].pc = "idle"
      BY <1>2, <2>1, <3>2
    <3>. QED  BY <3>1, <3>2
  <2>. QED  BY <1>1, <2>1, <2>2, <2>3
<1>6. ASSUME UNCHANGED <<issued, status, received, onDisk, data, lease, req, published>>, AllIntact'
      PROVE  IInv'
  <2>1. \A q \in Reqs : ReqOK(q)'
    BY <1>0, <1>6 DEF ReqOK, AllGood
  <2>2. StoreOK'
    BY <1>0, <1>6
    DEF StoreOK, UnissuedIsBlank, PublishedStays, RecordedIsWritten, OutcomeHonest, OpenSessions, AllGood
  <2>. QED  BY <1>1, <1>6, <2>1, <2>2
<1>7. ASSUME NEW s \in Sessions, Age(s) PROVE IInv'
  <2>1. AllIntact'
    BY <1>0, <1>7 DEF Age, StoreOK, AllIntact
  <2>. QED  BY <1>6, <1>7, <2>1 DEF Age
<1>8. ASSUME NEW p \in Paths, OutsideWrite(p) PROVE IInv'
  <2>1. AllIntact'
    BY <1>0, <1>8 DEF OutsideWrite, StoreOK, AllIntact, TypeOK, NoFile, OtherFile
  <2>. QED  BY <1>6, <1>8, <2>1 DEF OutsideWrite, row, temp
<1>9. ASSUME NEW stuck \in SUBSET onDisk, Restart(stuck) PROVE IInv'
  <2>. DEFINE none == [s \in Sessions |-> 0]
  <2>1. none \in [Sessions -> Nat] /\ SweepWith(none, stuck)
    BY <1>9 DEF Restart
  <2>2. active' = none /\ completing' = {} /\ \A r \in Reqs : req'[r].pc = "idle"
    BY <1>9 DEF Restart, Idle
  <2>3. LeasesCounted'
    <3>1. \A s \in Sessions : Holders(s)' = {} /\ Nested(s)' = {}
      BY <2>2 DEF Holders, Nested, InUse
    <3>. QED  BY <2>2, <3>1, FS_EmptySet DEF LeasesCounted, VerifyPC
  <2>4. CompletionExclusive'
    BY <2>2 DEF CompletionExclusive, VerifyPC
  <2>5. \A q \in Reqs : ReqOK(q)'
    BY <2>2 DEF ReqOK, PutPC, VerifyPC
  <2>. HIDE DEF none
  <2>6. StoreOK'
    BY <2>1, SweepStore
  <2>. QED  BY <2>3, <2>4, <2>5, <2>6, IInvPartsNext
<1>10. CASE UNCHANGED vars
  <2>1. AllIntact'
    BY <1>0, <1>10 DEF vars, StoreOK, AllIntact
  <2>. QED  BY <1>6, <1>10, <2>1 DEF vars, row, temp
<1>. QED
  BY <1>3, <1>4, <1>5, <1>7, <1>8, <1>9, <1>10 DEF ManagerNext, OutsideNext

LEMMA IInvInit == Init => IInv
<1>. SUFFICES ASSUME Init PROVE IInv
  OBVIOUS
<1>1. TypeOK
  BY TypeInit
<1>2. \A r \in Reqs : req[r].pc = "idle"
  BY DEF Init, Idle
<1>3. LeasesCounted
  <2>1. \A s \in Sessions : Holders(s) = {} /\ Nested(s) = {}
    BY <1>2 DEF Holders, Nested, InUse
  <2>. QED  BY <1>2, <2>1, FS_EmptySet DEF Init, LeasesCounted, VerifyPC
<1>4. CompletionExclusive
  BY <1>2 DEF CompletionExclusive, VerifyPC
<1>5. \A r \in Reqs : ReqOK(r)
  BY <1>2 DEF ReqOK, PutPC, VerifyPC
<1>6. StoreOK
  <2>1. AllIntact
    BY DEF Init, AllIntact, NoFile, OtherFile
  <2>. QED
    BY <2>1 DEF Init, StoreOK, UnissuedIsBlank, PublishedStays, RecordedIsWritten, OutcomeHonest, OpenSessions
<1>. QED  BY <1>1, <1>3, <1>4, <1>5, <1>6, IInvParts

LEMMA IInvNext == IInv /\ [Next]_vars => IInv'
<1>. SUFFICES ASSUME IInv, [Next]_vars PROVE IInv'
  OBVIOUS
<1>1. TypeOK'
  BY TypeNext DEF IInv
<1>. QED  BY <1>1, PutKeeps, CompleteKeeps, OthersKeep DEF Next

\* The inductive invariant holds throughout: the lease counters are exact, a
\* completion is alone, and rows, temp files and destinations agree.
THEOREM InductiveInvariant == Spec => []IInv
BY IInvInit, IInvNext, PTL DEF Spec

\* A completion always has its session to itself (beginCompletion).
THEOREM CompletionIsExclusive == Spec => []CompletionExclusive
<1>1. IInv => CompletionExclusive
  BY DEF IInv
<1>. QED  BY <1>1, InductiveInvariant, PTL

\* No upload ever places other bytes than the declared ones (complete,
\* PublishReader).
THEOREM PublishedIsIntact == Spec => []PublishedIntact
<1>1. IInv => PublishedIntact
  BY DEF IInv, AllIntact, PublishedIntact
<1>. QED  BY <1>1, InductiveInvariant, PTL

\* A session in use keeps its row (cleanupStaleLocked, DeleteSession).
THEOREM SessionInUseStays == Spec => []LeaseKeepsSession
<1>1. IInv => LeaseKeepsSession
  BY DEF IInv
<1>. QED  BY <1>1, InductiveInvariant, PTL

\* A recorded chunk has been written (WriteChunk, MarkChunkReceived).
THEOREM RecordedChunkIsWritten == Spec => []RecordedIsWritten
<1>1. IInv => RecordedIsWritten
  BY DEF IInv
<1>. QED  BY <1>1, InductiveInvariant, PTL

\* The recorded outcome is what happened to the destination (complete).
THEOREM OutcomeIsHonest == Spec => []OutcomeHonest
<1>1. IInv => OutcomeHonest
  BY DEF IInv
<1>. QED  BY <1>1, InductiveInvariant, PTL

\* Where link(2) works, an upload without overwrite never replaces or removes
\* a file that is not its own (PublishReader).
THEOREM NoForeignFileReplaced ==
  ASSUME HardLinks
  PROVE  Spec => NoReplace
<1>1. ASSUME IInv, IInv', [Next]_vars PROVE [\A r \in Reqs : KeepsForeignFile(r)]_vars
  <2>. SUFFICES ASSUME Next, NEW r \in Reqs, NEW s, s = req[r].s, NEW p, p = decl[s].path,
                       req[r].pc \in {"place", "fill"}, req'[r] # req[r], ~decl[s].overwrite,
                       file[p].by \notin {"nobody", s}
                PROVE  file'[p] = file[p]
    BY <1>1 DEF KeepsForeignFile
  <2>0. TypeOK /\ req[r].pc = "place"
    BY <1>1, IInvParts DEF ReqOK
  <2>1. ASSUME NEW q \in Reqs, PutNext(q) \/ CompleteNext(q) \/ Leave(q) \/ \E t \in Sessions : StatusBegin(q, t)
        PROVE  file'[p] = file[p]
    <3>1. CASE PublishPlace(q)
      <4>1. q = r
        BY <2>0, <3>1 DEF PublishPlace, Goto, TypeOK
      <4>. QED  BY <3>1, <4>1 DEF PublishPlace, Exists
    <3>2. ASSUME NEW ok \in BOOLEAN, PublishFill(q, ok) PROVE FALSE
      BY <1>1, <3>2, IInvParts DEF PublishFill, ReqOK
    <3>3. CASE file' = file
      BY <3>3
    <3>4. \/ file' = file \/ PublishPlace(q) \/ \E ok \in BOOLEAN : PublishFill(q, ok)
      BY <2>1 DEF PutNext, CompleteNext, Leave, StatusBegin, PutBegin, PutRefused, PutLease, PutCheck,
                  PutWrite, PutMark, CompleteBegin, CompleteIncomplete, Complete, PublishCopy, PublishError,
                  CompleteUnlink, CompleteRecord, CompleteRelease
    <3>. QED  BY <3>1, <3>2, <3>3, <3>4
  <2>2. CASE ManagerNext
    BY <2>2 DEF ManagerNext, OpenSession, DeleteSession, Sweep, SweepWith
  <2>3. CASE OutsideNext
    BY <2>3 DEF OutsideNext, Age, OutsideWrite, Restart, SweepWith
  <2>. QED  BY <2>1, <2>2, <2>3 DEF Next
<1>. QED  BY <1>1, InductiveInvariant, PTL DEF Spec, NoReplace
====
