--------------------------- MODULE TransferProofs ---------------------------
(***************************************************************************)
(* Machine-checked proofs about TransferManager, for every number of       *)
(* sessions, chunks, devices and concurrent requests, and every quota.     *)
(***************************************************************************)
EXTENDS TransferManager, FiniteSetTheorems, TLAPS

LEMMA DeclNonempty == Decl # {}
<1>1. PICK d \in Devices, p \in Paths, z \in Sizes : TRUE
  BY TransferAssumption
<1>2. [dev |-> d, path |-> p, size |-> z, overwrite |-> TRUE] \in Decl
  BY DEF Decl
<1>. QED  BY <1>2

LEMMA IdleType == Idle \in Req
BY TransferAssumption DEF Idle, Req, PC, Data

LEMMA FileType == NoFile \in File /\ OtherFile \in File
BY DEF NoFile, OtherFile, File

LEMMA TypeInit == Init => TypeOK
<1>. SUFFICES ASSUME Init PROVE TypeOK
  OBVIOUS
<1>1. (CHOOSE d \in Decl : TRUE) \in Decl
  BY DeclNonempty
<1>2. decl \in [Sessions -> Decl]
  BY <1>1 DEF Init
<1>3. file \in [Paths -> File]
  <2>1. {NoFile, OtherFile} \subseteq File
    BY FileType
  <2>. QED  BY <2>1 DEF Init
<1>4. req \in [Reqs -> Req]
  BY IdleType DEF Init
<1>5. data \in [Sessions -> [Chunks -> Data]]
  BY DEF Init, Hole, Data
<1>. QED
  BY <1>2, <1>3, <1>4, <1>5 DEF Init, TypeOK, Status, Stamp

\* The parts of the state a step may touch keep their types.
LEMMA SweepType ==
  ASSUME TypeOK, NEW act \in [Sessions -> Nat], NEW stuck \in SUBSET onDisk, SweepWith(act, stuck)
  PROVE  /\ issued' \subseteq Sessions /\ status' \in [Sessions -> Status]
         /\ stamp' \in [Sessions -> Stamp] /\ received' \in [Sessions -> SUBSET Chunks]
         /\ decl' \in [Sessions -> Decl] /\ onDisk' \subseteq Sessions
         /\ data' \in [Sessions -> [Chunks -> Data]] /\ oldTemp' \subseteq onDisk'
         /\ file' \in [Paths -> File] /\ published' \subseteq Sessions
<1>1. data' \in [Sessions -> [Chunks -> Data]]
  BY DEF SweepWith, ReplaceTemps, TypeOK, Hole, Data
<1>2. status' \in [Sessions -> Status] /\ stamp' \in [Sessions -> Stamp]
  BY DEF SweepWith, StatusSwept, StampSwept, TypeOK, Status, Stamp
<1>3. received' \in [Sessions -> SUBSET Chunks]
  BY DEF SweepWith, ReceivedSwept, TypeOK
<1>4. onDisk' \subseteq Sessions /\ oldTemp' \subseteq onDisk'
  BY DEF SweepWith, ReplaceTemps, TypeOK
<1>. QED  BY <1>1, <1>2, <1>3, <1>4 DEF SweepWith, TypeOK

LEMMA ReqFields ==
  ASSUME TypeOK, NEW r \in Reqs
  PROVE  /\ req[r] \in Req /\ req[r].pc \in PC /\ req[r].s \in Sessions
         /\ req[r].n \in Chunks /\ req[r].d \in Data /\ req[r].copy \in BOOLEAN
BY DEF TypeOK, Req

LEMMA GotoType ==
  ASSUME TypeOK, NEW r \in Reqs, NEW pc \in PC, Goto(r, pc)
  PROVE  req' \in [Reqs -> Req]
<1>1. [req[r] EXCEPT !.pc = pc] \in Req
  BY ReqFields DEF Req
<1>2. req' = [req EXCEPT ![r] = [req[r] EXCEPT !.pc = pc]]
  BY DEF Goto, TypeOK
<1>. QED  BY <1>1, <1>2 DEF TypeOK

LEMMA FinishType ==
  ASSUME TypeOK, NEW r \in Reqs, Finish(r)
  PROVE  req' \in [Reqs -> Req]
BY IdleType DEF Finish, TypeOK

LEMMA LeaseType ==
  ASSUME TypeOK, NEW s \in Sessions,
         BeginActivity(s) \/ EndActivity(s) \/ BeginCompletion(s) \/ EndCompletion(s) \/ UNCHANGED lease
  PROVE  active' \in [Sessions -> Nat] /\ completing' \subseteq Sessions
BY DEF TypeOK, BeginActivity, EndActivity, BeginCompletion, EndCompletion, lease

LEMMA TouchType ==
  ASSUME TypeOK, NEW s \in Sessions, Touch(s)
  PROVE  stamp' \in [Sessions -> Stamp]
BY DEF TypeOK, Touch, Stamp

LEMMA TempsType ==
  ASSUME TypeOK, NEW gone, NEW new \in SUBSET Sessions, ReplaceTemps(gone, new)
  PROVE  /\ onDisk' \subseteq Sessions /\ oldTemp' \subseteq onDisk'
         /\ data' \in [Sessions -> [Chunks -> Data]]
BY DEF TypeOK, ReplaceTemps, Hole, Data

LEMMA StatusType ==
  ASSUME TypeOK, NEW s \in Sessions, NEW final \in Status,
         SetStatus(s, final) \/ DeleteRow(s) \/ UNCHANGED row
  PROVE  /\ status' \in [Sessions -> Status] /\ stamp' \in [Sessions -> Stamp]
         /\ received' \in [Sessions -> SUBSET Chunks] /\ decl' \in [Sessions -> Decl]
BY DEF TypeOK, SetStatus, DeleteRow, row, Status, Stamp

LEMMA TypeNext == TypeOK /\ [Next]_vars => TypeOK'
<1>. SUFFICES ASSUME TypeOK, [Next]_vars PROVE TypeOK'
  OBVIOUS
<1>. USE DEF PC, PutPC, VerifyPC
<1>1. ASSUME NEW r \in Reqs, PutNext(r) PROVE TypeOK'
  <2>. DEFINE sr == req[r].s
  <2>0. sr \in Sessions /\ req[r].n \in Chunks /\ req[r].d \in Data
    BY ReqFields
  <2>. HIDE DEF sr
  <2>1. ASSUME NEW s \in Sessions, NEW n \in Chunks, NEW d \in {"good", "bad"}, PutBegin(r, s, n, d)
        PROVE  TypeOK'
    <3>1. req' \in [Reqs -> Req]
      <4>1. [pc |-> "body", s |-> s, n |-> n, d |-> d, copy |-> FALSE] \in Req
        BY DEF Req, Data
      <4>. QED  BY <2>1, <4>1 DEF PutBegin, TypeOK
    <3>2. active' \in [Sessions -> Nat] /\ completing' \subseteq Sessions /\ stamp' \in [Sessions -> Stamp]
      BY <2>1, LeaseType, TouchType DEF PutBegin, BeginActivity
    <3>. QED  BY <2>1, <3>1, <3>2 DEF PutBegin, TypeOK, temp
  <2>2. CASE PutRefused(r)
    <3>1. active' \in [Sessions -> Nat] /\ completing' \subseteq Sessions /\ req' \in [Reqs -> Req]
      BY <2>0, <2>2, LeaseType, FinishType DEF PutRefused, sr
    <3>. QED  BY <2>2, <3>1 DEF PutRefused, TypeOK, row, temp
  <2>3. CASE PutLease(r)
    <3>1. active' \in [Sessions -> Nat] /\ completing' \subseteq Sessions /\ stamp' \in [Sessions -> Stamp]
      BY <2>0, <2>3, LeaseType, TouchType DEF PutLease, BeginActivity, sr
    <3>2. req' \in [Reqs -> Req]
      BY <2>3, GotoType DEF PutLease
    <3>. QED  BY <2>3, <3>1, <3>2 DEF PutLease, TypeOK, temp
  <2>4. ASSUME NEW accepted \in BOOLEAN, PutCheck(r, accepted) PROVE TypeOK'
    <3>1. active' \in [Sessions -> Nat] /\ completing' \subseteq Sessions
      BY <2>0, <2>4, LeaseType DEF PutCheck, sr
    <3>2. req' \in [Reqs -> Req]
      BY <2>4, GotoType DEF PutCheck
    <3>. QED  BY <2>4, <3>1, <3>2 DEF PutCheck, TypeOK, row, temp
  <2>5. ASSUME NEW torn \in BOOLEAN, PutWrite(r, torn) PROVE TypeOK'
    <3>1. active' \in [Sessions -> Nat] /\ completing' \subseteq Sessions
      BY <2>0, <2>5, LeaseType DEF PutWrite, sr
    <3>2. req' \in [Reqs -> Req]
      BY <2>5, GotoType DEF PutWrite
    <3>3. onDisk' \subseteq Sessions /\ oldTemp' \subseteq onDisk'
      BY <2>5 DEF PutWrite, TypeOK, temp
    <3>4. data' \in [Sessions -> [Chunks -> Data]]
      <4>1. CASE sr \in onDisk
        <5>1. PICK b \in Data : data' = [data EXCEPT ![sr][req[r].n] = b]
          BY <2>0, <2>5, <4>1 DEF PutWrite, Data, sr
        <5>2. [data[sr] EXCEPT ![req[r].n] = b] \in [Chunks -> Data]
          BY <2>0 DEF TypeOK
        <5>. QED  BY <2>0, <5>1, <5>2 DEF TypeOK
      <4>. QED  BY <2>5, <4>1 DEF PutWrite, TypeOK, temp, sr
    <3>. QED  BY <2>5, <3>1, <3>2, <3>3, <3>4 DEF PutWrite, TypeOK, row
  <2>6. ASSUME NEW stored \in BOOLEAN, PutMark(r, stored) PROVE TypeOK'
    <3>1. active' \in [Sessions -> Nat] /\ completing' \subseteq Sessions
      BY <2>0, <2>6, LeaseType DEF PutMark, sr
    <3>2. req' \in [Reqs -> Req]
      BY <2>6, GotoType DEF PutMark
    <3>3. stamp' \in [Sessions -> Stamp]
      BY <2>0, <2>6, TouchType DEF PutMark, TypeOK, sr
    <3>4. received' \in [Sessions -> SUBSET Chunks]
      BY <2>0, <2>6 DEF PutMark, TypeOK, sr
    <3>. QED  BY <2>6, <3>1, <3>2, <3>3, <3>4 DEF PutMark, TypeOK, temp
  <2>. QED  BY <1>1, <2>1, <2>2, <2>3, <2>4, <2>5, <2>6 DEF PutNext
<1>2. ASSUME NEW r \in Reqs, CompleteNext(r) PROVE TypeOK'
  <2>. DEFINE sr == req[r].s
  <2>0. sr \in Sessions /\ req[r].copy \in BOOLEAN
    BY ReqFields
  <2>. HIDE DEF sr
  <2>1. ASSUME NEW s \in Sessions, CompleteBegin(r, s) PROVE TypeOK'
    <3>1. req' \in [Reqs -> Req]
      <4>1. [Idle EXCEPT !.pc = "verify", !.s = s] \in Req
        BY IdleType DEF Req
      <4>. QED  BY <2>1, <4>1 DEF CompleteBegin, TypeOK
    <3>2. active' \in [Sessions -> Nat] /\ completing' \subseteq Sessions /\ stamp' \in [Sessions -> Stamp]
      BY <2>1, LeaseType, TouchType DEF CompleteBegin, BeginCompletion
    <3>. QED  BY <2>1, <3>1, <3>2 DEF CompleteBegin, TypeOK, temp
  <2>2. CASE CompleteIncomplete(r)
    BY <2>2, GotoType DEF CompleteIncomplete, TypeOK, row, temp, lease
  <2>3. CASE Complete(r)
    <3>1. req' \in [Reqs -> Req]
      BY <2>3, GotoType DEF Complete
    <3>2. UNCHANGED row \/ SetStatus(sr, "failed")
      BY <2>3 DEF Complete, sr
    <3>3. /\ status' \in [Sessions -> Status] /\ stamp' \in [Sessions -> Stamp]
          /\ received' \in [Sessions -> SUBSET Chunks] /\ decl' \in [Sessions -> Decl]
      BY <2>0, <3>2, StatusType, "failed" \in Status DEF Status
    <3>. QED  BY <2>3, <3>1, <3>3 DEF Complete, TypeOK, temp, lease
  <2>4. CASE PublishCopy(r)
    <3>1. req' \in [Reqs -> Req]
      <4>1. PICK c \in BOOLEAN : req' = [req EXCEPT ![r].pc = "place", ![r].copy = c]
        BY <2>4 DEF PublishCopy, AllGood
      <4>2. [req[r] EXCEPT !.pc = "place", !.copy = c] \in Req
        BY ReqFields DEF Req
      <4>3. req' = [req EXCEPT ![r] = [req[r] EXCEPT !.pc = "place", !.copy = c]]
        BY <4>1 DEF TypeOK
      <4>. QED  BY <4>2, <4>3 DEF TypeOK
    <3>. QED  BY <2>4, <3>1 DEF PublishCopy, TypeOK, row, temp, lease
  <2>5. CASE PublishError(r)
    BY <2>5, GotoType DEF PublishError, TypeOK, row, temp, lease
  <2>6. CASE PublishPlace(r)
    <3>1. req' \in [Reqs -> Req]
      BY <2>6, GotoType DEF PublishPlace
    <3>2. published' \subseteq Sessions
      BY <2>0, <2>6 DEF PublishPlace, TypeOK, sr
    <3>3. file' \in [Paths -> File]
      <4>1. \A w \in BOOLEAN : [by |-> sr, whole |-> w, intact |-> req[r].copy] \in File
        BY <2>0 DEF File
      <4>. QED  BY <2>6, <4>1 DEF PublishPlace, TypeOK, sr
    <3>. QED  BY <2>6, <3>1, <3>2, <3>3 DEF PublishPlace, TypeOK, row, temp, lease
  <2>7. ASSUME NEW ok \in BOOLEAN, PublishFill(r, ok) PROVE TypeOK'
    <3>1. req' \in [Reqs -> Req]
      BY <2>7, GotoType DEF PublishFill
    <3>2. published' \subseteq Sessions
      BY <2>0, <2>7 DEF PublishFill, TypeOK, sr
    <3>3. file' \in [Paths -> File]
      <4>1. \A f \in File : [f EXCEPT !.whole = TRUE] \in File
        BY DEF File
      <4>2. decl[sr].path \in Paths
        BY <2>0 DEF TypeOK, Decl
      <4>. QED  BY <2>7, <4>1, <4>2, FileType DEF PublishFill, TypeOK, sr
    <3>. QED  BY <2>7, <3>1, <3>2, <3>3 DEF PublishFill, TypeOK, row, temp, lease
  <2>8. ASSUME NEW removed \in BOOLEAN, CompleteUnlink(r, removed) PROVE TypeOK'
    <3>1. req' \in [Reqs -> Req]
      BY <2>8, GotoType DEF CompleteUnlink
    <3>2. onDisk' \subseteq Sessions /\ oldTemp' \subseteq onDisk' /\ data' \in [Sessions -> [Chunks -> Data]]
      BY <2>8, TempsType DEF CompleteUnlink
    <3>. QED  BY <2>8, <3>1, <3>2 DEF CompleteUnlink, TypeOK, row, lease
  <2>9. CASE CompleteRecord(r)
    <3>1. req' \in [Reqs -> Req]
      BY <2>9, GotoType DEF CompleteRecord
    <3>2. /\ status' \in [Sessions -> Status] /\ stamp' \in [Sessions -> Stamp]
          /\ received' \in [Sessions -> SUBSET Chunks] /\ decl' \in [Sessions -> Decl]
      BY <2>0, <2>9, StatusType, "completed" \in Status DEF Status, CompleteRecord, sr
    <3>. QED  BY <2>9, <3>1, <3>2 DEF CompleteRecord, TypeOK, temp, lease
  <2>10. CASE CompleteRelease(r)
    <3>1. active' \in [Sessions -> Nat] /\ completing' \subseteq Sessions /\ req' \in [Reqs -> Req]
      BY <2>0, <2>10, LeaseType, FinishType DEF CompleteRelease, sr
    <3>. QED  BY <2>10, <3>1 DEF CompleteRelease, TypeOK, row, temp
  <2>. QED
    BY <1>2, <2>1, <2>2, <2>3, <2>4, <2>5, <2>6, <2>7, <2>8, <2>9, <2>10 DEF CompleteNext
<1>3. ASSUME NEW r \in Reqs, Leave(r) PROVE TypeOK'
  <2>1. active' \in [Sessions -> Nat] /\ completing' \subseteq Sessions /\ req' \in [Reqs -> Req]
    BY <1>3, ReqFields, LeaseType, FinishType DEF Leave
  <2>. QED  BY <1>3, <2>1 DEF Leave, TypeOK, row, temp
<1>4. ASSUME NEW r \in Reqs, NEW s \in Sessions, StatusBegin(r, s) PROVE TypeOK'
  <2>1. req' \in [Reqs -> Req]
    <3>1. [Idle EXCEPT !.pc = "leave", !.s = s] \in Req
      BY IdleType DEF Req
    <3>. QED  BY <1>4, <3>1 DEF StatusBegin, TypeOK
  <2>2. active' \in [Sessions -> Nat] /\ completing' \subseteq Sessions /\ stamp' \in [Sessions -> Stamp]
    BY <1>4, LeaseType, TouchType DEF StatusBegin, BeginActivity
  <2>. QED  BY <1>4, <2>1, <2>2 DEF StatusBegin, TypeOK, temp
<1>5. CASE ManagerNext
  <2>1. ASSUME NEW s \in Sessions, NEW d \in Decl, NEW allocated \in BOOLEAN, OpenSession(s, d, allocated)
        PROVE  TypeOK'
    <3>1. onDisk' \subseteq Sessions /\ oldTemp' \subseteq onDisk' /\ data' \in [Sessions -> [Chunks -> Data]]
      BY <2>1, TempsType DEF OpenSession
    <3>2. status' \in [Sessions -> Status]
      BY <2>1 DEF OpenSession, StatusSwept, TypeOK, Status
    <3>3. stamp' \in [Sessions -> Stamp] /\ received' \in [Sessions -> SUBSET Chunks]
      BY <2>1 DEF OpenSession, StampSwept, ReceivedSwept, TypeOK, Stamp
    <3>4. issued' \subseteq Sessions /\ decl' \in [Sessions -> Decl]
      BY <2>1 DEF OpenSession, TypeOK
    <3>. QED  BY <2>1, <3>1, <3>2, <3>3, <3>4 DEF OpenSession, TypeOK, lease
  <2>2. ASSUME NEW s \in Sessions, NEW removed \in BOOLEAN, DeleteSession(s, removed) PROVE TypeOK'
    <3>1. onDisk' \subseteq Sessions /\ oldTemp' \subseteq onDisk' /\ data' \in [Sessions -> [Chunks -> Data]]
      BY <2>2, TempsType DEF DeleteSession
    <3>2. /\ status' \in [Sessions -> Status] /\ stamp' \in [Sessions -> Stamp]
          /\ received' \in [Sessions -> SUBSET Chunks] /\ decl' \in [Sessions -> Decl]
      BY <2>2, StatusType, "none" \in Status DEF Status, DeleteSession
    <3>. QED  BY <2>2, <3>1, <3>2 DEF DeleteSession, TypeOK, lease
  <2>3. ASSUME NEW stuck \in SUBSET onDisk, Sweep(stuck) PROVE TypeOK'
    <3>1. active \in [Sessions -> Nat] /\ SweepWith(active, stuck)
      BY <2>3 DEF Sweep, TypeOK
    <3>. QED  BY <2>3, <3>1, SweepType DEF Sweep, TypeOK, lease
  <2>. QED  BY <1>5, <2>1, <2>2, <2>3 DEF ManagerNext
<1>6. CASE OutsideNext
  <2>1. ASSUME NEW s \in Sessions, Age(s) PROVE TypeOK'
    <3>1. stamp' \in [Sessions -> Stamp] /\ oldTemp' \subseteq onDisk'
      BY <2>1 DEF Age, TypeOK, Stamp
    <3>. QED  BY <2>1, <3>1 DEF Age, TypeOK, lease
  <2>2. ASSUME NEW p \in Paths, OutsideWrite(p) PROVE TypeOK'
    <3>1. file' \in [Paths -> File]
      BY <2>2, FileType DEF OutsideWrite, TypeOK
    <3>. QED  BY <2>2, <3>1 DEF OutsideWrite, TypeOK, row, temp, lease
  <2>3. ASSUME NEW stuck \in SUBSET onDisk, Restart(stuck) PROVE TypeOK'
    <3>. DEFINE none == [s \in Sessions |-> 0]
    <3>1. none \in [Sessions -> Nat] /\ SweepWith(none, stuck)
      BY <2>3 DEF Restart
    <3>2. active' \in [Sessions -> Nat] /\ completing' \subseteq Sessions /\ req' \in [Reqs -> Req]
      BY <2>3, IdleType DEF Restart
    <3>. HIDE DEF none
    <3>. QED  BY <3>1, <3>2, SweepType DEF TypeOK
  <2>. QED  BY <1>6, <2>1, <2>2, <2>3 DEF OutsideNext
<1>7. CASE UNCHANGED vars
  BY <1>7 DEF vars, row, temp, lease, TypeOK
<1>. QED  BY <1>1, <1>2, <1>3, <1>4, <1>5, <1>6, <1>7 DEF Next

\* Type correctness of the upload manager, for every value of the constants.
THEOREM TypeCorrect == Spec => []TypeOK
BY TypeInit, TypeNext, PTL DEF Spec
====
