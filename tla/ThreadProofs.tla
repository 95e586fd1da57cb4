---------------------------- MODULE ThreadProofs ----------------------------
(***************************************************************************)
(* IntakeThreads for every set of workers, ids, names and bytes: what the  *)
(* statements of interleaved handlers keep, and that handlers served one   *)
(* at a time are the atomic ones of Intake.                                *)
(***************************************************************************)
EXTENDS IntakeThreads, FiniteSetTheorems, TLAPS

----------------------------------------------------------------------------
(* Requests.  What a request is asked for tells the rest of its fields.       *)

LEMMA PoolKinds ==
    ASSUME NEW r \in PoolRequest
    PROVE  /\ r.op = "idle" => r = Idle
           /\ r.op = "create" => r \in CreateRequest
           /\ r.op = "transition" => r \in TransitionRequest
           /\ r.op = "decision" => r \in DecisionRequest
           /\ r.op = "block" => r \in BlockRequest
           /\ r.op = "unblock" => r \in UnblockRequest
           /\ r.op # "evidence"
  BY DEF PoolRequest, Idle, CreateRequest, TransitionRequest, DecisionRequest, BlockRequest,
     UnblockRequest

LEMMA LoopKinds ==
    ASSUME NEW r \in {Idle} \union EvidenceRequest
    PROVE  /\ r.op = "idle" => r = Idle
           /\ r.op # "idle" => r.op = "evidence" /\ r \in EvidenceRequest
  BY DEF Idle, EvidenceRequest

\* Requests are where their workers can serve them.
RequestsOK ==
    /\ req \in [Workers -> Request]
    /\ req[Loop] \in {Idle} \union EvidenceRequest
    /\ \A w \in Pool : req[w] \in PoolRequest

LEMMA PoolTurn ==
    ASSUME RequestsOK, NEW w \in Pool, NEW r \in PoolRequest, req' = [req EXCEPT ![w] = r]
    PROVE  RequestsOK'
  BY ThreadsAssumption DEF RequestsOK, Workers, Request

LEMMA LoopTurn ==
    ASSUME RequestsOK, NEW r \in {Idle} \union EvidenceRequest, req' = [req EXCEPT ![Loop] = r]
    PROVE  RequestsOK'
  BY ThreadsAssumption DEF RequestsOK, Workers, Request, PoolRequest

\* A step of a handler on the pool moves its request on, or ends it.
LEMMA StepKeepsRequests ==
    ASSUME RequestsOK, NEW w \in Pool, Step(w)
    PROVE  RequestsOK'
  <1>0. req[w] \in PoolRequest
    BY DEF RequestsOK
  <1> DEFINE r(to) == [req[w] EXCEPT !.pc = to]
  <1>1. CASE InsertIntake(w) \/ LogCreated(w)
    <2>1. req[w] \in CreateRequest
      BY <1>0, <1>1, PoolKinds DEF InsertIntake, LogCreated, LogStatus, At
    <2>2. r("log") \in PoolRequest /\ r("commit") \in PoolRequest
      BY <2>1 DEF CreateRequest, PoolRequest
    <2> QED
      BY <1>1, <2>2, PoolTurn DEF InsertIntake, LogCreated, LogStatus, Goto
  <1>2. CASE CheckBlock(w) \/ UpdateStatus(w) \/ LogTransition(w)
    <2>1. req[w] \in TransitionRequest
      BY <1>0, <1>2, PoolKinds DEF CheckBlock, UpdateStatus, LogTransition, LogStatus, At
    <2>2. \A to \in {"update", "log", "commit"} : r(to) \in PoolRequest
      BY <2>1 DEF TransitionRequest, PoolRequest
    <2>3. Idle \in PoolRequest
      BY DEF PoolRequest
    <2> QED
      BY <1>2, <2>2, <2>3, PoolTurn DEF CheckBlock, UpdateStatus, LogTransition, LogStatus, Goto
  <1>3. CASE UpdateDecision(w) \/ LogDecision(w)
    <2>1. req[w] \in DecisionRequest
      BY <1>0, <1>3, PoolKinds DEF UpdateDecision, LogDecision, LogStatus, At
    <2>2. r("log") \in PoolRequest /\ r("commit") \in PoolRequest
      BY <2>1 DEF DecisionRequest, PoolRequest
    <2> QED
      BY <1>3, <2>2, PoolTurn DEF UpdateDecision, LogDecision, LogStatus, Goto
  <1>4. CASE InsertBlock(w)
    <2>1. req[w] \in BlockRequest
      BY <1>0, <1>4, PoolKinds DEF InsertBlock, At
    <2>2. r("commit") \in PoolRequest
      BY <2>1 DEF BlockRequest, PoolRequest
    <2> QED
      BY <1>4, <2>2, PoolTurn DEF InsertBlock, Goto
  <1>5. CASE CloseBlock(w)
    <2>1. req[w] \in UnblockRequest
      BY <1>0, <1>5, PoolKinds DEF CloseBlock, At
    <2>2. r("commit") \in PoolRequest
      BY <2>1 DEF UnblockRequest, PoolRequest
    <2> QED
      BY <1>5, <2>2, PoolTurn DEF CloseBlock, Goto
  <1> QED
    BY <1>1, <1>2, <1>3, <1>4, <1>5 DEF Step

LEMMA EvidenceKeepsRequests ==
    ASSUME RequestsOK,
           \/ WriteFile \/ SupersedeOld \/ Requeue \/ LogRequeued \/ InsertEvidence \/ CheckThread
           \/ EvidenceFails
    PROVE  RequestsOK'
  <1> DEFINE r(to) == [req[Loop] EXCEPT !.pc = to]
  <1>1. req[Loop] \in EvidenceRequest
    BY LoopKinds DEF RequestsOK, WriteFile, SupersedeOld, Requeue, LogRequeued, InsertEvidence,
       CheckThread, EvidenceFails, At
  <1>2. \A to \in {"supersede", "requeue", "relog", "insert", "thread", "commit"} :
           r(to) \in {Idle} \union EvidenceRequest
    BY <1>1 DEF EvidenceRequest
  <1>3. CASE EvidenceFails
    BY <1>3, LoopTurn DEF EvidenceFails
  <1>4. CASE ~EvidenceFails
    BY <1>2, <1>4, LoopTurn DEF WriteFile, SupersedeOld, Requeue, LogRequeued, InsertEvidence,
       CheckThread, Goto
  <1> QED
    BY <1>3, <1>4

----------------------------------------------------------------------------
(* The tables, and the one row or column that a statement writes.             *)

LEMMA IntakeWritten ==
    ASSUME NEW t \in Tables, NEW i \in Intakes, NEW row \in IntakeRow
    PROVE  [t EXCEPT !.intake[i] = row] \in Tables
  BY DEF Tables

LEMMA StatusWritten ==
    ASSUME NEW t \in Tables, NEW i \in Intakes, NEW s \in Statuses
    PROVE  [t EXCEPT !.intake[i].status = s] \in Tables
  <1>1. t.intake[i] \in IntakeRow
    BY DEF Tables
  <1>2. [t.intake[i] EXCEPT !.status = s] \in IntakeRow
    BY <1>1 DEF IntakeRow
  <1> QED
    BY <1>2, IntakeWritten

LEMMA AuditWritten ==
    ASSUME NEW t \in Tables, NEW i \in Intakes, NEW p \in Personas, NEW s \in Statuses
    PROVE  [t EXCEPT !.audit[i] = Stated(p, s)] \in Tables
  <1>1. Stated(p, s) \in AuditRow
    BY DEF Stated, AuditRow
  <1> QED
    BY <1>1 DEF Tables

LEMMA EvidenceWritten ==
    ASSUME NEW t \in Tables, NEW rows \in SUBSET EvidenceRow, NEW u,
           u = [t EXCEPT !.evidence = rows]
    PROVE  u \in Tables
  BY DEF Tables

LEMMA SupersededAreRows ==
    ASSUME NEW rows \in SUBSET EvidenceRow
    PROVE  Superseded(rows) \in SUBSET EvidenceRow
  <1>1. ASSUME NEW r \in rows PROVE [r EXCEPT !.live = FALSE] \in EvidenceRow
    BY DEF EvidenceRow
  <1> QED
    BY <1>1 DEF Superseded

LEMMA StepKeepsTables ==
    ASSUME RequestsOK, db \in Tables, NEW w \in Pool, Step(w)
    PROVE  db' \in Tables
  <1>0. req[w] \in PoolRequest
    BY DEF RequestsOK
  <1>1. CASE InsertIntake(w)
    <2>1. req[w] \in CreateRequest
      BY <1>0, <1>1, PoolKinds DEF InsertIntake, At
    <2> DEFINE i == req[w].intake
               row == [db.intake[i] EXCEPT !.status = "draft", !.owner = req[w].who]
    <2>2. i \in Intakes /\ req[w].who \in Personas
      BY <2>1 DEF CreateRequest
    <2>3. db.intake[i] \in IntakeRow
      BY <2>2 DEF Tables
    <2>4. row \in IntakeRow
      BY <2>2, <2>3 DEF IntakeRow, Statuses
    <2>5. db' = [db EXCEPT !.intake[i] = row]
      BY <1>1, <2>2 DEF InsertIntake, Tables
    <2> QED
      BY <2>2, <2>4, <2>5, IntakeWritten
  <1>2. CASE LogCreated(w)
    <2>1. req[w] \in CreateRequest
      BY <1>0, <1>2, PoolKinds DEF LogCreated, LogStatus, At
    <2> QED
      BY <1>2, <2>1, AuditWritten DEF LogCreated, LogStatus, CreateRequest, Statuses
  <1>3. CASE CheckBlock(w)
    BY <1>3 DEF CheckBlock
  <1>4. CASE UpdateStatus(w) \/ LogTransition(w)
    <2>1. req[w] \in TransitionRequest
      BY <1>0, <1>4, PoolKinds DEF UpdateStatus, LogTransition, LogStatus, At
    <2> QED
      BY <1>4, <2>1, StatusWritten, AuditWritten DEF UpdateStatus, LogTransition, LogStatus,
         TransitionRequest
  <1>5. CASE UpdateDecision(w)
    <2>1. req[w] \in DecisionRequest
      BY <1>0, <1>5, PoolKinds DEF UpdateDecision, At
    <2> DEFINE i == req[w].intake
               row == [db.intake[i] EXCEPT !.decision = req[w].decision, !.status = req[w].status]
    <2>2. i \in Intakes /\ req[w].decision \in Decisions /\ req[w].status \in Statuses
      BY <2>1 DEF DecisionRequest
    <2>3. db.intake[i] \in IntakeRow
      BY <2>2 DEF Tables
    <2>4. row \in IntakeRow
      BY <2>2, <2>3 DEF IntakeRow
    <2>5. db' = [db EXCEPT !.intake[i] = row]
      BY <1>5, <2>2 DEF UpdateDecision, Tables
    <2> QED
      BY <2>2, <2>4, <2>5, IntakeWritten
  <1>6. CASE LogDecision(w)
    <2>1. req[w] \in DecisionRequest
      BY <1>0, <1>6, PoolKinds DEF LogDecision, LogStatus, At
    <2> QED
      BY <1>6, <2>1, AuditWritten DEF LogDecision, LogStatus, DecisionRequest, Statuses
  <1>7. CASE InsertBlock(w)
    <2>1. req[w] \in BlockRequest
      BY <1>0, <1>7, PoolKinds DEF InsertBlock, At
    <2> QED
      BY <1>7, <2>1 DEF InsertBlock, BlockRequest, Tables, BlockRow
  <1>8. CASE CloseBlock(w)
    <2>1. req[w] \in UnblockRequest
      BY <1>0, <1>8, PoolKinds DEF CloseBlock, At
    <2>2. req[w].id \in BlockIds
      BY <2>1 DEF UnblockRequest
    <2>3. [db.block[req[w].id] EXCEPT !.open = FALSE] \in BlockRow
      BY <2>2 DEF Tables, BlockRow
    <2> QED
      BY <1>8, <2>2, <2>3 DEF CloseBlock, Tables
  <1> QED
    BY <1>1, <1>2, <1>3, <1>4, <1>5, <1>6, <1>7, <1>8 DEF Step

LEMMA EvidenceKeepsTables ==
    ASSUME RequestsOK, db \in Tables,
           \/ WriteFile \/ SupersedeOld \/ Requeue \/ LogRequeued \/ InsertEvidence \/ CheckThread
           \/ EvidenceFails
    PROVE  db' \in Tables
  <1> DEFINE r == req[Loop]
  <1>0. req[Loop] \in EvidenceRequest
    BY LoopKinds DEF RequestsOK, WriteFile, SupersedeOld, Requeue, LogRequeued, InsertEvidence,
       CheckThread, EvidenceFails, At
  <1>1. /\ r.intake \in Intakes /\ r.who \in Personas /\ r.name \in Names
        /\ r.content \in Contents /\ r.old \in SUBSET EvidenceRow
    BY <1>0 DEF EvidenceRequest
  <1>2. CASE WriteFile \/ EvidenceFails
    BY <1>2 DEF WriteFile, EvidenceFails
  <1>3. CASE SupersedeOld
    <2> DEFINE after == (db.evidence \ r.old) \union Superseded(r.old)
    <2>1. Superseded(r.old) \in SUBSET EvidenceRow
      BY <1>1, SupersededAreRows
    <2>2. after \in SUBSET EvidenceRow
      BY <2>1 DEF Tables
    <2>3. db' = [db EXCEPT !.evidence = after]
      BY <1>3 DEF SupersedeOld
    <2> HIDE DEF after
    <2> QED
      BY <2>2, <2>3, EvidenceWritten
  <1>4. CASE Requeue \/ LogRequeued
    <2>1. "draft" \in Statuses
      BY DEF Statuses
    <2>2. CASE Requeue
      BY <1>1, <2>1, <2>2, StatusWritten DEF Requeue
    <2>3. CASE LogRequeued
      BY <1>1, <2>1, <2>3, AuditWritten DEF LogRequeued
    <2> QED
      BY <1>4, <2>2, <2>3
  <1>5. CASE InsertEvidence
    <2>1. [intake |-> r.intake, name |-> r.name, content |-> r.content, live |-> TRUE]
             \in EvidenceRow
      BY <1>1 DEF EvidenceRow
    <2> QED
      BY <1>5, <2>1 DEF InsertEvidence, Tables
  <1>6. CASE CheckThread
    <2> DEFINE priors == PriorIntakes(db.evidence, r.intake, r.content)
               row    == Uploaded(db.intake[r.intake], FALSE, priors)
    <2>1. priors \in SUBSET Intakes
      BY DEF PriorIntakes, Tables, EvidenceRow
    <2>2. db.intake[r.intake] \in IntakeRow
      BY <1>1 DEF Tables
    <2>3. row \in IntakeRow
      <3> HIDE DEF priors
      <3> QED
        BY <2>1, <2>2 DEF Uploaded, IntakeRow
    <2>4. db' = [db EXCEPT !.intake[r.intake] = row]
      BY <1>6 DEF CheckThread
    <2> HIDE DEF row
    <2> QED
      BY <1>1, <2>3, <2>4, IntakeWritten
  <1> QED
    BY <1>2, <1>3, <1>4, <1>5, <1>6

----------------------------------------------------------------------------
(* Type correctness. *)

\* A request is taken up with what its handler read.
PoolBegins(w) ==
    \E p \in Personas :
        \/ \E i \in Intakes :
              \/ BeginCreate(w, p, i)
              \/ \E to \in Statuses : BeginTransition(w, p, i, to)
              \/ \E d \in Decisions : BeginDecision(w, p, i, d)
        \/ \E target \in Personas :
              \/ \E b \in BlockIds : BeginBlock(w, p, target, b)
              \/ BeginUnblock(w, p, target)

LoopBegins ==
    \E p \in Personas, i \in Intakes, n \in Names, c \in Contents : BeginEvidence(p, i, n, c)

Uploading ==
    \/ WriteFile \/ SupersedeOld \/ Requeue \/ LogRequeued \/ InsertEvidence \/ CheckThread
    \/ EvidenceFails

\* The steps there are, by who takes them.
LEMMA NextCases ==
    ASSUME Next
    PROVE  \/ \E w \in Pool : PoolBegins(w)
           \/ LoopBegins
           \/ Uploading
           \/ \E w \in Pool : Step(w)
           \/ \E w \in Workers : Commit(w)
           \/ Crash
  BY DEF Next, PoolBegins, LoopBegins, Uploading

LEMMA PoolBeginsOne ==
    ASSUME db \in Tables, NEW w \in Pool, PoolBegins(w)
    PROVE  /\ req[w] = Idle
           /\ \E r \in PoolRequest : req' = [req EXCEPT ![w] = r]
           /\ UNCHANGED <<db, disk, files>>
  <1>1. ASSUME NEW p \in Personas, NEW i \in Intakes, BeginCreate(w, p, i)
        PROVE  \E r \in PoolRequest : Begin(w, r)
    <2>1. [op |-> "create", pc |-> "insert", who |-> p, intake |-> i] \in PoolRequest
      BY DEF CreateRequest, PoolRequest
    <2> QED
      BY <1>1, <2>1 DEF BeginCreate
  <1>2. ASSUME NEW p \in Personas, NEW i \in Intakes, NEW to \in Statuses,
               BeginTransition(w, p, i, to)
        PROVE  \E r \in PoolRequest : Begin(w, r)
    <2>1. [op |-> "transition", who |-> p, intake |-> i, to |-> to,
           pc |-> IF to = "sme-confirmed" THEN "block" ELSE "update"] \in PoolRequest
      BY DEF TransitionRequest, PoolRequest
    <2> QED
      BY <1>2, <2>1 DEF BeginTransition
  <1>3. ASSUME NEW p \in Personas, NEW i \in Intakes, NEW d \in Decisions,
               BeginDecision(w, p, i, d)
        PROVE  \E r \in PoolRequest : Begin(w, r)
    <2>1. db.intake[i] \in IntakeRow
      BY DEF Tables
    <2>2. Ruled(db.intake[i], d).status \in Statuses
      BY <1>3, <2>1 DEF BeginDecision, Issued, Ruled, IntakeRow, Statuses, Decisions
    <2>3. [op |-> "decision", pc |-> "update", who |-> p, intake |-> i, decision |-> d,
           status |-> Ruled(db.intake[i], d).status] \in PoolRequest
      BY <2>2 DEF DecisionRequest, PoolRequest
    <2> QED
      BY <1>3, <2>3 DEF BeginDecision
  <1>4. ASSUME NEW p \in Personas, NEW target \in Personas, NEW b \in BlockIds,
               BeginBlock(w, p, target, b)
        PROVE  \E r \in PoolRequest : Begin(w, r)
    <2>1. [op |-> "block", pc |-> "update", target |-> target, id |-> b] \in PoolRequest
      BY DEF BlockRequest, PoolRequest
    <2> QED
      BY <1>4, <2>1 DEF BeginBlock
  <1>5. ASSUME NEW p \in Personas, NEW target \in Personas, BeginUnblock(w, p, target)
        PROVE  \E r \in PoolRequest : Begin(w, r)
    <2>1. PICK b \in BlockIds : Begin(w, [op |-> "unblock", pc |-> "update", id |-> b])
      BY <1>5 DEF BeginUnblock, OpenBlocks
    <2>2. [op |-> "unblock", pc |-> "update", id |-> b] \in PoolRequest
      BY DEF UnblockRequest, PoolRequest
    <2> QED
      BY <2>1, <2>2
  <1> QED
    BY <1>1, <1>2, <1>3, <1>4, <1>5 DEF PoolBegins, Begin

LEMMA LoopBeginsOne ==
    ASSUME db \in Tables, LoopBegins
    PROVE  /\ req[Loop] = Idle
           /\ \E r \in EvidenceRequest : req' = [req EXCEPT ![Loop] = r]
           /\ UNCHANGED <<db, disk, files>>
  <1>1. PICK p \in Personas, i \in Intakes, n \in Names, c \in Contents : BeginEvidence(p, i, n, c)
    BY DEF LoopBegins
  <1> DEFINE old == LiveRows(db.evidence, i, n)
             r == [op |-> "evidence", pc |-> "file", who |-> p, intake |-> i, name |-> n,
                   content |-> c, old |-> old,
                   requeue |-> old # {} /\ db.intake[i].status \in RequeueFrom]
  <1>2. Begin(Loop, r)
    BY <1>1 DEF BeginEvidence
  <1>3. old \in SUBSET EvidenceRow
    BY DEF LiveRows, Tables
  <1>4. r \in EvidenceRequest
    BY <1>3 DEF EvidenceRequest
  <1> HIDE DEF r
  <1> QED
    BY <1>2, <1>4 DEF Begin

FilesOK == files \in [Intakes \X Names -> Contents \union {NoBytes, Torn}]

LEMMA NextKeepsTypes == TypeOK /\ [Next]_vars => TypeOK'
  <1> SUFFICES ASSUME TypeOK, [Next]_vars PROVE TypeOK'
    OBVIOUS
  <1>0. db \in Tables /\ disk \in Tables /\ RequestsOK /\ FilesOK
    BY DEF TypeOK, RequestsOK, FilesOK
  <1>1. SUFFICES db' \in Tables /\ disk' \in Tables /\ RequestsOK' /\ FilesOK'
    BY DEF TypeOK, RequestsOK, FilesOK
  <1>2. ASSUME NEW w \in Pool, PoolBegins(w)
        PROVE  db' \in Tables /\ disk' \in Tables /\ RequestsOK' /\ FilesOK'
    BY <1>0, <1>2, PoolBeginsOne, PoolTurn DEF FilesOK
  <1>3. CASE LoopBegins
    BY <1>0, <1>3, LoopBeginsOne, LoopTurn DEF FilesOK
  <1>4. CASE Uploading
    <2>1. db' \in Tables /\ RequestsOK' /\ disk' = disk
      BY <1>0, <1>4, EvidenceKeepsTables, EvidenceKeepsRequests
         DEF Uploading, WriteFile, SupersedeOld, Requeue, LogRequeued, InsertEvidence, CheckThread,
             EvidenceFails
    <2>2. CASE WriteFile
      <3>1. req[Loop] \in EvidenceRequest
        BY <1>0, <2>2, LoopKinds DEF RequestsOK, WriteFile, At
      <3>2. req[Loop].content \in Contents
        BY <3>1 DEF EvidenceRequest
      <3> QED
        BY <1>0, <2>1, <2>2, <3>2 DEF WriteFile, FilesOK
    <2>3. CASE EvidenceFails
      BY <1>0, <2>1, <2>3 DEF EvidenceFails, FilesOK
    <2> QED
      BY <1>0, <1>4, <2>1, <2>2, <2>3
         DEF Uploading, FilesOK, SupersedeOld, Requeue, LogRequeued, InsertEvidence, CheckThread
  <1>5. ASSUME NEW w \in Pool, Step(w)
        PROVE  db' \in Tables /\ disk' \in Tables /\ RequestsOK' /\ FilesOK'
    <2>1. disk' = disk /\ files' = files
      BY <1>5 DEF Step, InsertIntake, LogCreated, CheckBlock, UpdateStatus, LogTransition,
         UpdateDecision, LogDecision, InsertBlock, CloseBlock, LogStatus
    <2> QED
      BY <1>0, <1>5, <2>1, StepKeepsTables, StepKeepsRequests DEF FilesOK
  <1>6. ASSUME NEW w \in Workers, Commit(w)
        PROVE  db' \in Tables /\ disk' \in Tables /\ RequestsOK' /\ FilesOK'
    <2>1. Idle \in PoolRequest
      BY DEF PoolRequest
    <2> QED
      BY <1>0, <1>6, <2>1, PoolTurn, LoopTurn DEF Commit, Workers, FilesOK
  <1>7. CASE Crash
    BY <1>0, <1>7, ThreadsAssumption
       DEF Crash, RequestsOK, FilesOK, Workers, Request, PoolRequest
  <1>8. CASE UNCHANGED vars
    BY <1>0, <1>8 DEF vars, RequestsOK, FilesOK
  <1> QED
    BY <1>2, <1>3, <1>4, <1>5, <1>6, <1>7, <1>8, NextCases

LEMMA InitTyped == Init => TypeOK
  <1>1. Blank \in Tables
    BY DEF Blank, BlankIntake, BlankBlock, BlankAudit, Tables, IntakeRow, BlockRow, AuditRow
  <1> QED
    BY <1>1, ThreadsAssumption DEF Init, TypeOK, Workers, Request, PoolRequest

\* Whatever is interleaved, the tables, the files and the requests stay typed.
THEOREM ThreadsTypeCorrect == Spec => []TypeOK
  BY InitTyped, NextKeepsTypes, PTL DEF Spec

----------------------------------------------------------------------------
(* What commits may count on.  Only uploads write the evidence table, so what  *)
(* an upload read of it stays true until it writes; and no other statement     *)
(* undoes a flag, a link or a ruling.                                          *)

\* The live rows under the upload's name: as read, until it has superseded them;
\* then none, until it has inserted its own.
UploadHolds ==
    LET r == req[Loop]
        live == LiveRows(db.evidence, r.intake, r.name)
    IN  r # Idle =>
          /\ r.pc \in {"file", "supersede"} => r.old = live
          /\ r.pc = "insert" \/ r.pc = "requeue" \/ r.pc = "relog" => live = {}

OneLive(rows) ==
    \A r, s \in rows : r.live /\ s.live /\ r.intake = s.intake /\ r.name = s.name => r = s

Follows(rows, later) ==
    \A r \in rows : \E s \in later : s = r \/ s = [r EXCEPT !.live = FALSE]

EvidenceInv ==
    /\ UploadHolds
    /\ OneLive(db.evidence) /\ OneLive(disk.evidence)
    /\ Follows(disk.evidence, db.evidence)

\* Nothing but an upload's own statements writes the evidence.
LEMMA EvidenceWriters ==
    ASSUME TypeOK, NEW w \in Pool, Step(w)
    PROVE  db'.evidence = db.evidence /\ req'[Loop] = req[Loop] /\ disk' = disk
  <1>0. db \in Tables
    BY DEF TypeOK
  <1>1. db'.evidence = db.evidence
    <2>1. CASE InsertIntake(w) \/ UpdateStatus(w) \/ UpdateDecision(w)
      BY <1>0, <2>1 DEF Tables, InsertIntake, UpdateStatus, UpdateDecision
    <2>2. CASE LogCreated(w) \/ LogTransition(w) \/ LogDecision(w)
      BY <1>0, <2>2 DEF Tables, LogCreated, LogTransition, LogDecision, LogStatus
    <2>3. CASE InsertBlock(w) \/ CloseBlock(w)
      BY <1>0, <2>3 DEF Tables, InsertBlock, CloseBlock
    <2>4. CASE CheckBlock(w)
      BY <2>4 DEF CheckBlock
    <2> QED
      BY <2>1, <2>2, <2>3, <2>4 DEF Step
  <1>2. req'[Loop] = req[Loop]
    <2>1. w # Loop /\ w \in Workers /\ Loop \in Workers /\ req \in [Workers -> Request]
      BY ThreadsAssumption DEF TypeOK, Workers
    <2>2. req' = [req EXCEPT ![w] = req'[w]]
      BY <2>1 DEF Step, InsertIntake, LogCreated, CheckBlock, UpdateStatus, LogTransition,
         UpdateDecision, LogDecision, InsertBlock, CloseBlock, LogStatus, Goto
    <2> QED
      BY <2>1, <2>2
  <1> QED
    BY <1>1, <1>2 DEF Step, InsertIntake, LogCreated, CheckBlock, UpdateStatus, LogTransition,
       UpdateDecision, LogDecision, InsertBlock, CloseBlock, LogStatus

\* Rows that follow rows that follow others follow those.
LEMMA FollowsOn ==
    ASSUME NEW rows, NEW mid, NEW later, Follows(rows, mid),
           \A r \in mid : \E s \in later : s = r \/ s = [r EXCEPT !.live = FALSE],
           rows \subseteq EvidenceRow
    PROVE  Follows(rows, later)
  <1> SUFFICES ASSUME NEW r \in rows PROVE \E s \in later : s = r \/ s = [r EXCEPT !.live = FALSE]
    BY DEF Follows
  <1>1. PICK m \in mid : m = r \/ m = [r EXCEPT !.live = FALSE]
    BY DEF Follows
  <1>2. PICK s \in later : s = m \/ s = [m EXCEPT !.live = FALSE]
    BY <1>1
  <1>3. [[r EXCEPT !.live = FALSE] EXCEPT !.live = FALSE] = [r EXCEPT !.live = FALSE]
    BY DEF EvidenceRow
  <1> QED
    BY <1>1, <1>2, <1>3

\* Superseding live rows leaves one row for each row, and takes only them out of use.
LEMMA Supersession ==
    ASSUME NEW rows \in SUBSET EvidenceRow, NEW old \in SUBSET rows
    PROVE  /\ Follows(rows, (rows \ old) \union Superseded(old))
           /\ \A s \in (rows \ old) \union Superseded(old) : s.live => s \in rows \ old
  <1>1. \A s \in Superseded(old) : ~s.live
    <2> SUFFICES ASSUME NEW q \in old PROVE ~[q EXCEPT !.live = FALSE].live
      BY DEF Superseded
    <2>1. q \in EvidenceRow
      OBVIOUS
    <2> QED
      BY <2>1 DEF EvidenceRow
  <1>2. \A q \in old : [q EXCEPT !.live = FALSE] \in Superseded(old)
    BY DEF Superseded
  <1> QED
    BY <1>1, <1>2 DEF Follows

LEMMA UploadKeepsEvidence == TypeOK /\ EvidenceInv /\ Uploading => EvidenceInv'
  <1> SUFFICES ASSUME TypeOK, EvidenceInv, Uploading PROVE EvidenceInv'
    OBVIOUS
  <1> DEFINE r == req[Loop]
             live == LiveRows(db.evidence, r.intake, r.name)
  <1>0. /\ db \in Tables /\ disk \in Tables
        /\ db.evidence \in SUBSET EvidenceRow /\ disk.evidence \in SUBSET EvidenceRow
        /\ req \in [Workers -> Request] /\ Loop \in Workers
    BY DEF TypeOK, Tables, Workers
  <1>1. r \in EvidenceRequest /\ r # Idle
    <2>1. r.op = "evidence"
      BY DEF Uploading, WriteFile, SupersedeOld, Requeue, LogRequeued, InsertEvidence, CheckThread,
         EvidenceFails, At
    <2>2. r \in {Idle} \union EvidenceRequest
      BY DEF TypeOK
    <2>3. r # Idle
      BY <2>1 DEF Idle
    <2> QED
      BY <2>2, <2>3
  <1>2. disk' = disk
    BY DEF Uploading, WriteFile, SupersedeOld, Requeue, LogRequeued, InsertEvidence, CheckThread,
       EvidenceFails
  <1>3. /\ r.pc \in {"file", "supersede"} => r.old = live
        /\ r.pc = "insert" \/ r.pc = "requeue" \/ r.pc = "relog" => live = {}
    BY <1>1 DEF EvidenceInv, UploadHolds
  <1>4. OneLive(db.evidence) /\ OneLive(disk.evidence) /\ Follows(disk.evidence, db.evidence)
    BY DEF EvidenceInv
  <1>5. CASE EvidenceFails
    BY <1>0, <1>2, <1>4, <1>5 DEF EvidenceFails, EvidenceInv, UploadHolds
  <1>6. ASSUME NEW to, Goto(Loop, to)
        PROVE  /\ req'[Loop].pc = to /\ req'[Loop].intake = r.intake /\ req'[Loop].name = r.name
               /\ req'[Loop].old = r.old
    BY <1>0, <1>1, <1>6 DEF Goto, EvidenceRequest
  <1>7. CASE WriteFile
    <2>1. db' = db
      BY <1>7 DEF WriteFile
    <2>2. r.pc = "file" /\ Goto(Loop, IF r.old = {} THEN "insert" ELSE "supersede")
      BY <1>7 DEF WriteFile, At
    <2>3. UploadHolds'
      BY <1>3, <1>6, <2>1, <2>2 DEF UploadHolds
    <2> QED
      BY <1>2, <1>4, <2>1, <2>3 DEF EvidenceInv
  <1>8. CASE SupersedeOld
    <2> DEFINE after == (db.evidence \ r.old) \union Superseded(r.old)
    <2>1. r.pc = "supersede" /\ r.old = live
      BY <1>3, <1>8 DEF SupersedeOld, At
    <2>2. db'.evidence = after
      BY <1>0, <1>8 DEF SupersedeOld, Tables
    <2>3. r.old \in SUBSET db.evidence
      BY <2>1 DEF LiveRows
    <2>4. /\ Follows(db.evidence, after)
          /\ \A s \in after : s.live => s \in db.evidence \ r.old
      BY <1>0, <2>3, Supersession
    <2>5. Goto(Loop, IF r.requeue THEN "requeue" ELSE "insert")
      BY <1>8 DEF SupersedeOld
    <2> HIDE DEF after
    <2>6. OneLive(after)
      BY <1>4, <2>4 DEF OneLive
    <2>7. Follows(disk.evidence, after)
      <3>1. \A q \in db.evidence : \E s \in after : s = q \/ s = [q EXCEPT !.live = FALSE]
        BY <2>4 DEF Follows
      <3> QED
        BY <1>0, <1>4, <3>1, FollowsOn
    <2>8. LiveRows(after, r.intake, r.name) = {}
      BY <2>1, <2>4 DEF LiveRows
    <2>9. UploadHolds'
      BY <1>6, <2>2, <2>5, <2>8 DEF UploadHolds
    <2> QED
      BY <1>2, <1>4, <2>2, <2>6, <2>7, <2>9 DEF EvidenceInv
  <1>9. CASE Requeue \/ LogRequeued
    <2>1. db'.evidence = db.evidence
      BY <1>0, <1>9 DEF Requeue, LogRequeued, Tables
    <2>2. (r.pc = "requeue" /\ Goto(Loop, "relog")) \/ (r.pc = "relog" /\ Goto(Loop, "insert"))
      BY <1>9 DEF Requeue, LogRequeued, At
    <2>3. UploadHolds'
      BY <1>3, <1>6, <2>1, <2>2 DEF UploadHolds
    <2> QED
      BY <1>2, <1>4, <2>1, <2>3 DEF EvidenceInv
  <1>10. CASE InsertEvidence
    <2> DEFINE row == [intake |-> r.intake, name |-> r.name, content |-> r.content, live |-> TRUE]
    <2>1. r.pc = "insert" /\ live = {}
      BY <1>3, <1>10 DEF InsertEvidence, At
    <2>2. db'.evidence = db.evidence \union {row}
      BY <1>0, <1>10 DEF InsertEvidence, Tables
    <2>3. \A s \in db.evidence : ~(s.live /\ s.intake = r.intake /\ s.name = r.name)
      BY <2>1 DEF LiveRows
    <2>4. row.live /\ row.intake = r.intake /\ row.name = r.name
      OBVIOUS
    <2> HIDE DEF row
    <2>5. OneLive(db'.evidence)
      BY <1>4, <2>2, <2>3, <2>4 DEF OneLive
    <2>6. Follows(disk.evidence, db'.evidence)
      BY <1>4, <2>2 DEF Follows
    <2>7. UploadHolds'
      BY <1>6, <1>10 DEF UploadHolds, InsertEvidence
    <2> QED
      BY <1>2, <1>4, <2>5, <2>6, <2>7 DEF EvidenceInv
  <1>11. CASE CheckThread
    <2>1. db'.evidence = db.evidence
      BY <1>0, <1>11 DEF CheckThread, Tables
    <2>2. UploadHolds'
      BY <1>6, <1>11 DEF UploadHolds, CheckThread
    <2> QED
      BY <1>2, <1>4, <2>1, <2>2 DEF EvidenceInv
  <1> QED
    BY <1>5, <1>7, <1>8, <1>9, <1>10, <1>11 DEF Uploading

LEMMA BeginKeepsEvidence ==
    ASSUME TypeOK, EvidenceInv, LoopBegins
    PROVE  EvidenceInv'
  <1>1. PICK p \in Personas, i \in Intakes, n \in Names, c \in Contents : BeginEvidence(p, i, n, c)
    BY DEF LoopBegins
  <1> DEFINE old == LiveRows(db.evidence, i, n)
             flag == old # {} /\ db.intake[i].status \in RequeueFrom
             r == [op |-> "evidence", pc |-> "file", who |-> p, intake |-> i, name |-> n,
                   content |-> c, old |-> old, requeue |-> flag]
  <1>2. req' = [req EXCEPT ![Loop] = r] /\ db' = db /\ disk' = disk
    BY <1>1 DEF BeginEvidence, Begin
  <1>3. req'[Loop] = r
    BY <1>2 DEF TypeOK, Workers
  <1>4. UploadHolds'
    BY <1>2, <1>3 DEF UploadHolds
  <1> QED
    BY <1>2, <1>4 DEF EvidenceInv

LEMMA NextKeepsEvidence == TypeOK /\ EvidenceInv /\ [Next]_vars => EvidenceInv'
  <1> SUFFICES ASSUME TypeOK, EvidenceInv, [Next]_vars PROVE EvidenceInv'
    OBVIOUS
  <1>0. db \in Tables /\ req \in [Workers -> Request] /\ Loop \in Workers
    BY DEF TypeOK, Workers
  <1>1. ASSUME NEW w \in Pool, PoolBegins(w) PROVE EvidenceInv'
    <2>1. UNCHANGED <<db, disk>> /\ req'[Loop] = req[Loop]
      BY <1>0, <1>1, PoolBeginsOne, ThreadsAssumption
    <2> QED
      BY <2>1 DEF EvidenceInv, UploadHolds
  <1>2. ASSUME NEW w \in Pool, Step(w) PROVE EvidenceInv'
    BY <1>2, EvidenceWriters DEF EvidenceInv, UploadHolds
  <1>3. ASSUME NEW w \in Workers, Commit(w) PROVE EvidenceInv'
    <2>1. disk' = db /\ db' = db
      BY <1>3 DEF Commit
    <2>2. req'[Loop] = Idle \/ req'[Loop] = req[Loop]
      BY <1>0, <1>3 DEF Commit
    <2>3. UploadHolds'
      BY <2>1, <2>2 DEF UploadHolds, EvidenceInv
    <2>4. Follows(db.evidence, db.evidence)
      BY DEF Follows
    <2> QED
      BY <2>1, <2>3, <2>4 DEF EvidenceInv
  <1>4. CASE Crash
    <2>1. db' = disk /\ disk' = disk /\ req'[Loop] = Idle
      BY <1>0, <1>4 DEF Crash
    <2>2. Follows(disk.evidence, disk.evidence)
      BY DEF Follows
    <2>3. UploadHolds'
      BY <2>1 DEF UploadHolds
    <2> QED
      BY <2>1, <2>2, <2>3 DEF EvidenceInv
  <1>5. CASE UNCHANGED vars
    BY <1>5 DEF vars, EvidenceInv, UploadHolds
  <1> QED
    BY <1>1, <1>2, <1>3, <1>4, <1>5, NextCases, UploadKeepsEvidence, BeginKeepsEvidence

LEMMA InitEvidence == Init => EvidenceInv
  BY DEF Init, Blank, EvidenceInv, UploadHolds, OneLive, Follows, Workers

THEOREM EvidenceInvariant == Spec => []EvidenceInv
  BY InitEvidence, NextKeepsEvidence, ThreadsTypeCorrect, PTL DEF Spec

\* However requests interleave, fail and are cut off, no name has two live versions.
THEOREM NoTwoLiveRows == Spec => []NeverTwoLiveRows
  <1>1. EvidenceInv => NeverTwoLiveRows
    BY DEF EvidenceInv, OneLive, NeverTwoLiveRows
  <1> QED
    BY <1>1, EvidenceInvariant, PTL

\* What is committed of the evidence is only ever added to or superseded.
THEOREM EvidenceAppended == Spec => EvidenceIsAppendOnly
  <1>1. TypeOK /\ EvidenceInv /\ [Next]_vars =>
           [\A r \in disk.evidence :
               \E s \in disk'.evidence : s = r \/ s = [r EXCEPT !.live = FALSE]]_vars
    <2> SUFFICES ASSUME TypeOK, EvidenceInv, Next
                 PROVE  Follows(disk.evidence, disk'.evidence)
      BY DEF Follows
    <2>1. Follows(disk.evidence, disk.evidence) /\ Follows(disk.evidence, db.evidence)
      BY DEF EvidenceInv, Follows
    <2>2. disk' = disk \/ disk' = db
      BY NextCases, PoolBeginsOne, LoopBeginsOne, EvidenceWriters
         DEF TypeOK, Uploading, WriteFile, SupersedeOld, Requeue, LogRequeued, InsertEvidence,
             CheckThread, EvidenceFails, Commit, Crash
    <2> QED
      BY <2>1, <2>2
  <1> QED
    BY <1>1, EvidenceInvariant, ThreadsTypeCorrect, PTL DEF Spec, EvidenceIsAppendOnly

----------------------------------------------------------------------------
(* Flags, links and rulings. *)

\* The record later keeps the flag, the links and being ruled of the record row.
RowAhead(row, later) ==
    /\ row.flagged => later.flagged
    /\ row.threadOf \subseteq later.threadOf
    /\ row.decision # Undecided => later.decision # Undecided

Ahead(t, u) == \A i \in Intakes : RowAhead(t.intake[i], u.intake[i])

\* One row written, which keeps its own flag, its links and that it is ruled.
LEMMA RowWritten ==
    ASSUME NEW t \in Tables, NEW i \in Intakes, NEW row, RowAhead(t.intake[i], row)
    PROVE  Ahead(t, [t EXCEPT !.intake[i] = row])
  <1> SUFFICES ASSUME NEW j \in Intakes
               PROVE  RowAhead(t.intake[j], [t EXCEPT !.intake[i] = row].intake[j])
    BY DEF Ahead
  <1>1. [t EXCEPT !.intake[i] = row].intake[j] = IF j = i THEN row ELSE t.intake[j]
    BY DEF Tables
  <1>2. RowAhead(t.intake[j], t.intake[j])
    BY DEF RowAhead
  <1> QED
    BY <1>1, <1>2

LEMMA AheadOfSame ==
    ASSUME NEW t, NEW u, u.intake = t.intake
    PROVE  Ahead(t, u)
  BY DEF Ahead, RowAhead

LEMMA AheadOn ==
    ASSUME NEW t, NEW u, NEW v, Ahead(t, u), Ahead(u, v)
    PROVE  Ahead(t, v)
  BY DEF Ahead, RowAhead

\* No statement of any handler takes a flag or a link away, or leaves a ruled record unruled.
LEMMA StepsRunAhead ==
    ASSUME TypeOK, NEW w \in Pool, Step(w)
    PROVE  Ahead(db, db')
  <1>0. db \in Tables /\ req[w] \in PoolRequest
    BY DEF TypeOK
  <1>1. CASE InsertIntake(w)
    <2> DEFINE i == req[w].intake
               row == [db.intake[i] EXCEPT !.status = "draft", !.owner = req[w].who]
    <2>1. req[w] \in CreateRequest
      BY <1>0, <1>1, PoolKinds DEF InsertIntake, At
    <2>2. i \in Intakes
      BY <2>1 DEF CreateRequest
    <2>3. db.intake[i] \in IntakeRow
      BY <1>0, <2>2 DEF Tables
    <2>4. RowAhead(db.intake[i], row)
      BY <2>3 DEF IntakeRow, RowAhead
    <2>5. db' = [db EXCEPT !.intake[i] = row]
      BY <1>0, <1>1, <2>2 DEF InsertIntake, Tables
    <2> HIDE DEF row
    <2> QED
      BY <1>0, <2>2, <2>4, <2>5, RowWritten
  <1>2. CASE UpdateStatus(w)
    <2> DEFINE i == req[w].intake
               row == [db.intake[i] EXCEPT !.status = req[w].to]
    <2>1. req[w] \in TransitionRequest
      BY <1>0, <1>2, PoolKinds DEF UpdateStatus, At
    <2>2. i \in Intakes
      BY <2>1 DEF TransitionRequest
    <2>3. db.intake[i] \in IntakeRow
      BY <1>0, <2>2 DEF Tables
    <2>4. RowAhead(db.intake[i], row)
      BY <2>3 DEF IntakeRow, RowAhead
    <2>5. db' = [db EXCEPT !.intake[i] = row]
      BY <1>2 DEF UpdateStatus
    <2> HIDE DEF row
    <2> QED
      BY <1>0, <2>2, <2>4, <2>5, RowWritten
  <1>3. CASE UpdateDecision(w)
    <2> DEFINE i == req[w].intake
               row == [db.intake[i] EXCEPT !.decision = req[w].decision, !.status = req[w].status]
    <2>1. req[w] \in DecisionRequest
      BY <1>0, <1>3, PoolKinds DEF UpdateDecision, At
    <2>2. i \in Intakes /\ req[w].decision \in Decisions
      BY <2>1 DEF DecisionRequest
    <2>3. db.intake[i] \in IntakeRow
      BY <1>0, <2>2 DEF Tables
    <2>4. RowAhead(db.intake[i], row)
      BY <2>2, <2>3 DEF IntakeRow, RowAhead, Decisions, Undecided
    <2>5. db' = [db EXCEPT !.intake[i] = row]
      BY <1>0, <1>3, <2>2 DEF UpdateDecision, Tables
    <2> HIDE DEF row
    <2> QED
      BY <1>0, <2>2, <2>4, <2>5, RowWritten
  <1>4. CASE LogCreated(w) \/ LogTransition(w) \/ LogDecision(w)
    <2>1. db'.intake = db.intake
      BY <1>0, <1>4 DEF Tables, LogCreated, LogTransition, LogDecision, LogStatus
    <2> QED
      BY <2>1, AheadOfSame
  <1>5. CASE InsertBlock(w) \/ CloseBlock(w)
    <2>1. db'.intake = db.intake
      BY <1>0, <1>5 DEF Tables, InsertBlock, CloseBlock
    <2> QED
      BY <2>1, AheadOfSame
  <1>6. CASE CheckBlock(w)
    BY <1>6, AheadOfSame DEF CheckBlock
  <1> QED
    BY <1>1, <1>2, <1>3, <1>4, <1>5, <1>6 DEF Step

LEMMA UploadsRunAhead ==
    ASSUME TypeOK, Uploading
    PROVE  Ahead(db, db') /\ disk' = disk
  <1> DEFINE i == req[Loop].intake
  <1>0. db \in Tables
    BY DEF TypeOK
  <1>1. i \in Intakes
    <2>1. req[Loop].op = "evidence" /\ req[Loop] \in {Idle} \union EvidenceRequest
      BY DEF TypeOK, Uploading, WriteFile, SupersedeOld, Requeue, LogRequeued, InsertEvidence,
         CheckThread, EvidenceFails, At
    <2> QED
      BY <2>1 DEF Idle, EvidenceRequest
  <1>2. db.intake[i] \in IntakeRow
    BY <1>0, <1>1 DEF Tables
  <1>3. CASE WriteFile \/ EvidenceFails
    BY <1>3, AheadOfSame DEF WriteFile, EvidenceFails
  <1>4. CASE SupersedeOld \/ LogRequeued \/ InsertEvidence
    <2>1. db'.intake = db.intake
      BY <1>0, <1>4 DEF Tables, SupersedeOld, LogRequeued, InsertEvidence
    <2> QED
      BY <1>4, <2>1, AheadOfSame DEF SupersedeOld, LogRequeued, InsertEvidence
  <1>5. CASE Requeue
    <2> DEFINE row == [db.intake[i] EXCEPT !.status = "draft"]
    <2>1. RowAhead(db.intake[i], row)
      BY <1>2 DEF IntakeRow, RowAhead
    <2>2. db' = [db EXCEPT !.intake[i] = row] /\ disk' = disk
      BY <1>5 DEF Requeue
    <2> HIDE DEF row
    <2> QED
      BY <1>0, <1>1, <2>1, <2>2, RowWritten
  <1>6. CASE CheckThread
    <2> DEFINE priors == PriorIntakes(db.evidence, i, req[Loop].content)
               row == Uploaded(db.intake[i], FALSE, priors)
    <2>1. RowAhead(db.intake[i], row)
      <3> HIDE DEF priors
      <3> QED
        BY <1>2 DEF IntakeRow, RowAhead, Uploaded
    <2>2. db' = [db EXCEPT !.intake[i] = row] /\ disk' = disk
      BY <1>6 DEF CheckThread
    <2> HIDE DEF row
    <2> QED
      BY <1>0, <1>1, <2>1, <2>2, RowWritten
  <1> QED
    BY <1>3, <1>4, <1>5, <1>6
       DEF Uploading, WriteFile, EvidenceFails

\* What a commit would publish is never behind what is published.
PendingAhead == Ahead(disk, db)

LEMMA NextRunsAhead == TypeOK /\ PendingAhead /\ [Next]_vars => PendingAhead' /\ Ahead(disk, disk')
  <1> SUFFICES ASSUME TypeOK, PendingAhead, [Next]_vars
               PROVE  PendingAhead' /\ Ahead(disk, disk')
    OBVIOUS
  <1>0. Ahead(disk, db) /\ Ahead(disk, disk) /\ Ahead(db, db)
    BY AheadOfSame DEF PendingAhead
  <1>1. ASSUME NEW w \in Pool, PoolBegins(w) PROVE PendingAhead' /\ Ahead(disk, disk')
    <2>1. UNCHANGED <<db, disk>>
      BY <1>1, PoolBeginsOne DEF TypeOK
    <2> QED
      BY <1>0, <2>1 DEF PendingAhead
  <1>2. CASE LoopBegins
    <2>1. UNCHANGED <<db, disk>>
      BY <1>2, LoopBeginsOne DEF TypeOK
    <2> QED
      BY <1>0, <2>1 DEF PendingAhead
  <1>3. CASE Uploading
    <2>1. Ahead(db, db') /\ disk' = disk
      BY <1>3, UploadsRunAhead
    <2>2. Ahead(disk, db')
      BY <1>0, <2>1, AheadOn
    <2> QED
      BY <1>0, <2>1, <2>2 DEF PendingAhead
  <1>4. ASSUME NEW w \in Pool, Step(w) PROVE PendingAhead' /\ Ahead(disk, disk')
    <2>1. Ahead(db, db') /\ disk' = disk
      BY <1>4, StepsRunAhead, EvidenceWriters
    <2>2. Ahead(disk, db')
      BY <1>0, <2>1, AheadOn
    <2> QED
      BY <1>0, <2>1, <2>2 DEF PendingAhead
  <1>5. ASSUME NEW w \in Workers, Commit(w) PROVE PendingAhead' /\ Ahead(disk, disk')
    BY <1>0, <1>5 DEF Commit, PendingAhead
  <1>6. CASE Crash
    BY <1>0, <1>6 DEF Crash, PendingAhead
  <1>7. CASE UNCHANGED vars
    BY <1>0, <1>7 DEF vars, PendingAhead
  <1> QED
    BY <1>1, <1>2, <1>3, <1>4, <1>5, <1>6, <1>7, NextCases

LEMMA InitAhead == Init => PendingAhead
  BY AheadOfSame DEF Init, PendingAhead

\* Rulings in service.  The request r rules on i; it has written its ruling.
Rules(r, i) == r.op = "decision" /\ r.intake = i

Written(r, i) == Rules(r, i) /\ r.pc # "update"

\* The ruling the connection sees is the committed one unless a request that has
\* written another has yet to commit it.
RulingsInv ==
    \A i \in Intakes :
        (\A w \in Pool : ~Written(req[w], i)) =>
            db.intake[i].decision = disk.intake[i].decision

\* A ruling is taken up on a record that has none.
LEMMA BeginRules ==
    ASSUME TypeOK, NEW w \in Pool, PoolBegins(w), NEW i \in Intakes
    PROVE  /\ \A v \in Pool \ {w} : req'[v] = req[v]
           /\ req[w] = Idle /\ ~Written(req'[w], i)
           /\ Rules(req'[w], i) => db.intake[i].decision = Undecided
  <1>0. req \in [Workers -> Request] /\ w \in Workers
    BY DEF TypeOK, Workers
  <1>1. \A v \in Pool \ {w} : req'[v] = req[v]
    BY <1>0, PoolBeginsOne DEF TypeOK, Workers
  <1>2. ASSUME NEW r, Begin(w, r) PROVE req'[w] = r /\ req[w] = Idle
    BY <1>0, <1>2 DEF Begin
  <1>3. CASE \E p \in Personas, j \in Intakes, d \in Decisions : BeginDecision(w, p, j, d)
    <2>1. PICK p \in Personas, j \in Intakes, d \in Decisions : BeginDecision(w, p, j, d)
      BY <1>3
    <2>2. /\ req[w] = Idle /\ req'[w].pc = "update" /\ req'[w].intake = j
          /\ db.intake[j].decision = Undecided
      BY <1>2, <2>1 DEF BeginDecision
    <2> QED
      BY <1>1, <2>2 DEF Rules, Written
  <1>4. CASE ~ \E p \in Personas, j \in Intakes, d \in Decisions : BeginDecision(w, p, j, d)
    <2>1. ASSUME NEW p \in Personas, NEW j \in Intakes, BeginCreate(w, p, j)
          PROVE  req[w] = Idle /\ req'[w].op # "decision"
      BY <1>2, <2>1 DEF BeginCreate
    <2>2. ASSUME NEW p \in Personas, NEW j \in Intakes, NEW to \in Statuses,
                 BeginTransition(w, p, j, to)
          PROVE  req[w] = Idle /\ req'[w].op # "decision"
      BY <1>2, <2>2 DEF BeginTransition
    <2>3. ASSUME NEW p \in Personas, NEW target \in Personas, NEW b \in BlockIds,
                 BeginBlock(w, p, target, b)
          PROVE  req[w] = Idle /\ req'[w].op # "decision"
      BY <1>2, <2>3 DEF BeginBlock
    <2>4. ASSUME NEW p \in Personas, NEW target \in Personas, BeginUnblock(w, p, target)
          PROVE  req[w] = Idle /\ req'[w].op # "decision"
      BY <1>2, <2>4 DEF BeginUnblock
    <2>5. req[w] = Idle /\ req'[w].op # "decision"
      BY <1>4, <2>1, <2>2, <2>3, <2>4 DEF PoolBegins
    <2> QED
      BY <1>1, <2>5 DEF Rules, Written
  <1> QED
    BY <1>3, <1>4

\* A ruling is written by the request that rules, which is then past writing it.
LEMMA StepRules ==
    ASSUME TypeOK, NEW w \in Pool, Step(w), NEW i \in Intakes
    PROVE  /\ \A v \in Pool \ {w} : req'[v] = req[v]
           /\ Rules(req'[w], i) <=> Rules(req[w], i)
           /\ Written(req[w], i) => Written(req'[w], i)
           /\ db'.intake[i].decision # db.intake[i].decision => Written(req'[w], i)
  <1>0. /\ db \in Tables /\ req \in [Workers -> Request] /\ w \in Workers
        /\ req[w] \in PoolRequest
    BY DEF TypeOK, Workers
  <1>1. \A v \in Pool \ {w} : req'[v] = req[v]
    BY <1>0 DEF Step, InsertIntake, LogCreated, CheckBlock, UpdateStatus, LogTransition,
       UpdateDecision, LogDecision, InsertBlock, CloseBlock, LogStatus, Goto, Workers
  <1>2. CASE UpdateDecision(w) \/ LogDecision(w)
    <2>1. req[w] \in DecisionRequest
      BY <1>0, <1>2, PoolKinds DEF UpdateDecision, LogDecision, LogStatus, At
    <2>2. PICK to \in {"log", "commit"} : req' = [req EXCEPT ![w].pc = to]
      BY <1>2 DEF UpdateDecision, LogDecision, LogStatus, Goto
    <2>3. req'[w] = [req[w] EXCEPT !.pc = to]
      BY <1>0, <2>2
    <2>4. req'[w].op = "decision" /\ req'[w].intake = req[w].intake /\ req'[w].pc # "update"
      BY <2>1, <2>3 DEF DecisionRequest
    <2>5. req[w].op = "decision"
      BY <2>1 DEF DecisionRequest
    <2>6. i # req[w].intake => db'.intake[i].decision = db.intake[i].decision
      BY <1>0, <1>2 DEF UpdateDecision, LogDecision, LogStatus, Tables
    <2> QED
      BY <1>1, <2>4, <2>5, <2>6 DEF Rules, Written
  <1>3. CASE ~(UpdateDecision(w) \/ LogDecision(w))
    <2>1. req[w].op \in {"create", "transition", "block", "unblock"}
      BY <1>3 DEF Step, InsertIntake, LogCreated, CheckBlock, UpdateStatus, LogTransition,
         InsertBlock, CloseBlock, LogStatus, At
    <2>2. \/ req' = [req EXCEPT ![w] = Idle]
          \/ Goto(w, "update") \/ Goto(w, "log") \/ Goto(w, "commit")
      BY <1>3 DEF Step, InsertIntake, LogCreated, CheckBlock, UpdateStatus, LogTransition,
         InsertBlock, CloseBlock, LogStatus
    <2>3. ASSUME NEW to, Goto(w, to) PROVE req'[w].op # "decision"
      <3>1. req'[w] = [req[w] EXCEPT !.pc = to]
        BY <1>0, <2>3 DEF Goto
      <3>2. \/ req[w] \in CreateRequest \/ req[w] \in TransitionRequest
            \/ req[w] \in BlockRequest \/ req[w] \in UnblockRequest
        BY <1>0, <2>1, PoolKinds
      <3> QED
        BY <3>1, <3>2 DEF CreateRequest, TransitionRequest, BlockRequest, UnblockRequest
    <2>5. req'[w].op # "decision"
      BY <1>0, <2>2, <2>3 DEF Idle
    <2>4. db'.intake[i].decision = db.intake[i].decision
      <3>1. CASE InsertIntake(w) \/ UpdateStatus(w)
        <4> DEFINE j == req[w].intake
        <4>1. j \in Intakes
          BY <1>0, <3>1, PoolKinds
             DEF InsertIntake, UpdateStatus, At, CreateRequest, TransitionRequest
        <4>2. db.intake[j] \in IntakeRow
          BY <1>0, <4>1 DEF Tables
        <4>3. CASE InsertIntake(w)
          <5> DEFINE row == [db.intake[j] EXCEPT !.status = "draft", !.owner = req[w].who]
          <5>1. row.decision = db.intake[j].decision
            BY <4>2 DEF IntakeRow
          <5>2. db' = [db EXCEPT !.intake[j] = row]
            BY <1>0, <4>1, <4>3 DEF InsertIntake, Tables
          <5> HIDE DEF row
          <5> QED
            BY <1>0, <4>1, <5>1, <5>2 DEF Tables
        <4>4. CASE UpdateStatus(w)
          <5> DEFINE row == [db.intake[j] EXCEPT !.status = req[w].to]
          <5>1. row.decision = db.intake[j].decision
            BY <4>2 DEF IntakeRow
          <5>2. db' = [db EXCEPT !.intake[j] = row]
            BY <4>4 DEF UpdateStatus
          <5> HIDE DEF row
          <5> QED
            BY <1>0, <4>1, <5>1, <5>2 DEF Tables
        <4> QED
          BY <3>1, <4>3, <4>4
      <3>2. CASE LogCreated(w) \/ LogTransition(w)
        BY <1>0, <3>2 DEF LogCreated, LogTransition, LogStatus, Tables
      <3>3. CASE InsertBlock(w) \/ CloseBlock(w)
        BY <1>0, <3>3 DEF InsertBlock, CloseBlock, Tables
      <3>4. CASE CheckBlock(w)
        BY <3>4 DEF CheckBlock
      <3> QED
        BY <1>3, <3>1, <3>2, <3>3, <3>4 DEF Step
    <2> QED
      BY <1>1, <2>1, <2>4, <2>5 DEF Rules, Written
  <1> QED
    BY <1>2, <1>3

\* Uploads write no ruling.
LEMMA UploadsRuleNothing ==
    ASSUME TypeOK, Uploading, NEW i \in Intakes
    PROVE  /\ \A v \in Pool : req'[v] = req[v]
           /\ db'.intake[i].decision = db.intake[i].decision
  <1>0. db \in Tables /\ req \in [Workers -> Request]
    BY DEF TypeOK
  <1>1. \A v \in Pool : req'[v] = req[v]
    BY <1>0, ThreadsAssumption DEF Workers, Uploading, WriteFile, SupersedeOld, Requeue,
       LogRequeued, InsertEvidence, CheckThread, EvidenceFails, Goto
  <1>2. db'.intake[i].decision = db.intake[i].decision
    <2>1. CASE WriteFile \/ EvidenceFails
      BY <2>1 DEF WriteFile, EvidenceFails
    <2>2. CASE SupersedeOld \/ LogRequeued \/ InsertEvidence
      BY <1>0, <2>2 DEF SupersedeOld, LogRequeued, InsertEvidence, Tables
    <2>3. CASE Requeue
      BY <1>0, <2>3 DEF Requeue, Tables, IntakeRow
    <2>4. CASE CheckThread
      BY <1>0, <2>4 DEF CheckThread, Uploaded, Tables, IntakeRow
    <2> QED
      BY <2>1, <2>2, <2>3, <2>4 DEF Uploading
  <1> QED
    BY <1>1, <1>2

LEMMA NextKeepsRulings ==
    TypeOK /\ RulingsInv /\ [Next]_vars =>
        RulingsInv' /\ \A i \in Intakes, d \in Decisions : Settled(i, d) => Settled(i, d)'
  <1> SUFFICES ASSUME TypeOK, RulingsInv, [Next]_vars, NEW i \in Intakes
               PROVE  /\ (\A w \in Pool : ~Written(req'[w], i)) =>
                             db'.intake[i].decision = disk'.intake[i].decision
                      /\ \A d \in Decisions : Settled(i, d) => Settled(i, d)'
    BY DEF RulingsInv
  <1> USE DEF Rules, Written
  <1>0. /\ (\A w \in Pool : ~Written(req[w], i)) =>
              db.intake[i].decision = disk.intake[i].decision
        /\ \A d \in Decisions : d # Undecided
    BY DEF RulingsInv, Decisions, Undecided
  <1>1. ASSUME NEW w \in Pool, PoolBegins(w)
        PROVE  /\ (\A v \in Pool : ~Written(req'[v], i)) =>
                      db'.intake[i].decision = disk'.intake[i].decision
               /\ \A d \in Decisions : Settled(i, d) => Settled(i, d)'
    <2>1. UNCHANGED <<db, disk>>
      BY <1>1, PoolBeginsOne DEF TypeOK
    <2>2. req[w].op # "decision"
      BY <1>1, BeginRules DEF Idle
    <2> QED
      BY <1>0, <1>1, <2>1, <2>2, BeginRules DEF Settled, Ruling
  <1>2. CASE LoopBegins
    <2>1. UNCHANGED <<db, disk>> /\ \A v \in Pool : req'[v] = req[v]
      BY <1>2, LoopBeginsOne, ThreadsAssumption DEF TypeOK, Workers
    <2> QED
      BY <1>0, <2>1 DEF Settled, Ruling
  <1>3. CASE Uploading
    <2>1. disk' = disk
      BY <1>3, UploadsRunAhead
    <2> QED
      BY <1>0, <1>3, <2>1, UploadsRuleNothing DEF Settled, Ruling
  <1>4. ASSUME NEW w \in Pool, Step(w)
        PROVE  /\ (\A v \in Pool : ~Written(req'[v], i)) =>
                      db'.intake[i].decision = disk'.intake[i].decision
               /\ \A d \in Decisions : Settled(i, d) => Settled(i, d)'
    <2>1. disk' = disk
      BY <1>4, EvidenceWriters
    <2> QED
      BY <1>0, <1>4, <2>1, StepRules DEF Settled, Ruling
  <1>5. ASSUME NEW w \in Workers, Commit(w)
        PROVE  /\ (\A v \in Pool : ~Written(req'[v], i)) =>
                      db'.intake[i].decision = disk'.intake[i].decision
               /\ \A d \in Decisions : Settled(i, d) => Settled(i, d)'
    <2>1. db' = db /\ disk' = db /\ \A v \in Pool : req'[v] = req[v] \/ req'[v].op # "decision"
      BY <1>5 DEF Commit, TypeOK, Workers, Idle
    <2> QED
      BY <1>0, <2>1 DEF Settled, Ruling
  <1>6. CASE Crash
    <2>1. db' = disk /\ disk' = disk /\ \A v \in Pool : req'[v].op # "decision"
      BY <1>6 DEF Crash, Workers, Idle
    <2> QED
      BY <2>1 DEF Settled, Ruling
  <1>7. CASE UNCHANGED vars
    BY <1>0, <1>7 DEF vars, Settled, Ruling
  <1> QED
    BY <1>1, <1>2, <1>3, <1>4, <1>5, <1>6, <1>7, NextCases

LEMMA InitRulings == Init => RulingsInv
  BY DEF Init, RulingsInv

\* A committed flag and its links outlive every later commit, whatever else wrote
\* the same row at the same time, and a committed ruling stands once every other
\* request that was past the check when it was written has ended.
THEOREM FlagsAndSettledRulingsOutlive == Spec => FlagsAndRulingsStand
  <1>1. TypeOK /\ PendingAhead /\ RulingsInv /\ [Next]_vars =>
           [\A i \in Intakes :
               /\ disk.intake[i].flagged => disk'.intake[i].flagged
               /\ disk.intake[i].threadOf \subseteq disk'.intake[i].threadOf
               /\ disk.intake[i].decision # Undecided =>
                     disk'.intake[i].decision # Undecided
               /\ \A d \in Decisions : Settled(i, d) => Settled(i, d)']_vars
    BY NextRunsAhead, NextKeepsRulings DEF Ahead, RowAhead
  <1>2. TypeOK /\ PendingAhead /\ [Next]_vars => PendingAhead'
    BY NextRunsAhead
  <1>3. TypeOK /\ RulingsInv /\ [Next]_vars => RulingsInv'
    BY NextKeepsRulings
  <1> QED
    BY <1>1, <1>2, <1>3, InitAhead, InitRulings, ThreadsTypeCorrect, PTL
       DEF Spec, FlagsAndRulingsStand

----------------------------------------------------------------------------
(* Rows and files.  Between writing its file and superseding the old row, an    *)
(* upload leaves that row describing bytes that are gone; it is the one row     *)
(* that may, and only a crash could strand it so.                               *)

Replacing(q) ==
    /\ req[Loop] # Idle /\ req[Loop].pc = "supersede"
    /\ q.intake = req[Loop].intake /\ q.name = req[Loop].name

FilesInv ==
    /\ \A q \in db.evidence :
          q.live => Replacing(q) \/ files[<<q.intake, q.name>>] \in {q.content, Torn}
    /\ req[Loop] # Idle /\ req[Loop].pc \in {"supersede", "requeue", "relog", "insert"} =>
          files[<<req[Loop].intake, req[Loop].name>>] = req[Loop].content

LEMMA UploadKeepsFiles == TypeOK /\ EvidenceInv /\ FilesInv /\ Uploading => FilesInv'
  <1> SUFFICES ASSUME TypeOK, EvidenceInv, FilesInv, Uploading PROVE FilesInv'
    OBVIOUS
  <1> DEFINE r == req[Loop]
             key == <<r.intake, r.name>>
             live == LiveRows(db.evidence, r.intake, r.name)
  <1>0. /\ db \in Tables /\ db.evidence \in SUBSET EvidenceRow
        /\ req \in [Workers -> Request] /\ Loop \in Workers
        /\ files \in [Intakes \X Names -> Contents \union {NoBytes, Torn}]
    BY DEF TypeOK, Tables, Workers
  <1>1. r \in EvidenceRequest /\ r # Idle
    <2>1. r.op = "evidence"
      BY DEF Uploading, WriteFile, SupersedeOld, Requeue, LogRequeued, InsertEvidence, CheckThread,
         EvidenceFails, At
    <2>2. r \in {Idle} \union EvidenceRequest
      BY DEF TypeOK
    <2>3. r # Idle
      BY <2>1 DEF Idle
    <2> QED
      BY <2>2, <2>3
  <1>2. r.intake \in Intakes /\ r.name \in Names /\ key \in Intakes \X Names
    BY <1>1 DEF EvidenceRequest
  <1>3. /\ r.pc \in {"file", "supersede"} => r.old = live
        /\ r.pc = "insert" \/ r.pc = "requeue" \/ r.pc = "relog" => live = {}
    BY <1>1 DEF EvidenceInv, UploadHolds
  <1>4. \A q \in db.evidence : q.live /\ q.intake = r.intake /\ q.name = r.name => q \in live
    BY DEF LiveRows
  <1>5. ASSUME NEW to, Goto(Loop, to)
        PROVE  /\ req'[Loop].pc = to /\ req'[Loop].intake = r.intake /\ req'[Loop].name = r.name
               /\ req'[Loop].content = r.content /\ req'[Loop] # Idle
    <2>1. req'[Loop] = [r EXCEPT !.pc = to]
      BY <1>0, <1>5 DEF Goto
    <2>2. req'[Loop].op = "evidence"
      BY <1>1, <2>1 DEF EvidenceRequest
    <2> QED
      BY <1>1, <2>1, <2>2 DEF EvidenceRequest, Idle
  <1>6. ASSUME r.pc # "supersede"
        PROVE  \A q \in db.evidence : q.live => files[<<q.intake, q.name>>] \in {q.content, Torn}
    BY <1>6 DEF FilesInv, Replacing
  <1>7. CASE EvidenceFails
    <2>1. req'[Loop] = Idle /\ db' = db
      BY <1>0, <1>7 DEF EvidenceFails
    <2>2. r.pc # "supersede"
      BY <1>7 DEF EvidenceFails, At
    <2>3. \A k \in Intakes \X Names : files'[k] \in {files[k], Torn}
      BY <1>0, <1>7 DEF EvidenceFails
    <2>4. \A q \in db.evidence : <<q.intake, q.name>> \in Intakes \X Names
      BY <1>0 DEF EvidenceRow
    <2> QED
      BY <1>6, <2>1, <2>2, <2>3, <2>4 DEF FilesInv
  <1>8. CASE WriteFile
    <2>1. r.pc = "file" /\ db' = db /\ files' = [files EXCEPT ![key] = r.content]
      BY <1>8 DEF WriteFile, At
    <2>2. Goto(Loop, IF r.old = {} THEN "insert" ELSE "supersede")
      BY <1>8 DEF WriteFile
    <2>3. files'[key] = r.content /\ \A k \in Intakes \X Names : k # key => files'[k] = files[k]
      BY <1>0, <1>2, <2>1
    <2>4. ASSUME NEW q \in db.evidence, q.live
          PROVE  Replacing(q)' \/ files'[<<q.intake, q.name>>] \in {q.content, Torn}
      <3>1. CASE q.intake = r.intake /\ q.name = r.name
        <4>1. r.old # {}
          BY <1>3, <1>4, <2>1, <2>4, <3>1
        <4>2. req'[Loop].pc = "supersede" /\ req'[Loop].intake = r.intake
              /\ req'[Loop].name = r.name /\ req'[Loop] # Idle
          BY <1>5, <2>2, <4>1
        <4> QED
          BY <3>1, <4>2 DEF Replacing
      <3>2. CASE ~(q.intake = r.intake /\ q.name = r.name)
        <4>1. <<q.intake, q.name>> \in Intakes \X Names /\ <<q.intake, q.name>> # key
          BY <1>0, <3>2 DEF EvidenceRow
        <4> QED
          BY <1>6, <2>1, <2>3, <2>4, <4>1
      <3> QED
        BY <3>1, <3>2
    <2>5. files'[<<req'[Loop].intake, req'[Loop].name>>] = req'[Loop].content
      BY <1>5, <2>2, <2>3
    <2> QED
      BY <2>1, <2>4, <2>5 DEF FilesInv
  <1>9. CASE SupersedeOld
    <2> DEFINE after == (db.evidence \ r.old) \union Superseded(r.old)
    <2>1. r.pc = "supersede" /\ r.old = live /\ files' = files
      BY <1>3, <1>9 DEF SupersedeOld, At
    <2>2. db'.evidence = after
      BY <1>0, <1>9 DEF SupersedeOld, Tables
    <2>3. r.old \in SUBSET db.evidence
      BY <2>1 DEF LiveRows
    <2>4. \A s \in after : s.live => s \in db.evidence \ r.old
      <3>1. db.evidence \in SUBSET EvidenceRow
        BY <1>0
      <3> QED
        BY <2>3, <3>1, Supersession
    <2>5. Goto(Loop, IF r.requeue THEN "requeue" ELSE "insert")
      BY <1>9 DEF SupersedeOld
    <2> HIDE DEF after
    <2>6. \A q \in after : q.live => files'[<<q.intake, q.name>>] \in {q.content, Torn}
      BY <1>4, <2>1, <2>4 DEF FilesInv, Replacing
    <2>7. files[key] = r.content
      BY <1>1, <2>1 DEF FilesInv
    <2> QED
      BY <1>5, <2>1, <2>2, <2>5, <2>6, <2>7 DEF FilesInv
  <1>10. CASE Requeue \/ LogRequeued
    <2>1. db'.evidence = db.evidence /\ files' = files
      BY <1>0, <1>10 DEF Requeue, LogRequeued, Tables
    <2>2. (r.pc = "requeue" /\ Goto(Loop, "relog")) \/ (r.pc = "relog" /\ Goto(Loop, "insert"))
      BY <1>10 DEF Requeue, LogRequeued, At
    <2>3. files[key] = r.content
      BY <1>1, <2>2 DEF FilesInv
    <2> QED
      BY <1>5, <1>6, <2>1, <2>2, <2>3 DEF FilesInv
  <1>11. CASE InsertEvidence
    <2> DEFINE row == [intake |-> r.intake, name |-> r.name, content |-> r.content, live |-> TRUE]
    <2>1. r.pc = "insert" /\ files' = files /\ Goto(Loop, "thread")
      BY <1>11 DEF InsertEvidence, At
    <2>2. db'.evidence = db.evidence \union {row}
      BY <1>0, <1>11 DEF InsertEvidence, Tables
    <2>3. files[key] = r.content
      BY <1>1, <2>1 DEF FilesInv
    <2>4. files[<<row.intake, row.name>>] = row.content
      BY <2>3
    <2> HIDE DEF row
    <2> QED
      BY <1>5, <1>6, <2>1, <2>2, <2>4 DEF FilesInv
  <1>12. CASE CheckThread
    <2>1. db'.evidence = db.evidence /\ files' = files /\ r.pc = "thread" /\ Goto(Loop, "commit")
      BY <1>0, <1>12 DEF CheckThread, Tables, At
    <2> QED
      BY <1>5, <1>6, <2>1 DEF FilesInv
  <1> QED
    BY <1>7, <1>8, <1>9, <1>10, <1>11, <1>12 DEF Uploading

LEMMA NextKeepsFiles == ~Crashes /\ TypeOK /\ EvidenceInv /\ FilesInv /\ [Next]_vars => FilesInv'
  <1> SUFFICES ASSUME ~Crashes, TypeOK, EvidenceInv, FilesInv, [Next]_vars PROVE FilesInv'
    OBVIOUS
  <1>0. db \in Tables /\ req \in [Workers -> Request] /\ Loop \in Workers
    BY DEF TypeOK, Workers
  <1>1. ASSUME NEW w \in Pool, PoolBegins(w) PROVE FilesInv'
    <2>1. UNCHANGED <<db, files>> /\ req'[Loop] = req[Loop]
      BY <1>0, <1>1, PoolBeginsOne, ThreadsAssumption
    <2> QED
      BY <2>1 DEF FilesInv, Replacing
  <1>2. CASE LoopBegins
    <2>1. UNCHANGED <<db, files>> /\ req[Loop] = Idle
      BY <1>0, <1>2, LoopBeginsOne
    <2>2. PICK p \in Personas, i \in Intakes, n \in Names, c \in Contents :
             BeginEvidence(p, i, n, c)
      BY <1>2 DEF LoopBegins
    <2>3. req'[Loop].pc = "file"
      BY <1>0, <2>2 DEF BeginEvidence, Begin
    <2> QED
      BY <2>1, <2>3 DEF FilesInv, Replacing
  <1>3. ASSUME NEW w \in Pool, Step(w) PROVE FilesInv'
    <2>1. db'.evidence = db.evidence /\ req'[Loop] = req[Loop]
      BY <1>3, EvidenceWriters
    <2>2. files' = files
      BY <1>3 DEF Step, InsertIntake, LogCreated, CheckBlock, UpdateStatus, LogTransition,
         UpdateDecision, LogDecision, InsertBlock, CloseBlock, LogStatus
    <2> QED
      BY <2>1, <2>2 DEF FilesInv, Replacing
  <1>4. ASSUME NEW w \in Workers, Commit(w) PROVE FilesInv'
    <2>1. UNCHANGED <<db, files>> /\ (req'[Loop] = req[Loop] \/ req'[Loop] = Idle)
      BY <1>0, <1>4 DEF Commit
    <2>2. req'[Loop] = Idle /\ req[Loop] # Idle => req[Loop].pc # "supersede"
      BY <1>0, <1>4 DEF Commit
    <2> QED
      BY <2>1, <2>2 DEF FilesInv, Replacing
  <1>5. CASE UNCHANGED vars
    BY <1>5 DEF vars, FilesInv, Replacing
  <1> QED
    BY <1>1, <1>2, <1>3, <1>4, <1>5, NextCases, UploadKeepsFiles DEF Crash

LEMMA InitFiles == Init => FilesInv
  BY DEF Init, Blank, FilesInv, Workers

\* While the process lives, every live row between uploads describes its file.
THEOREM RowsDescribeFiles ==
    ASSUME Crashes = FALSE
    PROVE  Spec => []LiveRowsMatchFiles
  <1>1. TypeOK /\ EvidenceInv /\ FilesInv /\ [Next]_vars => FilesInv'
    BY NextKeepsFiles
  <1>2. FilesInv => LiveRowsMatchFiles
    BY DEF FilesInv, Replacing, LiveRowsMatchFiles
  <1> QED
    BY <1>1, <1>2, InitFiles, EvidenceInvariant, ThreadsTypeCorrect, PTL DEF Spec

----------------------------------------------------------------------------
(* One request at a time.  With a single request in service, what is pending   *)
(* on the connection is the part of its handler that has been executed, and    *)
(* the checks that let it in still hold of the committed tables.               *)

OneAtATime ==
    \A v, w \in Workers : req[v] # Idle /\ req[w] # Idle => v = w

NothingPending ==
    /\ db.intake = disk.intake
    /\ db.evidence = disk.evidence
    /\ db.block = disk.block
    /\ db.audit = disk.audit

\* An audit table in which the handler of r has stated s, if it has got that far.
Logged(r, done, s) ==
    db.audit = IF done THEN [disk.audit EXCEPT ![r.intake] = Stated(r.who, s)] ELSE disk.audit

CreatePending(r) ==
    /\ ~Issued(disk.intake[r.intake])
    /\ db.intake = IF r.pc = "insert" THEN disk.intake
                   ELSE [disk.intake EXCEPT ![r.intake].status = "draft",
                                            ![r.intake].owner = r.who]
    /\ Logged(r, r.pc = "commit", "draft")
    /\ db.evidence = disk.evidence
    /\ db.block = disk.block

TransitionPending(r) ==
    LET row == disk.intake[r.intake] IN
    /\ Issued(row)
    /\ MayReach(r.who, row)
    /\ \E edge \in TRANSITIONS :
          edge[1] = row.status /\ edge[2] = r.to /\ Role[r.who] \in edge[3]
    /\ ~AwaitsDecision(row)
    /\ r.to = "sme-confirmed" /\ r.pc # "block" => OpenBlocks(disk.block, r.who) = {}
    /\ db.intake = IF r.pc \in {"block", "update"} THEN disk.intake
                   ELSE [disk.intake EXCEPT ![r.intake].status = r.to]
    /\ Logged(r, r.pc = "commit", r.to)
    /\ db.evidence = disk.evidence
    /\ db.block = disk.block

DecisionPending(r) ==
    LET row == disk.intake[r.intake] IN
    /\ Issued(row)
    /\ MayReach(r.who, row)
    /\ row.flagged
    /\ row.decision = Undecided
    /\ r.status = Ruled(row, r.decision).status
    /\ r.pc = "log" => r.decision = "no-new-value"
    /\ db.intake = IF r.pc = "update" THEN disk.intake
                   ELSE [disk.intake EXCEPT ![r.intake] = Ruled(row, r.decision)]
    /\ Logged(r, r.pc = "commit" /\ r.decision = "no-new-value", "no-new-value")
    /\ db.evidence = disk.evidence
    /\ db.block = disk.block

UploadGranted(r) ==
    LET row == disk.intake[r.intake] IN
    /\ Issued(row)
    /\ MayReach(r.who, row)
    /\ row.status \notin UploadClosed
    /\ r.old = LiveRows(disk.evidence, r.intake, r.name)
    /\ \A q \in r.old : q.content # r.content
    /\ r.requeue <=> r.old # {} /\ row.status \in RequeueFrom

EvidencePending(r) ==
    LET row     == disk.intake[r.intake]
        retired == (disk.evidence \ r.old) \union Superseded(r.old)
        added   == [intake |-> r.intake, name |-> r.name, content |-> r.content, live |-> TRUE]
        priors  == PriorIntakes(disk.evidence, r.intake, r.content)
    IN
    /\ UploadGranted(r)
    /\ r.pc \in {"requeue", "relog"} => r.requeue
    /\ db.evidence = IF r.pc \in {"file", "supersede"} THEN disk.evidence
                     ELSE IF r.pc \in {"thread", "commit"} THEN retired \union {added}
                     ELSE retired
    /\ db.intake = IF r.pc = "commit"
                      THEN [disk.intake EXCEPT ![r.intake] = Uploaded(row, r.requeue, priors)]
                   ELSE IF r.pc \in {"relog", "insert", "thread"} /\ r.requeue
                      THEN [disk.intake EXCEPT ![r.intake].status = "draft"]
                   ELSE disk.intake
    /\ Logged(r, r.pc \in {"insert", "thread", "commit"} /\ r.requeue, "draft")
    /\ db.block = disk.block

BlockPending(r) ==
    /\ \E p \in Personas : Role[p] = "admin"
    /\ OpenBlocks(disk.block, r.target) = {}
    /\ disk.block[r.id] = BlankBlock
    /\ db.block = IF r.pc = "update" THEN disk.block
                  ELSE [disk.block EXCEPT ![r.id] = [persona |-> r.target, open |-> TRUE]]
    /\ db.intake = disk.intake
    /\ db.evidence = disk.evidence
    /\ db.audit = disk.audit

UnblockPending(r) ==
    /\ \E p \in Personas : Role[p] = "admin"
    /\ \E target \in Personas : r.id \in OpenBlocks(disk.block, target)
    /\ db.block = IF r.pc = "update" THEN disk.block
                  ELSE [disk.block EXCEPT ![r.id].open = FALSE]
    /\ db.intake = disk.intake
    /\ db.evidence = disk.evidence
    /\ db.audit = disk.audit

Pending(r) ==
    /\ r.op = "create"     => CreatePending(r)
    /\ r.op = "transition" => TransitionPending(r)
    /\ r.op = "decision"   => DecisionPending(r)
    /\ r.op = "evidence"   => EvidencePending(r)
    /\ r.op = "block"      => BlockPending(r)
    /\ r.op = "unblock"    => UnblockPending(r)

SerialInv ==
    /\ OneAtATime
    /\ (\A w \in Workers : req[w] = Idle) => NothingPending
    /\ \A w \in Workers : req[w] # Idle => Pending(req[w])

LEMMA NobodyElse ==
    ASSUME OneAtATime, NEW w \in Workers, req[w] # Idle
    PROVE  \A v \in Workers : v # w => req[v] = Idle
  BY DEF OneAtATime

\* A slot is free only when nobody is served.
LEMMA FreeSlot ==
    ASSUME MaxInFlight = 1, TypeOK, OneAtATime, Cardinality(InFlight) < MaxInFlight
    PROVE  \A w \in Workers : req[w] = Idle
  <1>1. SUFFICES ASSUME NEW w \in Workers, req[w] # Idle PROVE FALSE
    OBVIOUS
  <1>2. \A v \in Workers : req[v].op # "idle" <=> req[v] # Idle
    BY PoolKinds, LoopKinds DEF TypeOK, Workers, Idle
  <1>3. InFlight = {w}
    BY <1>1, <1>2, NobodyElse DEF InFlight
  <1>4. Cardinality(InFlight) = 1
    BY <1>3, FS_Singleton
  <1> QED
    BY <1>4

\* The one request in service moves on or ends.
LEMMA SerialTurn ==
    ASSUME TypeOK, NEW w \in Workers, \A v \in Workers : v # w => req[v] = Idle,
           req' = [req EXCEPT ![w] = req'[w]],
           \/ req'[w] = Idle /\ NothingPending'
           \/ req'[w] # Idle /\ Pending(req[w])'
    PROVE  SerialInv'
  <1>1. \A v \in Workers : v # w => req'[v] = Idle
    BY DEF TypeOK
  <1>2. OneAtATime'
    BY <1>1 DEF OneAtATime
  <1>3. (\A v \in Workers : req'[v] = Idle) => NothingPending'
    OBVIOUS
  <1>4. ASSUME NEW v \in Workers, req'[v] # Idle PROVE Pending(req[v])'
    <2>1. v = w
      BY <1>1, <1>4
    <2> QED
      BY <1>4, <2>1
  <1> QED
    BY <1>2, <1>3, <1>4 DEF SerialInv

LEMMA BeginsPending ==
    ASSUME MaxInFlight = 1, TypeOK, SerialInv, NEW w \in Pool, PoolBegins(w)
    PROVE  SerialInv'
  <1>0. w \in Workers /\ req \in [Workers -> Request] /\ db \in Tables
    BY DEF TypeOK, Workers
  <1>1. UNCHANGED <<db, disk>> /\ req' = [req EXCEPT ![w] = req'[w]]
    BY <1>0, PoolBeginsOne
  <1>2. Cardinality(InFlight) < MaxInFlight
    BY DEF PoolBegins, BeginCreate, BeginTransition, BeginDecision, BeginBlock, BeginUnblock, Begin
  <1>3. \A v \in Workers : req[v] = Idle
    BY <1>2, FreeSlot DEF SerialInv
  <1>4. NothingPending
    BY <1>3 DEF SerialInv
  <1>5. Pending(req[w])' /\ req'[w] # Idle
    <2>1. ASSUME NEW p \in Personas, NEW i \in Intakes, BeginCreate(w, p, i)
          PROVE  Pending(req[w])' /\ req'[w] # Idle
      <3>1. req'[w] = [op |-> "create", pc |-> "insert", who |-> p, intake |-> i]
        BY <1>0, <2>1 DEF BeginCreate, Begin
      <3>2. CreatePending(req[w])'
        BY <1>1, <1>4, <2>1, <3>1 DEF BeginCreate, CreatePending, NothingPending, Logged
      <3> QED
        BY <3>1, <3>2 DEF Pending, Idle
    <2>2. ASSUME NEW p \in Personas, NEW i \in Intakes, NEW to \in Statuses,
                 BeginTransition(w, p, i, to)
          PROVE  Pending(req[w])' /\ req'[w] # Idle
      <3>1. req'[w] = [op |-> "transition", who |-> p, intake |-> i, to |-> to,
                       pc |-> IF to = "sme-confirmed" THEN "block" ELSE "update"]
        BY <1>0, <2>2 DEF BeginTransition, Begin
      <3>2. /\ req'[w].op = "transition" /\ req'[w].who = p /\ req'[w].intake = i
            /\ req'[w].to = to /\ req'[w].pc \in {"block", "update"}
            /\ to = "sme-confirmed" => req'[w].pc = "block"
        BY <3>1
      <3>3. TransitionPending(req[w])'
        BY <1>1, <1>4, <2>2, <3>2 DEF BeginTransition, TransitionPending, NothingPending, Logged
      <3> QED
        BY <3>2, <3>3 DEF Pending, Idle
    <2>3. ASSUME NEW p \in Personas, NEW i \in Intakes, NEW d \in Decisions,
                 BeginDecision(w, p, i, d)
          PROVE  Pending(req[w])' /\ req'[w] # Idle
      <3>1. req'[w] = [op |-> "decision", pc |-> "update", who |-> p, intake |-> i,
                       decision |-> d, status |-> Ruled(db.intake[i], d).status]
        BY <1>0, <2>3 DEF BeginDecision, Begin
      <3>2. DecisionPending(req[w])'
        BY <1>1, <1>4, <2>3, <3>1 DEF BeginDecision, DecisionPending, NothingPending, Logged
      <3> QED
        BY <3>1, <3>2 DEF Pending, Idle
    <2>4. ASSUME NEW p \in Personas, NEW target \in Personas, NEW b \in BlockIds,
                 BeginBlock(w, p, target, b)
          PROVE  Pending(req[w])' /\ req'[w] # Idle
      <3>1. req'[w] = [op |-> "block", pc |-> "update", target |-> target, id |-> b]
        BY <1>0, <2>4 DEF BeginBlock, Begin
      <3>2. BlockPending(req[w])'
        BY <1>1, <1>4, <2>4, <3>1 DEF BeginBlock, BlockPending, NothingPending
      <3> QED
        BY <3>1, <3>2 DEF Pending, Idle
    <2>5. ASSUME NEW p \in Personas, NEW target \in Personas, BeginUnblock(w, p, target)
          PROVE  Pending(req[w])' /\ req'[w] # Idle
      <3>1. PICK b \in OpenBlocks(db.block, target) :
               Begin(w, [op |-> "unblock", pc |-> "update", id |-> b])
        BY <2>5 DEF BeginUnblock
      <3>2. req'[w] = [op |-> "unblock", pc |-> "update", id |-> b]
        BY <1>0, <3>1 DEF Begin
      <3>3. b \in OpenBlocks(disk.block, target)
        BY <1>4, <3>1 DEF NothingPending
      <3>4. UnblockPending(req[w])'
        BY <1>1, <1>4, <2>5, <3>2, <3>3 DEF BeginUnblock, UnblockPending, NothingPending
      <3> QED
        BY <3>2, <3>4 DEF Pending, Idle
    <2> QED
      BY <2>1, <2>2, <2>3, <2>4, <2>5 DEF PoolBegins
  <1> QED
    BY <1>0, <1>1, <1>3, <1>5, SerialTurn

LEMMA UploadBeginsPending ==
    ASSUME MaxInFlight = 1, TypeOK, SerialInv, LoopBegins
    PROVE  SerialInv'
  <1>0. Loop \in Workers /\ req \in [Workers -> Request] /\ db \in Tables
    BY DEF TypeOK, Workers
  <1>1. PICK p \in Personas, i \in Intakes, n \in Names, c \in Contents : BeginEvidence(p, i, n, c)
    BY DEF LoopBegins
  <1> DEFINE old  == LiveRows(db.evidence, i, n)
             flag == old # {} /\ db.intake[i].status \in RequeueFrom
             r    == [op |-> "evidence", pc |-> "file", who |-> p, intake |-> i, name |-> n,
                      content |-> c, old |-> old, requeue |-> flag]
  <1>2. /\ UNCHANGED <<db, disk>> /\ req' = [req EXCEPT ![Loop] = r]
        /\ Cardinality(InFlight) < MaxInFlight
    BY <1>1 DEF BeginEvidence, Begin
  <1>3. \A v \in Workers : req[v] = Idle
    BY <1>2, FreeSlot DEF SerialInv
  <1>4. NothingPending
    BY <1>3 DEF SerialInv
  <1>5. req'[Loop] = r
    BY <1>0, <1>2
  <1>6. /\ req'[Loop].op = "evidence" /\ req'[Loop].pc = "file" /\ req'[Loop].who = p
        /\ req'[Loop].intake = i /\ req'[Loop].name = n /\ req'[Loop].content = c
        /\ req'[Loop].old = old /\ req'[Loop].requeue = flag
    BY <1>5
  <1>7. /\ Issued(db.intake[i]) /\ MayReach(p, db.intake[i])
        /\ db.intake[i].status \notin UploadClosed
        /\ \A q \in old : q.content # c
    BY <1>1 DEF BeginEvidence
  <1> HIDE DEF r
  <1>8. EvidencePending(req[Loop])'
    BY <1>2, <1>4, <1>6, <1>7 DEF EvidencePending, UploadGranted, NothingPending, Logged
  <1>9. Pending(req[Loop])' /\ req'[Loop] # Idle
    BY <1>6, <1>8 DEF Pending, Idle
  <1> QED
    BY <1>0, <1>2, <1>3, <1>5, <1>9, SerialTurn

LEMMA StepsPending ==
    ASSUME TypeOK, SerialInv, NEW w \in Pool, Step(w)
    PROVE  SerialInv'
  <1>0. /\ w \in Workers /\ req \in [Workers -> Request] /\ req[w] \in PoolRequest
        /\ db \in Tables /\ disk \in Tables
    BY DEF TypeOK, Workers
  <1> DEFINE r == req[w]
  <1>1. r # Idle /\ disk' = disk /\ req' = [req EXCEPT ![w] = req'[w]]
    <2>1. r.op # "idle"
      BY DEF Step, InsertIntake, LogCreated, CheckBlock, UpdateStatus, LogTransition,
         UpdateDecision, LogDecision, InsertBlock, CloseBlock, LogStatus, At
    <2> QED
      BY <1>0, <2>1 DEF Step, InsertIntake, LogCreated, CheckBlock, UpdateStatus, LogTransition,
         UpdateDecision, LogDecision, InsertBlock, CloseBlock, LogStatus, Goto, Idle
  <1>2. \A v \in Workers : v # w => req[v] = Idle
    BY <1>0, <1>1, NobodyElse DEF SerialInv
  <1>3. Pending(r)
    BY <1>0, <1>1 DEF SerialInv
  <1>4. SUFFICES \/ req'[w] = Idle /\ NothingPending'
                 \/ req'[w] # Idle /\ Pending(req[w])'
    BY <1>0, <1>1, <1>2, SerialTurn
  <1>5. ASSUME NEW to, Goto(w, to) PROVE req'[w] = [r EXCEPT !.pc = to]
    BY <1>0, <1>5 DEF Goto
  <1>6. CASE InsertIntake(w) \/ LogCreated(w)
    <2>1. r.op = "create"
      BY <1>6 DEF InsertIntake, LogCreated, LogStatus, At
    <2>2. r \in CreateRequest /\ CreatePending(r)
      BY <1>0, <1>3, <2>1, PoolKinds DEF Pending
    <2>3. r.intake \in Intakes
      BY <2>2 DEF CreateRequest
    <2>4. ASSUME NEW to, Goto(w, to)
          PROVE  /\ req'[w].op = "create" /\ req'[w].pc = to /\ req'[w].who = r.who
                 /\ req'[w].intake = r.intake
      <3>1. r \in CreateRequest
        BY <2>2
      <3>2. req'[w] = [r EXCEPT !.pc = to]
        BY <1>5, <2>4
      <3> QED
        BY <3>1, <3>2 DEF CreateRequest
    <2>5. CASE InsertIntake(w)
      <3>1. r.pc = "insert" /\ Goto(w, "log") /\ db.intake = disk.intake
        BY <2>2, <2>5 DEF InsertIntake, At, CreatePending
      <3>2. /\ db'.intake = [db.intake EXCEPT ![r.intake].status = "draft",
                                              ![r.intake].owner = r.who]
            /\ db'.evidence = db.evidence /\ db'.block = db.block /\ db'.audit = db.audit
        BY <1>0, <2>3, <2>5 DEF InsertIntake, Tables
      <3>3. CreatePending(req[w])'
        BY <1>1, <2>2, <2>4, <3>1, <3>2 DEF CreatePending, Logged
      <3> QED
        BY <2>4, <3>1, <3>3 DEF Pending, Idle
    <2>6. CASE LogCreated(w)
      <3>1. r.pc = "log" /\ Goto(w, "commit")
        BY <2>6 DEF LogCreated, LogStatus, At
      <3>2. /\ db'.audit = [db.audit EXCEPT ![r.intake] = Stated(r.who, "draft")]
            /\ db'.evidence = db.evidence /\ db'.block = db.block /\ db'.intake = db.intake
        BY <1>0, <2>6 DEF LogCreated, LogStatus, Tables
      <3>3. CreatePending(req[w])'
        BY <1>1, <2>2, <2>4, <3>1, <3>2 DEF CreatePending, Logged
      <3> QED
        BY <2>4, <3>1, <3>3 DEF Pending, Idle
    <2> QED
      BY <1>6, <2>5, <2>6
  <1>7. CASE CheckBlock(w) \/ UpdateStatus(w) \/ LogTransition(w)
    <2>1. r.op = "transition"
      BY <1>7 DEF CheckBlock, UpdateStatus, LogTransition, LogStatus, At
    <2>2. r \in TransitionRequest /\ TransitionPending(r)
      BY <1>0, <1>3, <2>1, PoolKinds DEF Pending
    <2>3. r.intake \in Intakes
      BY <2>2 DEF TransitionRequest
    <2>4. ASSUME NEW to, Goto(w, to)
          PROVE  /\ req'[w].op = "transition" /\ req'[w].pc = to /\ req'[w].who = r.who
                 /\ req'[w].intake = r.intake /\ req'[w].to = r.to
      <3>1. r \in TransitionRequest
        BY <2>2
      <3>2. req'[w] = [r EXCEPT !.pc = to]
        BY <1>5, <2>4
      <3> QED
        BY <3>1, <3>2 DEF TransitionRequest
    <2>5. CASE CheckBlock(w)
      <3>1. r.pc = "block" /\ db' = db /\ NothingPending
        BY <2>2, <2>5 DEF CheckBlock, At, TransitionPending, Logged, NothingPending
      <3>2. CASE OpenBlocks(db.block, r.who) = {}
        <4>1. Goto(w, "update")
          BY <2>5, <3>2 DEF CheckBlock
        <4>2. TransitionPending(req[w])'
          BY <1>1, <2>2, <2>4, <3>1, <3>2, <4>1 DEF TransitionPending, Logged
        <4> QED
          BY <2>4, <4>1, <4>2 DEF Pending, Idle
      <3>3. CASE OpenBlocks(db.block, r.who) # {}
        BY <1>0, <1>1, <2>5, <3>1, <3>3 DEF CheckBlock, NothingPending
      <3> QED
        BY <3>2, <3>3
    <2>6. CASE UpdateStatus(w)
      <3>1. r.pc = "update" /\ Goto(w, "log") /\ db.intake = disk.intake
        BY <2>2, <2>6 DEF UpdateStatus, At, TransitionPending
      <3>2. /\ db'.intake = [db.intake EXCEPT ![r.intake].status = r.to]
            /\ db'.evidence = db.evidence /\ db'.block = db.block /\ db'.audit = db.audit
        BY <1>0, <2>6 DEF UpdateStatus, Tables
      <3>3. TransitionPending(req[w])'
        BY <1>1, <2>2, <2>4, <3>1, <3>2 DEF TransitionPending, Logged
      <3> QED
        BY <2>4, <3>1, <3>3 DEF Pending, Idle
    <2>7. CASE LogTransition(w)
      <3>1. r.pc = "log" /\ Goto(w, "commit")
        BY <2>7 DEF LogTransition, LogStatus, At
      <3>2. /\ db'.audit = [db.audit EXCEPT ![r.intake] = Stated(r.who, r.to)]
            /\ db'.evidence = db.evidence /\ db'.block = db.block /\ db'.intake = db.intake
        BY <1>0, <2>7 DEF LogTransition, LogStatus, Tables
      <3>3. TransitionPending(req[w])'
        BY <1>1, <2>2, <2>4, <3>1, <3>2 DEF TransitionPending, Logged
      <3> QED
        BY <2>4, <3>1, <3>3 DEF Pending, Idle
    <2> QED
      BY <1>7, <2>5, <2>6, <2>7
  <1>8. CASE UpdateDecision(w) \/ LogDecision(w)
    <2>1. r.op = "decision"
      BY <1>8 DEF UpdateDecision, LogDecision, LogStatus, At
    <2>2. r \in DecisionRequest /\ DecisionPending(r)
      BY <1>0, <1>3, <2>1, PoolKinds DEF Pending
    <2>3. r.intake \in Intakes
      BY <2>2 DEF DecisionRequest
    <2>4. ASSUME NEW to, Goto(w, to)
          PROVE  /\ req'[w].op = "decision" /\ req'[w].pc = to /\ req'[w].who = r.who
                 /\ req'[w].intake = r.intake /\ req'[w].decision = r.decision
                 /\ req'[w].status = r.status
      <3>1. r \in DecisionRequest
        BY <2>2
      <3>2. req'[w] = [r EXCEPT !.pc = to]
        BY <1>5, <2>4
      <3> QED
        BY <3>1, <3>2 DEF DecisionRequest
    <2>5. CASE UpdateDecision(w)
      <3> DEFINE row == disk.intake[r.intake]
                 to  == IF r.decision = "no-new-value" THEN "log" ELSE "commit"
      <3>1. r.pc = "update" /\ Goto(w, to) /\ db.intake = disk.intake /\ db.audit = disk.audit
        BY <2>2, <2>5 DEF UpdateDecision, At, DecisionPending, Logged
      <3>2. /\ db'.intake = [db.intake EXCEPT ![r.intake].decision = r.decision,
                                              ![r.intake].status = r.status]
            /\ db'.evidence = db.evidence /\ db'.block = db.block /\ db'.audit = db.audit
        BY <1>0, <2>3, <2>5 DEF UpdateDecision, Tables
      <3>3. row \in IntakeRow
        BY <1>0, <2>3 DEF Tables
      <3>4. [[row EXCEPT !.decision = r.decision] EXCEPT !.status = r.status]
               = Ruled(row, r.decision)
        BY <2>2, <3>3 DEF DecisionPending, Ruled, IntakeRow
      <3>5. db'.intake = [disk.intake EXCEPT ![r.intake] = Ruled(row, r.decision)]
        BY <1>0, <2>3, <3>1, <3>2, <3>4 DEF Tables
      <3>6. DecisionPending(req[w])'
        <4>1. req'[w].pc = to /\ disk' = disk
          BY <1>1, <2>4, <3>1
        <4>2. Logged(req[w], r.pc = "commit" /\ r.decision = "no-new-value", "no-new-value")'
          BY <2>4, <3>1, <3>2, <4>1 DEF Logged
        <4> HIDE DEF row
        <4> QED
          BY <2>2, <2>4, <3>1, <3>2, <3>5, <4>1, <4>2 DEF DecisionPending, row
      <3> QED
        BY <2>4, <3>1, <3>6 DEF Pending, Idle
    <2>6. CASE LogDecision(w)
      <3>1. r.pc = "log" /\ Goto(w, "commit") /\ r.decision = "no-new-value"
        BY <2>2, <2>6 DEF LogDecision, LogStatus, At, DecisionPending
      <3>2. /\ db'.audit = [db.audit EXCEPT ![r.intake] = Stated(r.who, "no-new-value")]
            /\ db'.evidence = db.evidence /\ db'.block = db.block /\ db'.intake = db.intake
        BY <1>0, <2>6 DEF LogDecision, LogStatus, Tables
      <3>3. DecisionPending(req[w])'
        BY <1>1, <2>2, <2>4, <3>1, <3>2 DEF DecisionPending, Logged
      <3> QED
        BY <2>4, <3>1, <3>3 DEF Pending, Idle
    <2> QED
      BY <1>8, <2>5, <2>6
  <1>9. CASE InsertBlock(w)
    <2>1. r.op = "block" /\ r.pc = "update" /\ Goto(w, "commit")
      BY <1>9 DEF InsertBlock, At
    <2>2. r \in BlockRequest /\ BlockPending(r)
      BY <1>0, <1>3, <2>1, PoolKinds DEF Pending
    <2>3. /\ req'[w].op = "block" /\ req'[w].pc = "commit" /\ req'[w].target = r.target
          /\ req'[w].id = r.id
      <3>1. r \in BlockRequest
        BY <2>2
      <3>2. req'[w] = [r EXCEPT !.pc = "commit"]
        BY <1>5, <2>1
      <3> QED
        BY <2>1, <3>1, <3>2 DEF BlockRequest
    <2>4. /\ db'.block = [db.block EXCEPT ![r.id] = [persona |-> r.target, open |-> TRUE]]
          /\ db'.evidence = db.evidence /\ db'.audit = db.audit /\ db'.intake = db.intake
      BY <1>0, <1>9 DEF InsertBlock, Tables
    <2>5. BlockPending(req[w])'
      BY <1>1, <2>1, <2>2, <2>3, <2>4 DEF BlockPending
    <2> QED
      BY <2>3, <2>5 DEF Pending, Idle
  <1>10. CASE CloseBlock(w)
    <2>1. r.op = "unblock" /\ r.pc = "update" /\ Goto(w, "commit")
      BY <1>10 DEF CloseBlock, At
    <2>2. r \in UnblockRequest /\ UnblockPending(r)
      BY <1>0, <1>3, <2>1, PoolKinds DEF Pending
    <2>3. req'[w].op = "unblock" /\ req'[w].pc = "commit" /\ req'[w].id = r.id
      <3>1. r \in UnblockRequest
        BY <2>2
      <3>2. req'[w] = [r EXCEPT !.pc = "commit"]
        BY <1>5, <2>1
      <3> QED
        BY <2>1, <3>1, <3>2 DEF UnblockRequest
    <2>4. /\ db'.block = [db.block EXCEPT ![r.id].open = FALSE]
          /\ db'.evidence = db.evidence /\ db'.audit = db.audit /\ db'.intake = db.intake
      BY <1>0, <1>10 DEF CloseBlock, Tables
    <2>5. UnblockPending(req[w])'
      BY <1>1, <2>1, <2>2, <2>3, <2>4 DEF UnblockPending
    <2> QED
      BY <2>3, <2>5 DEF Pending, Idle
  <1> QED
    BY <1>6, <1>7, <1>8, <1>9, <1>10 DEF Step

\* Superseding an intake's own rows and adding one of its own changes nothing of
\* what a thread check finds in the others.
LEMMA OwnRowsAreNoPriors ==
    ASSUME NEW rows \in SUBSET EvidenceRow, NEW i, NEW n, NEW c, NEW old, NEW row,
           old = LiveRows(rows, i, n), row.intake = i
    PROVE  PriorIntakes((rows \ old) \union Superseded(old) \union {row}, i, c)
              = PriorIntakes(rows, i, c)
  <1> DEFINE later == (rows \ old) \union Superseded(old) \union {row}
  <1>1. ASSUME NEW q \in Superseded(old) PROVE ~q.live
    <2>1. PICK s \in old : q = [s EXCEPT !.live = FALSE]
      BY DEF Superseded
    <2>2. s \in EvidenceRow
      BY DEF LiveRows
    <2> QED
      BY <2>1, <2>2 DEF EvidenceRow
  <1>2. \A q \in old : q.intake = i
    BY DEF LiveRows
  <1>3. \A q : q \in later /\ q.live /\ q.intake # i <=> q \in rows /\ q.live /\ q.intake # i
    BY <1>1, <1>2
  <1>4. {q \in later : q.live /\ q.intake # i /\ <<c, q.content>> \in Continues}
           = {q \in rows : q.live /\ q.intake # i /\ <<c, q.content>> \in Continues}
    BY <1>3
  <1> HIDE DEF later
  <1>5. PriorIntakes(later, i, c) = PriorIntakes(rows, i, c)
    BY <1>4 DEF PriorIntakes
  <1> QED
    BY <1>5 DEF later

LEMMA UploadsPending ==
    ASSUME ~IOErrors, TypeOK, SerialInv, Uploading
    PROVE  SerialInv'
  <1> DEFINE r       == req[Loop]
             row     == disk.intake[r.intake]
             retired == (disk.evidence \ r.old) \union Superseded(r.old)
             added   == [intake |-> r.intake, name |-> r.name, content |-> r.content,
                         live |-> TRUE]
             priors  == PriorIntakes(disk.evidence, r.intake, r.content)
  <1>0. /\ Loop \in Workers /\ req \in [Workers -> Request] /\ r \in {Idle} \union EvidenceRequest
        /\ db \in Tables /\ disk \in Tables
    BY DEF TypeOK, Workers
  <1>1. r.op = "evidence" /\ disk' = disk
    BY DEF Uploading, WriteFile, SupersedeOld, Requeue, LogRequeued, InsertEvidence, CheckThread,
       EvidenceFails, At
  <1>2. r # Idle /\ r \in EvidenceRequest
    BY <1>0, <1>1 DEF Idle
  <1>3. r.intake \in Intakes
    BY <1>2 DEF EvidenceRequest
  <1>4. \A v \in Workers : v # Loop => req[v] = Idle
    BY <1>0, <1>2, NobodyElse DEF SerialInv
  <1>5. EvidencePending(r)
    BY <1>0, <1>1, <1>2 DEF SerialInv, Pending
  <1>6. ASSUME NEW to, Goto(Loop, to)
        PROVE  /\ req' = [req EXCEPT ![Loop] = req'[Loop]]
               /\ req'[Loop].op = "evidence" /\ req'[Loop].pc = to /\ req'[Loop].who = r.who
               /\ req'[Loop].intake = r.intake /\ req'[Loop].name = r.name
               /\ req'[Loop].content = r.content /\ req'[Loop].old = r.old
               /\ req'[Loop].requeue = r.requeue
               /\ UploadGranted(req[Loop])'
    <2>1. req' = [req EXCEPT ![Loop] = [r EXCEPT !.pc = to]]
      BY <1>6 DEF Goto
    <2>2. req'[Loop] = [r EXCEPT !.pc = to]
      BY <1>0, <2>1
    <2>3. r \in EvidenceRequest
      BY <1>2
    <2>4. /\ req'[Loop].op = "evidence" /\ req'[Loop].pc = to /\ req'[Loop].who = r.who
          /\ req'[Loop].intake = r.intake /\ req'[Loop].name = r.name
          /\ req'[Loop].content = r.content /\ req'[Loop].old = r.old
          /\ req'[Loop].requeue = r.requeue
      BY <2>2, <2>3 DEF EvidenceRequest
    <2>5. UploadGranted(req[Loop])'
      BY <1>1, <1>5, <2>4 DEF EvidencePending, UploadGranted
    <2> QED
      BY <2>1, <2>2, <2>4, <2>5
  <1>7. SUFFICES \E to : Goto(Loop, to) /\ EvidencePending(req[Loop])'
    BY <1>0, <1>4, <1>6, SerialTurn DEF Pending, Idle
  <1>8. CASE WriteFile
    <2> DEFINE to == IF r.old = {} THEN "insert" ELSE "supersede"
    <2>1. r.pc = "file" /\ Goto(Loop, to) /\ db' = db
      BY <1>8 DEF WriteFile, At
    <2>2. req'[Loop].pc = to
      BY <1>6, <2>1
    <2>3. r.old = {} => ~r.requeue /\ retired = disk.evidence
      BY <1>5 DEF EvidencePending, UploadGranted, Superseded
    <2>4. EvidencePending(req[Loop])'
      BY <1>1, <1>5, <1>6, <2>1, <2>2, <2>3 DEF EvidencePending, Logged
    <2> QED
      BY <2>1, <2>4
  <1>9. CASE SupersedeOld
    <2> DEFINE to == IF r.requeue THEN "requeue" ELSE "insert"
    <2>1. r.pc = "supersede" /\ Goto(Loop, to) /\ db.evidence = disk.evidence
      BY <1>5, <1>9 DEF SupersedeOld, At, EvidencePending
    <2>2. /\ db'.evidence = retired /\ db'.intake = db.intake /\ db'.block = db.block
          /\ db'.audit = db.audit
      BY <1>0, <1>9, <2>1 DEF SupersedeOld, Tables
    <2>3. EvidencePending(req[Loop])'
      BY <1>1, <1>5, <1>6, <2>1, <2>2 DEF EvidencePending, Logged
    <2> QED
      BY <2>1, <2>3
  <1>10. CASE Requeue
    <2>1. r.pc = "requeue" /\ Goto(Loop, "relog") /\ r.requeue /\ db.intake = disk.intake
      BY <1>5, <1>10 DEF Requeue, At, EvidencePending
    <2>2. /\ db'.intake = [db.intake EXCEPT ![r.intake].status = "draft"]
          /\ db'.evidence = db.evidence /\ db'.block = db.block /\ db'.audit = db.audit
      BY <1>0, <1>10 DEF Requeue, Tables
    <2>3. EvidencePending(req[Loop])'
      <3> DEFINE q == req'[Loop]
      <3> HIDE DEF added, priors
      <3>1. db.evidence = retired /\ db.block = disk.block
        BY <1>5, <2>1 DEF EvidencePending
      <3>2. /\ q.pc = "relog" /\ q.intake = r.intake /\ q.who = r.who /\ q.old = r.old
            /\ q.requeue = r.requeue /\ UploadGranted(req[Loop])'
        BY <1>6, <2>1
      <3>3. db'.intake = [disk.intake EXCEPT ![r.intake].status = "draft"]
        BY <1>5, <2>1, <2>2 DEF EvidencePending
      <3>4. db'.audit = disk.audit
        BY <1>5, <2>1, <2>2 DEF EvidencePending, Logged
      <3>5. Logged(req[Loop], req[Loop].pc \in {"insert", "thread", "commit"} /\ req[Loop].requeue,
                   "draft")'
        BY <1>1, <2>1, <3>2, <3>4 DEF Logged
      <3> QED
        BY <1>1, <2>1, <2>2, <3>1, <3>2, <3>3, <3>5 DEF EvidencePending
    <2> QED
      BY <2>1, <2>3
  <1>11. CASE LogRequeued
    <2>1. r.pc = "relog" /\ Goto(Loop, "insert") /\ r.requeue /\ db.audit = disk.audit
      BY <1>5, <1>11 DEF LogRequeued, At, EvidencePending, Logged
    <2>2. /\ db'.audit = [db.audit EXCEPT ![r.intake] = Stated(r.who, "draft")]
          /\ db'.evidence = db.evidence /\ db'.block = db.block /\ db'.intake = db.intake
      BY <1>0, <1>11 DEF LogRequeued, Tables
    <2>3. EvidencePending(req[Loop])'
      <3> DEFINE q == req'[Loop]
      <3> HIDE DEF added, priors
      <3>1. db.evidence = retired /\ db.block = disk.block
        BY <1>5, <2>1 DEF EvidencePending
      <3>2. /\ q.pc = "insert" /\ q.intake = r.intake /\ q.who = r.who /\ q.old = r.old
            /\ q.requeue = r.requeue /\ UploadGranted(req[Loop])'
        BY <1>6, <2>1
      <3>3. db'.intake = [disk.intake EXCEPT ![r.intake].status = "draft"]
        BY <1>5, <2>1, <2>2 DEF EvidencePending
      <3>4. db'.audit = [disk.audit EXCEPT ![r.intake] = Stated(r.who, "draft")]
        BY <1>5, <2>1, <2>2 DEF EvidencePending, Logged
      <3>5. Logged(req[Loop], req[Loop].pc \in {"insert", "thread", "commit"} /\ req[Loop].requeue,
                   "draft")'
        BY <1>1, <2>1, <3>2, <3>4 DEF Logged
      <3> QED
        BY <1>1, <2>1, <2>2, <3>1, <3>2, <3>3, <3>5 DEF EvidencePending
    <2> QED
      BY <2>1, <2>3
  <1>12. CASE InsertEvidence
    <2>1. r.pc = "insert" /\ Goto(Loop, "thread") /\ db.evidence = retired
      BY <1>5, <1>12 DEF InsertEvidence, At, EvidencePending
    <2>2. /\ db'.evidence = db.evidence \union {added}
          /\ db'.audit = db.audit /\ db'.block = db.block /\ db'.intake = db.intake
      BY <1>0, <1>12 DEF InsertEvidence, Tables
    <2>3. EvidencePending(req[Loop])'
      BY <1>1, <1>5, <1>6, <2>1, <2>2 DEF EvidencePending, Logged
    <2> QED
      BY <2>1, <2>3
  <1>13. CASE CheckThread
    <2>1. /\ r.pc = "thread" /\ Goto(Loop, "commit") /\ db.evidence = retired \union {added}
          /\ db.intake = IF r.requeue THEN [disk.intake EXCEPT ![r.intake].status = "draft"]
                         ELSE disk.intake
      BY <1>5, <1>13 DEF CheckThread, At, EvidencePending
    <2>2. PriorIntakes(db.evidence, r.intake, r.content) = priors
      <3>1. disk.evidence \in SUBSET EvidenceRow
        BY <1>0 DEF Tables
      <3>2. r.old = LiveRows(disk.evidence, r.intake, r.name)
        BY <1>5 DEF EvidencePending, UploadGranted
      <3>3. added.intake = r.intake
        OBVIOUS
      <3> HIDE DEF added
      <3> QED
        BY <2>1, <3>1, <3>2, <3>3, OwnRowsAreNoPriors
    <2>3. row \in IntakeRow
      BY <1>0, <1>3 DEF Tables
    <2>4. Uploaded(db.intake[r.intake], FALSE, priors) = Uploaded(row, r.requeue, priors)
      <3> HIDE DEF priors
      <3>1. CASE r.requeue
        <4>1. db.intake[r.intake] = [row EXCEPT !.status = "draft"]
          BY <1>0, <1>3, <2>1, <3>1 DEF Tables
        <4> QED
          BY <2>3, <3>1, <4>1 DEF Uploaded, IntakeRow
      <3>2. CASE ~r.requeue
        <4>1. r.requeue = FALSE
          BY <1>2, <3>2 DEF EvidenceRequest
        <4>2. db.intake = disk.intake
          BY <2>1, <3>2
        <4> QED
          BY <4>1, <4>2
      <3> QED
        BY <3>1, <3>2
    <2>5. /\ db'.intake = [db.intake EXCEPT ![r.intake] =
                             Uploaded(db.intake[r.intake], FALSE, priors)]
          /\ db'.evidence = db.evidence /\ db'.block = db.block /\ db'.audit = db.audit
      BY <1>0, <1>13, <2>2 DEF CheckThread, Tables
    <2>6. db'.intake = [disk.intake EXCEPT ![r.intake] = Uploaded(row, r.requeue, priors)]
      <3> DEFINE new == Uploaded(row, r.requeue, priors)
      <3>1. db'.intake = [db.intake EXCEPT ![r.intake] = new]
        BY <2>4, <2>5
      <3> HIDE DEF new
      <3>2. db'.intake = [disk.intake EXCEPT ![r.intake] = new]
        BY <1>0, <2>1, <3>1 DEF Tables
      <3> QED
        BY <3>2 DEF new
    <2>7. EvidencePending(req[Loop])'
      <3> HIDE DEF priors
      <3>1. Logged(req[Loop], req[Loop].pc \in {"insert", "thread", "commit"} /\ req[Loop].requeue,
                   "draft")'
        BY <1>1, <1>5, <1>6, <2>1, <2>5 DEF EvidencePending, Logged
      <3>2. db'.evidence = retired \union {added} /\ db'.block = disk'.block
        BY <1>1, <1>5, <2>1, <2>5 DEF EvidencePending
      <3> QED
        BY <1>1, <1>6, <2>1, <2>6, <3>1, <3>2 DEF EvidencePending, priors
    <2> QED
      BY <2>1, <2>7
  <1> QED
    BY <1>8, <1>9, <1>10, <1>11, <1>12, <1>13 DEF Uploading, EvidenceFails

LEMMA NextPending ==
    MaxInFlight = 1 /\ ~IOErrors /\ TypeOK /\ SerialInv /\ [Next]_vars => SerialInv'
  <1> SUFFICES ASSUME MaxInFlight = 1, ~IOErrors, TypeOK, SerialInv, [Next]_vars
               PROVE  SerialInv'
    OBVIOUS
  <1>0. req \in [Workers -> Request]
    BY DEF TypeOK
  <1>1. ASSUME NEW w \in Workers, Commit(w) PROVE SerialInv'
    <2>1. req'[w] = Idle /\ req' = [req EXCEPT ![w] = req'[w]] /\ req[w] # Idle
      BY <1>0, <1>1 DEF Commit
    <2>2. NothingPending'
      BY <1>1 DEF Commit, NothingPending
    <2> QED
      BY <2>1, <2>2, NobodyElse, SerialTurn DEF SerialInv
  <1>2. CASE Crash
    BY <1>0, <1>2 DEF Crash, SerialInv, OneAtATime, NothingPending
  <1>3. CASE UNCHANGED vars
    <2>1. db' = db /\ disk' = disk /\ req' = req
      BY <1>3 DEF vars
    <2>2. OneAtATime' /\ (NothingPending <=> NothingPending')
      BY <2>1 DEF SerialInv, OneAtATime, NothingPending
    <2>3. ASSUME NEW w \in Workers, req[w] # Idle PROVE Pending(req[w])'
      <3>1. Pending(req[w])
        BY <2>3 DEF SerialInv
      <3> QED
        BY <2>1, <3>1 DEF Pending, CreatePending, TransitionPending, DecisionPending,
           EvidencePending, UploadGranted, BlockPending, UnblockPending, Logged
    <2> QED
      BY <2>1, <2>2, <2>3 DEF SerialInv
  <1> QED
    BY <1>1, <1>2, <1>3, NextCases, BeginsPending, UploadBeginsPending, StepsPending, UploadsPending

LEMMA InitPending == Init => SerialInv
  BY DEF Init, SerialInv, OneAtATime, NothingPending

\* A commit publishes one handler of Intake, whole.
LEMMA CommitIsHandler ==
    ASSUME TypeOK, SerialInv, NEW w \in Workers, Commit(w)
    PROVE  Durable!Next
  <1> DEFINE r == req[w]
  <1>0. /\ r # Idle /\ r.pc = "commit" /\ disk' = db /\ Pending(r)
        /\ disk \in Tables
    BY DEF Commit, SerialInv, TypeOK
  <1>1. \/ r \in CreateRequest \/ r \in TransitionRequest \/ r \in DecisionRequest
        \/ r \in EvidenceRequest \/ r \in BlockRequest \/ r \in UnblockRequest
    BY <1>0 DEF TypeOK, Request, PoolRequest
  <1>2. CASE r \in CreateRequest
    <2>1. r.who \in Personas /\ r.intake \in Intakes /\ r.op = "create"
      BY <1>2 DEF CreateRequest
    <2>2. CreatePending(r)
      BY <1>0, <2>1 DEF Pending
    <2>3. Durable!CreateIntake(r.who, r.intake)
      BY <1>0, <2>2 DEF CreatePending, Logged, Durable!CreateIntake, Issued, Durable!Issued,
         Unissued, Durable!Unissued, Stated, Durable!Stated
    <2> QED
      BY <2>1, <2>3 DEF Durable!Next
  <1>3. CASE r \in TransitionRequest
    <2>1. r.who \in Personas /\ r.intake \in Intakes /\ r.to \in Statuses /\ r.op = "transition"
      BY <1>3 DEF TransitionRequest
    <2>2. TransitionPending(r)
      BY <1>0, <2>1 DEF Pending
    <2>3. r.to = "sme-confirmed" => Durable!OpenBlocks(disk.block, r.who) = {}
      BY <1>0, <2>2 DEF TransitionPending, OpenBlocks, Durable!OpenBlocks
    <2>4. \E edge \in Durable!TRANSITIONS :
             edge[1] = disk.intake[r.intake].status /\ edge[2] = r.to /\ Role[r.who] \in edge[3]
      BY <2>2 DEF TransitionPending, TRANSITIONS, Durable!TRANSITIONS, AnyRole, Durable!AnyRole
    <2>5. Durable!Transition(r.who, r.intake, r.to)
      BY <1>0, <2>2, <2>3, <2>4 DEF TransitionPending, Logged, Durable!Transition, Issued,
         Durable!Issued, Unissued, Durable!Unissued, MayReach, Durable!MayReach, AwaitsDecision,
         Durable!AwaitsDecision, Undecided, Durable!Undecided, Stated, Durable!Stated
    <2>6. Statuses = Durable!Statuses
      BY DEF Statuses, Durable!Statuses
    <2> QED
      BY <2>1, <2>5, <2>6 DEF Durable!Next
  <1>4. CASE r \in DecisionRequest
    <2>1. /\ r.who \in Personas /\ r.intake \in Intakes /\ r.decision \in Durable!Decisions
          /\ r.op = "decision"
      BY <1>4 DEF DecisionRequest, Decisions, Durable!Decisions
    <2>2. DecisionPending(r)
      BY <1>0, <2>1 DEF Pending
    <2>3. \A row, d : Ruled(row, d) = Durable!Ruled(row, d)
      BY DEF Ruled, Durable!Ruled
    <2>4. disk'.intake = [disk.intake EXCEPT
                             ![r.intake] = Durable!Ruled(disk.intake[r.intake], r.decision)]
      BY <1>0, <2>2, <2>3 DEF DecisionPending
    <2>5. disk'.audit = IF r.decision = "no-new-value"
                           THEN [disk.audit EXCEPT ![r.intake] = Durable!Stated(r.who, r.decision)]
                           ELSE disk.audit
      BY <1>0, <2>2 DEF DecisionPending, Logged, Stated, Durable!Stated
    <2>6. Durable!ThreadDecision(r.who, r.intake, r.decision)
      BY <1>0, <2>2, <2>4, <2>5 DEF DecisionPending, Durable!ThreadDecision, Issued,
         Durable!Issued, Unissued, Durable!Unissued, MayReach, Durable!MayReach, Undecided,
         Durable!Undecided
    <2> QED
      BY <2>1, <2>6 DEF Durable!Next
  <1>5. CASE r \in EvidenceRequest
    <2>1. /\ r.who \in Personas /\ r.intake \in Intakes /\ r.name \in Names
          /\ r.content \in Contents /\ r.op = "evidence" /\ r.requeue \in BOOLEAN
      BY <1>5 DEF EvidenceRequest
    <2>2. EvidencePending(r) /\ UploadGranted(r)
      BY <1>0, <2>1 DEF Pending, EvidencePending
    <2> DEFINE old     == Durable!LiveRows(disk.evidence, r.intake, r.name)
               requeue == old # {} /\ disk.intake[r.intake].status \in Durable!RequeueFrom
               priors  == Durable!PriorIntakes(disk.evidence, r.intake, r.content)
               added   == [intake |-> r.intake, name |-> r.name, content |-> r.content,
                           live |-> TRUE]
    <2>3. r.old = old
      BY <2>2 DEF UploadGranted, LiveRows, Durable!LiveRows
    <2>4. r.requeue = requeue
      BY <2>1, <2>2, <2>3 DEF UploadGranted, RequeueFrom, Durable!RequeueFrom
    <2>5. PriorIntakes(disk.evidence, r.intake, r.content) = priors
      BY DEF PriorIntakes, Durable!PriorIntakes
    <2>6. /\ Durable!Issued(disk.intake[r.intake])
          /\ Durable!MayReach(r.who, disk.intake[r.intake])
          /\ disk.intake[r.intake].status \notin Durable!UploadClosed
          /\ \A q \in r.old : q.content # r.content
      BY <2>2 DEF UploadGranted, Issued, Durable!Issued, Unissued, Durable!Unissued, MayReach,
         Durable!MayReach, UploadClosed, Durable!UploadClosed
    <2>7. disk'.evidence = (disk.evidence \ old) \union Durable!Superseded(old) \union {added}
      BY <1>0, <2>2, <2>3 DEF EvidencePending, Superseded, Durable!Superseded
    <2>8. disk'.intake = [disk.intake EXCEPT
                             ![r.intake] = Durable!Uploaded(disk.intake[r.intake], requeue, priors)]
      <3>1. \A row, q, s : Uploaded(row, q, s) = Durable!Uploaded(row, q, s)
        BY DEF Uploaded, Durable!Uploaded
      <3>2. disk'.intake = [disk.intake EXCEPT
               ![r.intake] = Uploaded(disk.intake[r.intake], r.requeue,
                                      PriorIntakes(disk.evidence, r.intake, r.content))]
        BY <1>0, <2>2 DEF EvidencePending
      <3> HIDE DEF requeue, priors
      <3> QED
        BY <2>4, <2>5, <3>1, <3>2
    <2>9. disk'.audit = IF requeue
                           THEN [disk.audit EXCEPT ![r.intake] = Durable!Stated(r.who, "draft")]
                           ELSE disk.audit
      <3> HIDE DEF requeue
      <3> QED
        BY <1>0, <2>2, <2>4 DEF EvidencePending, Logged, Stated, Durable!Stated
    <2>10. disk'.block = disk.block
      BY <1>0, <2>2 DEF EvidencePending
    <2>11. Durable!AddEvidence(r.who, r.intake, r.name, r.content)
      BY <2>3, <2>6, <2>7, <2>8, <2>9, <2>10 DEF Durable!AddEvidence
    <2> QED
      BY <2>1, <2>11 DEF Durable!Next
  <1>6. CASE r \in BlockRequest
    <2>1. r.target \in Personas /\ r.id \in BlockIds /\ r.op = "block"
      BY <1>6 DEF BlockRequest
    <2>2. BlockPending(r)
      BY <1>0, <2>1 DEF Pending
    <2>3. PICK p \in Personas : Role[p] = "admin"
      BY <2>2 DEF BlockPending
    <2>4. Durable!BlockPersona(p, r.target, r.id)
      BY <1>0, <2>2, <2>3 DEF BlockPending, Durable!BlockPersona, OpenBlocks, Durable!OpenBlocks,
         BlankBlock
    <2> QED
      BY <2>1, <2>4 DEF Durable!Next
  <1>7. CASE r \in UnblockRequest
    <2>1. r.op = "unblock"
      BY <1>7 DEF UnblockRequest
    <2>2. UnblockPending(r)
      BY <1>0, <2>1 DEF Pending
    <2>3. PICK p \in Personas, target \in Personas :
             Role[p] = "admin" /\ r.id \in OpenBlocks(disk.block, target)
      BY <2>2 DEF UnblockPending
    <2>4. Durable!UnblockPersona(p, target)
      BY <1>0, <2>2, <2>3 DEF UnblockPending, Durable!UnblockPersona, OpenBlocks,
         Durable!OpenBlocks
    <2> QED
      BY <2>4 DEF Durable!Next
  <1> QED
    BY <1>1, <1>2, <1>3, <1>4, <1>5, <1>6, <1>7

LEMMA NextRefines ==
    TypeOK /\ SerialInv /\ [Next]_vars => [Durable!Next]_(Durable!vars)
  <1> SUFFICES ASSUME TypeOK, SerialInv, [Next]_vars
               PROVE  Durable!Next \/ disk' = disk
    BY DEF Durable!vars
  <1>1. CASE Uploading
    BY <1>1, UploadsRunAhead
  <1>2. CASE Crash \/ UNCHANGED vars
    BY <1>2 DEF Crash, vars
  <1> QED
    BY <1>1, <1>2, NextCases, PoolBeginsOne, LoopBeginsOne, EvidenceWriters, CommitIsHandler
       DEF TypeOK

LEMMA InitRefines == Init => Durable!Init
  BY DEF Init, Blank, Durable!Init, BlankIntake, Durable!BlankIntake, BlankBlock,
     Durable!BlankBlock, BlankAudit, Durable!BlankAudit, Unissued, Durable!Unissued, Undecided,
     Durable!Undecided

\* Served one at a time, with files that can be read and written, the statements
\* between two commits are one handler of Intake, and a crash loses all of it or nothing.
THEOREM SerialRefinement ==
    ASSUME MaxInFlight = 1, IOErrors = FALSE
    PROVE  Spec => CommitsAreHandlers
  <1>1. TypeOK /\ SerialInv /\ [Next]_vars => SerialInv'
    BY NextPending
  <1> QED
    BY <1>1, InitPending, InitRefines, NextRefines, ThreadsTypeCorrect, PTL
       DEF Spec, CommitsAreHandlers, Durable!Spec
=============================================================================
