--------------------------- MODULE IntakeThreads ---------------------------
(***************************************************************************)
(* drydocs_api/intake.py as the server runs it.  The routes that change a  *)
(* record are plain functions on the threadpool, the evidence route is a   *)
(* coroutine on the event loop, and all of them share one SQLite           *)
(* connection: a statement is atomic, every thread sees what the others    *)
(* have executed, and one thread's commit commits whatever is pending on   *)
(* the connection.  Nothing in the module rolls back.                      *)
(*                                                                         *)
(* A handler reads its record and passes its checks in one step (a single  *)
(* SELECT and Python on the row it returned) and then writes one statement *)
(* at a time from what it remembers.  INSERTs into the event log that say  *)
(* nothing of the status are part of the statement before them.            *)
(***************************************************************************)
EXTENDS IntakeRules, Naturals, FiniteSets

CONSTANTS
    Pool,        \* threadpool workers
    Loop,        \* the event loop, which alone runs add_evidence
    MaxInFlight, \* requests in service at once (1: a serial server)
    Crashes,     \* may the process be killed and restarted?
    IOErrors     \* may reading or writing an evidence file fail?

Workers == Pool \union {Loop}

ASSUME ThreadsAssumption ==
    /\ Loop \notin Pool
    /\ MaxInFlight \in Nat \ {0}
    /\ Crashes \in BOOLEAN
    /\ IOErrors \in BOOLEAN

VARIABLES
    db,     \* the tables as the connection sees them
    disk,   \* the tables as of the last commit
    files,  \* the bytes under <intake_id>/<filename>
    req     \* req[w]: the request w serves, with what it has read so far

vars == <<db, disk, files, req>>

NoBytes == "none"
Torn    == "torn"   \* what a write that failed half way leaves
Idle    == [op |-> "idle"]

Blank ==
    [intake   |-> [i \in Intakes |-> BlankIntake],
     evidence |-> {},
     block    |-> [b \in BlockIds |-> BlankBlock],
     audit    |-> [i \in Intakes |-> BlankAudit]]

Init ==
    /\ db = Blank
    /\ disk = Blank
    /\ files = [k \in Intakes \X Names |-> NoBytes]
    /\ req = [w \in Workers |-> Idle]

----------------------------------------------------------------------------
(* Steps of a request. *)

InFlight == {w \in Workers : req[w].op # "idle"}

\* A worker that is free takes up request r.
Begin(w, r) ==
    /\ req[w] = Idle
    /\ Cardinality(InFlight) < MaxInFlight
    /\ req' = [req EXCEPT ![w] = r]
    /\ UNCHANGED <<db, disk, files>>

\* w, at the point from of request op, moves on to the point to.
At(w, op, from) == req[w].op = op /\ req[w].pc = from
Goto(w, to)     == req' = [req EXCEPT ![w].pc = to]

\* The status-bearing log row of a handler's UPDATE.
LogStatus(w, op, i, s) ==
    /\ At(w, op, "log")
    /\ db' = [db EXCEPT !.audit[i] = Stated(req[w].who, s)]
    /\ Goto(w, "commit")
    /\ UNCHANGED <<disk, files>>

\* conn.commit(): everything pending on the connection, whoever executed it.
Commit(w) ==
    /\ req[w] # Idle
    /\ req[w].pc = "commit"
    /\ disk' = db
    /\ req' = [req EXCEPT ![w] = Idle]
    /\ UNCHANGED <<db, files>>

----------------------------------------------------------------------------
(* create_intake *)

BeginCreate(w, p, i) ==
    /\ ~Issued(db.intake[i])
    /\ \A v \in InFlight : req[v].op = "create" => req[v].intake # i
    /\ Begin(w, [op |-> "create", pc |-> "insert", who |-> p, intake |-> i])

\* Mutant: the connection commits every statement.
InsertIntakeAutocommit(w) ==
    /\ At(w, "create", "insert")
    /\ db' = [db EXCEPT !.intake[req[w].intake].status = "draft",
                        !.intake[req[w].intake].owner  = req[w].who]
    /\ disk' = db'
    /\ Goto(w, "log")
    /\ UNCHANGED files

InsertIntake(w) ==
    /\ At(w, "create", "insert")
    /\ db' = [db EXCEPT !.intake[req[w].intake].status = "draft",
                        !.intake[req[w].intake].owner  = req[w].who]
    /\ Goto(w, "log")
    /\ UNCHANGED <<disk, files>>

LogCreated(w) == LogStatus(w, "create", req[w].intake, "draft")

----------------------------------------------------------------------------
(* transition *)

\* The record as read is all the checks see; confirming reads the block next.
BeginTransition(w, p, i, to) ==
    LET row == db.intake[i] IN
    /\ Issued(row)
    /\ MayReach(p, row)
    /\ \E edge \in TRANSITIONS :
          edge[1] = row.status /\ edge[2] = to /\ Role[p] \in edge[3]
    /\ ~AwaitsDecision(row)
    /\ Begin(w, [op |-> "transition", who |-> p, intake |-> i, to |-> to,
                 pc |-> IF to = "sme-confirmed" THEN "block" ELSE "update"])

\* An open block refuses the request: it ends having written nothing.
CheckBlock(w) ==
    /\ At(w, "transition", "block")
    /\ IF OpenBlocks(db.block, req[w].who) = {}
          THEN Goto(w, "update")
          ELSE req' = [req EXCEPT ![w] = Idle]
    /\ UNCHANGED <<db, disk, files>>

\* Mutant: the row is written back as the handler read it, not one column.
UpdateWholeRow(w) ==
    /\ At(w, "transition", "update")
    /\ db' = [db EXCEPT !.intake[req[w].intake] =
                 [BlankIntake EXCEPT !.owner = db.intake[req[w].intake].owner,
                                     !.status = req[w].to]]
    /\ Goto(w, "log")
    /\ UNCHANGED <<disk, files>>

\* UPDATE intake SET status: by id alone, whatever the status has become.
UpdateStatus(w) ==
    /\ At(w, "transition", "update")
    /\ db' = [db EXCEPT !.intake[req[w].intake].status = req[w].to]
    /\ Goto(w, "log")
    /\ UNCHANGED <<disk, files>>

LogTransition(w) == LogStatus(w, "transition", req[w].intake, req[w].to)

----------------------------------------------------------------------------
(* thread_decision *)

\* new_status is the status as read unless the ruling is no-new-value.
BeginDecision(w, p, i, d) ==
    LET row == db.intake[i] IN
    /\ Issued(row)
    /\ MayReach(p, row)
    /\ row.flagged
    /\ row.decision = Undecided
    /\ Begin(w, [op |-> "decision", pc |-> "update", who |-> p, intake |-> i,
                 decision |-> d, status |-> Ruled(row, d).status])

\* Mutant: the label of the ruling lands in the status column.
UpdateDecisionByLabel(w) ==
    /\ At(w, "decision", "update")
    /\ db' = [db EXCEPT !.intake[req[w].intake].decision = req[w].decision,
                        !.intake[req[w].intake].status   = req[w].decision]
    /\ Goto(w, IF req[w].decision = "no-new-value" THEN "log" ELSE "commit")
    /\ UNCHANGED <<disk, files>>

UpdateDecision(w) ==
    /\ At(w, "decision", "update")
    /\ db' = [db EXCEPT !.intake[req[w].intake].decision = req[w].decision,
                        !.intake[req[w].intake].status   = req[w].status]
    /\ Goto(w, IF req[w].decision = "no-new-value" THEN "log" ELSE "commit")
    /\ UNCHANGED <<disk, files>>

LogDecision(w) == LogStatus(w, "decision", req[w].intake, "no-new-value")

----------------------------------------------------------------------------
(* add_evidence, on the event loop *)

\* The record and the live row of the name, read together: no other worker
\* writes evidence, so nothing can come between the two SELECTs that matters.
BeginEvidence(p, i, n, c) ==
    LET row == db.intake[i]
        old == LiveRows(db.evidence, i, n)
    IN  /\ Issued(row)
        /\ MayReach(p, row)
        /\ row.status \notin UploadClosed
        /\ \A r \in old : r.content # c
        /\ Begin(Loop, [op |-> "evidence", pc |-> "file", who |-> p, intake |-> i, name |-> n,
                        content |-> c, old |-> old,
                        requeue |-> old # {} /\ row.status \in RequeueFrom])

\* Mutant: a file that is already there is kept.
WriteFileOnce ==
    /\ At(Loop, "evidence", "file")
    /\ files' = [files EXCEPT ![<<req[Loop].intake, req[Loop].name>>] =
                    IF @ = NoBytes THEN req[Loop].content ELSE @]
    /\ Goto(Loop, IF req[Loop].old = {} THEN "insert" ELSE "supersede")
    /\ UNCHANGED <<db, disk>>

\* dest.write_bytes: the file is replaced before any row says so.
WriteFile ==
    /\ At(Loop, "evidence", "file")
    /\ files' = [files EXCEPT ![<<req[Loop].intake, req[Loop].name>>] = req[Loop].content]
    /\ Goto(Loop, IF req[Loop].old = {} THEN "insert" ELSE "supersede")
    /\ UNCHANGED <<db, disk>>

\* Mutant: the old row is deleted, not marked.
SupersedeByDelete ==
    /\ At(Loop, "evidence", "supersede")
    /\ db' = [db EXCEPT !.evidence = @ \ req[Loop].old]
    /\ Goto(Loop, IF req[Loop].requeue THEN "requeue" ELSE "insert")
    /\ UNCHANGED <<disk, files>>

\* Mutant: the UPDATE matches no row.
SupersedeNothing ==
    /\ At(Loop, "evidence", "supersede")
    /\ Goto(Loop, IF req[Loop].requeue THEN "requeue" ELSE "insert")
    /\ UNCHANGED <<db, disk, files>>

SupersedeOld ==
    /\ At(Loop, "evidence", "supersede")
    /\ db' = [db EXCEPT !.evidence = (@ \ req[Loop].old) \union Superseded(req[Loop].old)]
    /\ Goto(Loop, IF req[Loop].requeue THEN "requeue" ELSE "insert")
    /\ UNCHANGED <<disk, files>>

Requeue ==
    /\ At(Loop, "evidence", "requeue")
    /\ db' = [db EXCEPT !.intake[req[Loop].intake].status = "draft"]
    /\ Goto(Loop, "relog")
    /\ UNCHANGED <<disk, files>>

LogRequeued ==
    /\ At(Loop, "evidence", "relog")
    /\ db' = [db EXCEPT !.audit[req[Loop].intake] = Stated(req[Loop].who, "draft")]
    /\ Goto(Loop, "insert")
    /\ UNCHANGED <<disk, files>>

InsertEvidence ==
    /\ At(Loop, "evidence", "insert")
    /\ db' = [db EXCEPT !.evidence = @ \union
                 {[intake |-> req[Loop].intake, name |-> req[Loop].name,
                   content |-> req[Loop].content, live |-> TRUE]}]
    /\ Goto(Loop, "thread")
    /\ UNCHANGED <<disk, files>>

\* _check_thread: the link columns alone, from the links as they are now.
CheckThread ==
    LET priors == PriorIntakes(db.evidence, req[Loop].intake, req[Loop].content) IN
    /\ At(Loop, "evidence", "thread")
    /\ db' = [db EXCEPT !.intake[req[Loop].intake] = Uploaded(@, FALSE, priors)]
    /\ Goto(Loop, "commit")
    /\ UNCHANGED <<disk, files>>

\* An OSError out of write_bytes, which may have truncated the file, or out of
\* read_bytes on a prior file ends the handler where it stands: what it has
\* executed stays pending.
EvidenceFails ==
    /\ IOErrors
    /\ \/ /\ At(Loop, "evidence", "file")
          /\ files' \in {files, [files EXCEPT ![<<req[Loop].intake, req[Loop].name>>] = Torn]}
       \/ /\ At(Loop, "evidence", "thread")
          /\ UNCHANGED files
    /\ req' = [req EXCEPT ![Loop] = Idle]
    /\ UNCHANGED <<db, disk>>

----------------------------------------------------------------------------
(* block_persona, unblock_persona *)

BeginBlock(w, p, target, b) ==
    /\ Role[p] = "admin"
    /\ OpenBlocks(db.block, target) = {}
    /\ db.block[b] = BlankBlock
    /\ \A v \in InFlight : req[v].op = "block" => req[v].id # b
    /\ Begin(w, [op |-> "block", pc |-> "update", target |-> target, id |-> b])

InsertBlock(w) ==
    /\ At(w, "block", "update")
    /\ db' = [db EXCEPT !.block[req[w].id] = [persona |-> req[w].target, open |-> TRUE]]
    /\ Goto(w, "commit")
    /\ UNCHANGED <<disk, files>>

BeginUnblock(w, p, target) ==
    /\ Role[p] = "admin"
    /\ \E b \in OpenBlocks(db.block, target) :
          Begin(w, [op |-> "unblock", pc |-> "update", id |-> b])

CloseBlock(w) ==
    /\ At(w, "unblock", "update")
    /\ db' = [db EXCEPT !.block[req[w].id].open = FALSE]
    /\ Goto(w, "commit")
    /\ UNCHANGED <<disk, files>>

----------------------------------------------------------------------------

\* The process dies and comes back: the uncommitted tail of the tables is gone,
\* the requests with it; the files stay as they were written.
Crash ==
    /\ Crashes
    /\ db' = disk
    /\ req' = [w \in Workers |-> Idle]
    /\ UNCHANGED <<disk, files>>

Step(w) ==
    \/ InsertIntake(w) \/ LogCreated(w)
    \/ CheckBlock(w) \/ UpdateStatus(w) \/ LogTransition(w)
    \/ UpdateDecision(w) \/ LogDecision(w)
    \/ InsertBlock(w) \/ CloseBlock(w)

Next ==
    \/ \E w \in Pool, p \in Personas, i \in Intakes :
          \/ BeginCreate(w, p, i)
          \/ \E to \in Statuses : BeginTransition(w, p, i, to)
          \/ \E d \in Decisions : BeginDecision(w, p, i, d)
    \/ \E w \in Pool, p, target \in Personas :
          \/ \E b \in BlockIds : BeginBlock(w, p, target, b)
          \/ BeginUnblock(w, p, target)
    \/ \E p \in Personas, i \in Intakes, n \in Names, c \in Contents : BeginEvidence(p, i, n, c)
    \/ WriteFile \/ SupersedeOld \/ Requeue \/ LogRequeued \/ InsertEvidence \/ CheckThread
    \/ EvidenceFails
    \/ \E w \in Pool : Step(w)
    \/ \E w \in Workers : Commit(w)
    \/ Crash

Spec == Init /\ [][Next]_vars

----------------------------------------------------------------------------
(* Properties. *)

CreateRequest ==
    [op: {"create"}, pc: {"insert", "log", "commit"}, who: Personas, intake: Intakes]

TransitionRequest ==
    [op: {"transition"}, pc: {"block", "update", "log", "commit"}, who: Personas,
     intake: Intakes, to: Statuses]

DecisionRequest ==
    [op: {"decision"}, pc: {"update", "log", "commit"}, who: Personas, intake: Intakes,
     decision: Decisions, status: Statuses]

EvidenceRequest ==
    [op: {"evidence"}, who: Personas, intake: Intakes, name: Names, content: Contents,
     pc: {"file", "supersede", "requeue", "relog", "insert", "thread", "commit"},
     old: SUBSET EvidenceRow, requeue: BOOLEAN]

BlockRequest == [op: {"block"}, pc: {"update", "commit"}, target: Personas, id: BlockIds]

UnblockRequest == [op: {"unblock"}, pc: {"update", "commit"}, id: BlockIds]

\* Uploads are served by the event loop, everything else by the pool.
PoolRequest ==
    {Idle} \union CreateRequest \union TransitionRequest \union DecisionRequest
    \union BlockRequest \union UnblockRequest

Request == PoolRequest \union EvidenceRequest

Tables ==
    [intake: [Intakes -> IntakeRow], evidence: SUBSET EvidenceRow,
     block: [BlockIds -> BlockRow], audit: [Intakes -> AuditRow]]

TypeOK ==
    /\ db \in Tables
    /\ disk \in Tables
    /\ files \in [Intakes \X Names -> Contents \union {NoBytes, Torn}]
    /\ req \in [Workers -> Request]
    /\ req[Loop] \in {Idle} \union EvidenceRequest
    /\ \A w \in Pool : req[w] \in PoolRequest

\* Never two live versions of one name, committed or pending, whatever else is
\* in service and wherever the process dies: uploads run on the event loop,
\* one after the other.
NeverTwoLiveRows ==
    \A t \in {db, disk} : \A r, s \in t.evidence :
        r.live /\ s.live /\ r.intake = s.intake /\ r.name = s.name => r = s

\* What was committed of the evidence stays: a row may be superseded and is
\* never deleted nor edited.
EvidenceIsAppendOnly ==
    [][\A r \in disk.evidence :
          \E s \in disk'.evidence : s = r \/ s = [r EXCEPT !.live = FALSE]]_vars

\* A ruling on i has passed its check and is in service.
Ruling(i) == \E w \in Pool : req[w].op = "decision" /\ req[w].intake = i

\* d is the committed ruling on i, and no other one is on its way.
Settled(i, d) == disk.intake[i].decision = d /\ ~Ruling(i)

\* "thread decision already recorded": a committed ruling that is settled stays
\* as it is and no other one is taken up, and a committed flag and its links
\* stay, whichever requests write the same row from what they read before.
\* While two rulings are both past the check neither is settled: the UPDATE goes
\* by id alone, and the later of the two replaces the other, committed or not.
FlagsAndRulingsStand ==
    [][\A i \in Intakes :
          /\ disk.intake[i].flagged => disk'.intake[i].flagged
          /\ disk.intake[i].threadOf \subseteq disk'.intake[i].threadOf
          /\ disk.intake[i].decision # Undecided => disk'.intake[i].decision # Undecided
          /\ \A d \in Decisions : Settled(i, d) => Settled(i, d)']_vars

\* Between uploads the file under a live row's key never holds the bytes of
\* another version, even after an upload that failed half way: it holds the
\* row's own, or the stump a failed write left, as long as the process lives.
LiveRowsMatchFiles ==
    req[Loop] = Idle =>
        \A r \in db.evidence : r.live => files[<<r.intake, r.name>>] \in {r.content, Torn}

\* Serially, every commit is one handler of Intake, and a crash loses the whole
\* of the handler in service or nothing.
Durable == INSTANCE Intake WITH
    intake   <- disk.intake,
    evidence <- disk.evidence,
    block    <- disk.block,
    audit    <- disk.audit

CommitsAreHandlers == Durable!Spec

\* "Keeping ONE connection keeps each handler's multi-statement update a single
\* commit": no committed state holds half of a supersession.
CommitsAreWhole ==
    \A r \in disk.evidence : \E s \in disk.evidence :
        s.intake = r.intake /\ s.name = r.name /\ s.live

\* "...and is refused outright once the record is accepted or closed": an
\* accepted record's committed evidence does not change.
AcceptedEvidenceFrozen ==
    [][\A i \in Intakes :
          disk.intake[i].status = "admin-accepted" /\ disk'.intake[i].status = "admin-accepted" =>
             {r \in disk.evidence : r.intake = i} = {r \in disk'.evidence : r.intake = i}]_vars
=============================================================================
