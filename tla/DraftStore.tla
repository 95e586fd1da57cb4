----------------------------- MODULE DraftStore -----------------------------
(***************************************************************************)
(* The draft buffer as it runs: requests on the API's threadpool, each of  *)
(* them a chain of accessor calls, each call a check that var/mapping.db   *)
(* matches the committed sources, a rebuild of the file if it does not,    *)
(* and a query on a connection of its own.                                 *)
(*                                                                         *)
(* Nothing that a builder writes can be seen before its commit, so it is   *)
(* kept with the builder (carried, tables); what others see of the new     *)
(* file until then are its empty tables.  A file that is unlinked lives on *)
(* for those who hold it open and no longer matters to anyone else.        *)
(***************************************************************************)
EXTENDS DraftRules

CONSTANTS
    Requests,       \* requests in service at once
    MaxInFlight,    \* bound: how many of them
    EditsMidRequest \* whether sources change while a request is served

VARIABLES
    disk,       \* what var/mapping.db holds
    sources,    \* the committed files
    diffs,      \* the diffs promotion has handed out
    landed,     \* those of them that were committed
    told,       \* told[d]: the keys receipts have confirmed in draft d
    req         \* the requests in service

vars == <<disk, sources, diffs, landed, told, req>>

----------------------------------------------------------------------------
(* The file, and the requests. *)

\* "none": no file; "hollow": a file without tables; "bare": tables, nothing
\* committed in them; "built": stamped with the sources it was built from.
File == [kind: {"none", "hollow", "bare", "built"}, meta: Sources,
         tables: SUBSET Keys, draft: [DraftIds -> Seq(Row)]]

Unbuilt(kind) == [kind |-> kind, meta |-> NoRows, tables |-> {}, draft |-> NoDrafts]

HasTables == disk.kind \in {"bare", "built"}

\* The accessor calls of each route, in order.
Calls(op) == CASE op = "draft"   -> <<"existing", "add", "pending">>
               [] op = "promote" -> <<"domain", "payloads", "mark">>
               [] op = "list"    -> <<"read">>

Writing == {"add", "mark"}

Idle == [calls |-> <<>>, pc |-> "idle", draft |-> <<>>, key |-> <<>>, open |-> "no",
         carried |-> NoDrafts, tables |-> {}, start |-> 0, domain |-> <<>>, rows |-> {}]

Busy == {r \in Requests : req[r].pc # "idle"}

At(r, pc) == req[r].pc = pc

Call(r) == Head(req[r].calls)

\* r goes on with its next accessor call, or answers.
NextCall(q) == IF Len(q.calls) = 1 THEN Idle
               ELSE [q EXCEPT !.calls = Tail(@), !.pc = "check", !.open = "no",
                              !.carried = NoDrafts, !.tables = {}, !.start = 0]

Proceeds(r, q) == req' = [req EXCEPT ![r] = q]
Fails(r)       == Proceeds(r, Idle)

\* What every step but the external ones leaves alone.
Outside == <<sources, diffs, landed>>

Init ==
    /\ disk = Unbuilt("none")
    /\ sources = NoRows
    /\ diffs = {}
    /\ landed = {}
    /\ told = [d \in DraftIds |-> {}]
    /\ req = [r \in Requests |-> Idle]

----------------------------------------------------------------------------
(* A request arrives. *)

Arrives(r, op, d, k) ==
    /\ At(r, "idle")
    /\ Cardinality(Busy) < MaxInFlight
    /\ Proceeds(r, [Idle EXCEPT !.calls = Calls(op), !.pc = "check", !.draft = d, !.key = k])
    /\ UNCHANGED <<disk, told, Outside>>

\* A uuid nobody has been given yet.
NewId(d) == /\ disk.draft[d] = <<>> /\ told[d] = {}
            /\ \A r \in Busy : req[r].draft # d /\ req[r].carried[d] = <<>>

BeginDraft(r, d, k) ==
    /\ Len(disk.draft[d]) < MaxRows
    /\ DomainOf[k] = AppCode => NewId(d)
    /\ Arrives(r, "draft", d, k)

BeginPromote(r, d) == Arrives(r, "promote", d, <<>>)

BeginList(r) == Arrives(r, "list", <<>>, <<>>)

----------------------------------------------------------------------------
(* _connect: the check, and build(). *)

\* is_current: the file's stamp is that of the sources, or the file is rebuilt.
Check(r) ==
    /\ At(r, "check")
    /\ Proceeds(r, [req[r] EXCEPT
            !.pc = IF disk.kind = "built" /\ disk.meta = sources THEN "query" ELSE "carry"])
    /\ UNCHANGED <<disk, told, Outside>>

\* Mutant: only the rows not yet promoted are carried over.
CarryOpen(r) ==
    /\ At(r, "carry")
    /\ Proceeds(r, [req[r] EXCEPT
            !.pc = IF disk.kind = "none" THEN "create" ELSE "unlink",
            !.carried = [d \in DraftIds |-> SelectSeq(disk.draft[d],
                                                LAMBDA row : row.status = "open")]])
    /\ UNCHANGED <<disk, told, Outside>>

\* _drafts_to_carry_over: the committed rows of the file about to be replaced.
Carry(r) ==
    /\ At(r, "carry")
    /\ Proceeds(r, [req[r] EXCEPT
            !.pc = IF disk.kind = "none" THEN "create" ELSE "unlink",
            !.carried = disk.draft])
    /\ UNCHANGED <<disk, told, Outside>>

\* unlink() raises when someone else was faster.  Whoever holds the file open
\* keeps it.
Unlink(r) ==
    /\ At(r, "unlink")
    /\ IF disk.kind = "none"
       THEN Fails(r)
       ELSE req' = [q \in Requests |->
                       IF q = r THEN [req[q] EXCEPT !.pc = "create"]
                       ELSE IF req[q].open = "linked" THEN [req[q] EXCEPT !.open = "orphan"]
                       ELSE req[q]]
    /\ disk' = Unbuilt("none")
    /\ UNCHANGED <<told, Outside>>

\* connect() makes the file and the DDL its tables, unless they are there.  The
\* write transaction that the first INSERT opens is taken to begin here.
Create(r) ==
    /\ At(r, "create")
    /\ IF HasTables
       THEN Fails(r) /\ UNCHANGED disk
       ELSE /\ Proceeds(r, [req[r] EXCEPT !.pc = "ingest", !.open = "linked"])
            /\ disk' = Unbuilt("bare")
    /\ UNCHANGED <<told, Outside>>

\* Mutant: the defined mappings are not ingested.
IngestTooLittle(r) ==
    /\ At(r, "ingest")
    /\ IF Materializes(sources) THEN Proceeds(r, [req[r] EXCEPT !.pc = "publish"]) ELSE Fails(r)
    /\ UNCHANGED <<disk, told, Outside>>

\* The _ingest calls: a row they refuse ends the request and rolls back.
Ingest(r) ==
    /\ At(r, "ingest")
    /\ IF Materializes(sources)
       THEN Proceeds(r, [req[r] EXCEPT !.pc = "publish", !.tables = Authored(sources)])
       ELSE Fails(r)
    /\ UNCHANGED <<disk, told, Outside>>

\* The sources are hashed, after they were read, and everything is committed.
Publish(r) ==
    /\ At(r, "publish")
    /\ disk' = IF req[r].open = "orphan" THEN disk
               ELSE [kind |-> "built", meta |-> sources,
                     tables |-> req[r].tables, draft |-> req[r].carried]
    /\ Proceeds(r, [req[r] EXCEPT !.pc = "query", !.open = "no",
                                  !.carried = NoDrafts, !.tables = {}])
    /\ UNCHANGED <<told, Outside>>

----------------------------------------------------------------------------
(* The queries. *)

\* A query fails on a file without tables, and with it the request.
Answers(r, q) == Proceeds(r, IF HasTables THEN q ELSE Idle)

\* The duplicate check of draft_app_code_mapping, over the table of committed rows.
Existing(r) ==
    /\ At(r, "query") /\ Call(r) = "existing"
    /\ Answers(r, IF DomainOf[req[r].key] = AppCode /\ req[r].key \in disk.tables
                  THEN Idle ELSE NextCall(req[r]))
    /\ UNCHANGED <<disk, told, Outside>>

\* A writable connection makes an empty file where there is none.  add_draft looks
\* for the highest seq; set_draft_status has nothing to read.
OpenToWrite(r) ==
    /\ At(r, "query") /\ Call(r) \in Writing
    /\ Answers(r, [req[r] EXCEPT
            !.pc = "write", !.open = "linked",
            !.start = IF Call(r) = "add" THEN Len(disk.draft[req[r].draft]) ELSE 0])
    /\ disk' = IF disk.kind = "none" THEN Unbuilt("hollow") ELSE disk
    /\ UNCHANGED <<told, Outside>>

\* Two writers of one file take turns, and a builder holds it to its commit.
MayWrite(r) ==
    req[r].open = "linked" =>
        \A q \in Requests \ {r} : ~(req[q].open = "linked" /\ req[q].pc \in {"ingest", "publish"})

\* add_draft: the row goes in under the next seq, if that is still free.
Add(r) ==
    LET d == req[r].draft
    IN  /\ At(r, "write") /\ Call(r) = "add" /\ MayWrite(r)
        /\ IF req[r].open = "linked" /\ Len(disk.draft[d]) # req[r].start
           THEN Fails(r) /\ UNCHANGED disk
           ELSE /\ Proceeds(r, NextCall(req[r]))
                /\ disk' = IF req[r].open = "orphan" THEN disk
                           ELSE [disk EXCEPT !.draft[d] = Opened(@, req[r].key)]
        /\ UNCHANGED <<told, Outside>>

\* The receipt counts what is pending and answers.
Receipt(r) ==
    /\ At(r, "query") /\ Call(r) = "pending"
    /\ told' = IF HasTables THEN [told EXCEPT ![req[r].draft] = @ \union {req[r].key}] ELSE told
    /\ Answers(r, NextCall(req[r]))
    /\ UNCHANGED <<disk, Outside>>

\* draft_domain: the domain of the first row, or no such draft.
DraftDomain(r) ==
    LET rows == disk.draft[req[r].draft]
    IN  /\ At(r, "query") /\ Call(r) = "domain"
        /\ Answers(r, IF rows = <<>> THEN Idle
                      ELSE [NextCall(req[r]) EXCEPT !.domain = DomainOf[rows[1].key]])
        /\ UNCHANGED <<disk, told, Outside>>

\* draft_payloads: the open rows, of which there must be some.
Payloads(r) ==
    LET rows == OpenRows(disk.draft[req[r].draft])
    IN  /\ At(r, "query") /\ Call(r) = "payloads"
        /\ Answers(r, IF rows = {} THEN Idle ELSE [NextCall(req[r]) EXCEPT !.rows = rows])
        /\ UNCHANGED <<disk, told, Outside>>

\* set_draft_status, and the diff is handed out.
Mark(r) ==
    LET d == req[r].draft
    IN  /\ At(r, "write") /\ Call(r) = "mark" /\ MayWrite(r)
        /\ disk' = IF req[r].open = "orphan" THEN disk
                   ELSE [disk EXCEPT !.draft[d] = Promoted(@)]
        /\ diffs' = diffs \union {[draft |-> d, domain |-> req[r].domain, rows |-> req[r].rows]}
        /\ Proceeds(r, NextCall(req[r]))
        /\ UNCHANGED <<told, sources, landed>>

\* open_drafts.
List(r) ==
    /\ At(r, "query") /\ Call(r) = "read"
    /\ Answers(r, NextCall(req[r]))
    /\ UNCHANGED <<disk, told, Outside>>

----------------------------------------------------------------------------
(* The checkout under the server. *)

Apply(diff) ==
    /\ EditsMidRequest \/ Busy = {}
    /\ diff \in diffs \ landed
    /\ Reviewed => Materializes(Appended(sources, diff))
    /\ sources' = Appended(sources, diff)
    /\ landed' = landed \union {diff}
    /\ UNCHANGED <<disk, diffs, told, req>>

Edit ==
    /\ EditsMidRequest \/ Busy = {}
    /\ sources.edition < MaxEdits
    /\ sources' = [sources EXCEPT !.edition = @ + 1]
    /\ UNCHANGED <<disk, diffs, landed, told, req>>

----------------------------------------------------------------------------

Step(r) ==
    \/ Check(r)    \/ Carry(r)  \/ Unlink(r) \/ Create(r) \/ Ingest(r) \/ Publish(r)
    \/ Existing(r) \/ OpenToWrite(r) \/ Add(r) \/ Receipt(r)
    \/ DraftDomain(r) \/ Payloads(r) \/ Mark(r)
    \/ List(r)

Next ==
    \/ \E r \in Requests, d \in DraftIds, k \in Keys : BeginDraft(r, d, k)
    \/ \E r \in Requests, d \in DraftIds : BeginPromote(r, d)
    \/ \E r \in Requests : BeginList(r)
    \/ \E r \in Requests : Step(r)
    \/ \E diff \in diffs : Apply(diff)
    \/ Edit

Spec == Init /\ [][Next]_vars

----------------------------------------------------------------------------
(* Properties. *)

Request ==
    [calls: Seq({"existing", "add", "pending", "domain", "payloads", "mark", "read"}),
     pc: {"idle", "check", "carry", "unlink", "create", "ingest", "publish", "query", "write"},
     draft: DraftIds \union {<<>>}, key: Keys \union {<<>>}, open: {"no", "linked", "orphan"},
     carried: [DraftIds -> Seq(Row)], tables: SUBSET Keys, start: Nat,
     domain: Domains \union {<<>>}, rows: SUBSET (Nat \X Keys)]

TypeOK ==
    /\ disk \in File
    /\ sources \in Sources
    /\ diffs \subseteq Diff
    /\ landed \subseteq diffs
    /\ told \in [DraftIds -> SUBSET Keys]
    /\ req \in [Requests -> Request]

\* What the drafts are while one request is served: in the file, or on their way
\* from the old one to the new.
Drafts ==
    LET builders == {r \in Requests : req[r].pc \in {"create", "ingest", "publish"}}
    IN  IF builders = {} THEN disk.draft
        ELSE req[CHOOSE r \in builders : TRUE].carried

Buffer == INSTANCE DraftBuffer WITH draft <- Drafts

\* One request at a time, over files the store accepts: every step of the file's
\* rebuilds and queries is a step of the buffer or none, so a rebuild loses and
\* repeats nothing, and a promoted diff holds what was open.
BehavesAsBuffer == Buffer!Spec

\* Read off the file: a row marked promoted was handed out in exactly one diff, a
\* row still open in none.
PromotedOnce == Buffer!RowsReachOneDiff

\* A file stamped with the present sources holds their rows: the duplicate check
\* of the next draft reads what is committed.
StampIsTrue ==
    disk.kind = "built" /\ disk.meta = sources => disk.tables = Authored(sources)

\* "build() CARRIES THESE ROWS OVER a rebuild ... and must not discard pending
\* work": a row whose receipt was given is in the store, whenever nobody works
\* on the file.
ReceiptsHold ==
    Busy = {} =>
        \A d \in DraftIds : \A k \in told[d] :
            \E n \in DOMAIN disk.draft[d] : disk.draft[d][n].key = k
=============================================================================
