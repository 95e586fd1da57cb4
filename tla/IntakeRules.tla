----------------------------- MODULE IntakeRules -----------------------------
(***************************************************************************)
(* The vocabulary of drydocs_api/intake.py: the status machine, the rows   *)
(* of its tables, and the checks and row updates its handlers share.       *)
(*                                                                         *)
(* Two versions of a file with the same bytes differ in nothing the        *)
(* handlers look at once both are superseded, so they are one element of   *)
(* the evidence set.  The thread check reads headers out of the row and,   *)
(* failing that, lines out of the prior file; Continues stands for both.   *)
(* The column review_payload, the note, the preview and the registry of    *)
(* context types decide nothing and are left out.                          *)
(***************************************************************************)

CONSTANTS
    Personas,   \* the console identities
    Role,       \* Role[p]: the tier the session of p carries
    Intakes,    \* intake ids uuid4 may issue
    Names,      \* evidence filenames, path components already dropped
    Contents,   \* uploaded bytes, told apart by their sha256
    Continues,  \* <<new, old>>: new carries on the mail thread of old
    BlockIds,   \* primary keys of persona_block
    Nobody      \* no persona

ASSUME RoleAssumption   == Role \in [Personas -> {"user", "steward", "admin"}]
ASSUME NobodyAssumption == Nobody \notin Personas

----------------------------------------------------------------------------
(* The status machine. *)

Statuses == {"draft", "ontology-reviewed", "correlated", "sme-confirmed",
             "admin-accepted", "admin-returned", "loaded", "no-new-value"}

\* The rows no request has created yet.
Unissued == "unissued"

AnyRole == {"user", "steward", "admin"}

\* [from, to, roles allowed to take the edge]
TRANSITIONS ==
    {<<"draft",             "ontology-reviewed", AnyRole>>,
     <<"ontology-reviewed", "correlated",        AnyRole>>,
     <<"ontology-reviewed", "draft",             AnyRole>>,
     <<"correlated",        "sme-confirmed",     AnyRole>>,
     <<"correlated",        "draft",             AnyRole>>,
     <<"sme-confirmed",     "admin-accepted",    {"admin"}>>,
     <<"sme-confirmed",     "admin-returned",    {"admin"}>>,
     <<"admin-returned",    "sme-confirmed",     AnyRole>>,
     <<"admin-returned",    "draft",             AnyRole>>}

\* Mutant: the state past the SME's confirmation is forgotten.
RequeueFromReviewOnly == {"ontology-reviewed", "correlated", "admin-returned"}

RequeueFrom  == {"ontology-reviewed", "correlated", "sme-confirmed", "admin-returned"}
UploadClosed == {"admin-accepted", "loaded", "no-new-value"}

\* What the SME may rule on a flagged thread continuation.
Decisions == {"adds-value", "no-new-value"}
Undecided == "undecided"

----------------------------------------------------------------------------
(* The tables. *)

IntakeRow ==
    [status:   Statuses \union {Unissued},
     owner:    Personas \union {Nobody},
     flagged:  BOOLEAN,
     decision: Decisions \union {Undecided},
     threadOf: SUBSET Intakes]

EvidenceRow == [intake: Intakes, name: Names, content: Contents, live: BOOLEAN]

BlockRow == [persona: Personas \union {Nobody}, open: BOOLEAN]

\* The action labels of the log that say what the status became, and who did it.
AuditRow == [actor: Personas \union {Nobody}, status: Statuses \union {Unissued}]

BlankIntake == [status |-> Unissued, owner |-> Nobody, flagged |-> FALSE,
                decision |-> Undecided, threadOf |-> {}]
BlankBlock  == [persona |-> Nobody, open |-> FALSE]
BlankAudit  == [actor |-> Nobody, status |-> Unissued]

----------------------------------------------------------------------------
(* Helpers. *)

Issued(row) == row.status # Unissued

\* Mutant: the record check is lost and the role test alone decides (API7).
MayReachAnyRecord(p, row) == TRUE

\* A user-tier persona reaches only its own intake.
MayReach(p, row) == Role[p] = "user" => row.owner = p

LiveRows(rows, i, n) == {r \in rows : r.intake = i /\ r.name = n /\ r.live}

Superseded(rows) == {[r EXCEPT !.live = FALSE] : r \in rows}

\* Mutant: the intake's own evidence is matched too.
PriorIntakesOrSelf(rows, i, c) ==
    {r.intake : r \in {q \in rows : q.live /\ <<c, q.content>> \in Continues}}

\* The other intakes whose live evidence the bytes c carry on.
PriorIntakes(rows, i, c) ==
    {r.intake : r \in {q \in rows : q.live /\ q.intake # i /\ <<c, q.content>> \in Continues}}

OpenBlocks(blocks, p) == {b \in BlockIds : blocks[b].persona = p /\ blocks[b].open}

\* The thread decision a flagged draft waits for.
AwaitsDecision(row) == row.flagged /\ row.decision = Undecided /\ row.status = "draft"

\* Mutant: the ruling itself is stored as the status.
RuledByLabel(row, d) == [row EXCEPT !.decision = d, !.status = d]

\* What an upload makes of its record: back to draft when a version under review
\* was superseded, linked to the prior intakes the bytes carry on.
Uploaded(row, requeue, priors) ==
    [row EXCEPT !.status   = IF requeue THEN "draft" ELSE @,
                !.flagged  = @ \/ priors # {},
                !.threadOf = @ \union priors]

\* What the SME's ruling makes of the record: no-new-value closes it.
Ruled(row, d) ==
    [row EXCEPT !.decision = d,
                !.status   = IF d = "no-new-value" THEN d ELSE @]

Stated(p, s) == [actor |-> p, status |-> s]
=============================================================================
