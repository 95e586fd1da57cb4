----------------------------- MODULE DraftRules -----------------------------
(***************************************************************************)
(* The vocabulary of the mapping draft buffer: drydocs_api/mappings.py and *)
(* the draft table of drydocs_core/mapping_store.py.                       *)
(*                                                                         *)
(* A row is told apart by its key: the (app_code, folder_id, origin) of a  *)
(* defined mapping, or the whole of an override.  A request carries one    *)
(* row.  A row's seq is its place in the sequence of its draft, and no     *)
(* route ever discards one.                                                *)
(***************************************************************************)
EXTENDS Integers, Sequences, FiniteSets

CONSTANTS
    DraftIds,   \* draft ids, given out by uuid4 or sent by the client
    Keys,       \* rows an editor may draft
    DomainOf,   \* DomainOf[k]: the domain whose route takes k
    MaxRows,    \* bound: rows of one draft
    MaxEdits,   \* bound: edits of the other sources
    Reviewed    \* whether nobody commits a file the store would refuse

Override == "seal-contact-override"
AppCode  == "app-code-mapping"
Domains  == {Override, AppCode}

ASSUME DomainAssumption == DomainOf \in [Keys -> Domains]
ASSUME BoundAssumption  == MaxRows \in Nat /\ MaxEdits \in Nat
ASSUME ReviewAssumption == Reviewed \in BOOLEAN

\* The draft table, and a diff promotion has handed out.
Row  == [key: Keys, status: {"open", "promoted"}]
Diff == [draft: DraftIds, domain: Domains, rows: SUBSET (Nat \X Keys)]

NoDrafts == [d \in DraftIds |-> <<>>]

\* The committed sources: how often each file holds each row, and how often any
\* other source the store is built from was edited.
Sources == [rows: [Domains -> [Keys -> Nat]], edition: Nat]
NoRows  == [rows |-> [m \in Domains |-> [k \in Keys |-> 0]], edition |-> 0]

\* build() refuses a row of the other domain's shape, and a defined mapping
\* authored twice; overrides may repeat.
Materializes(s) ==
    \A m \in Domains, k \in Keys :
        /\ s.rows[m][k] > 0 => DomainOf[k] = m
        /\ m = AppCode => s.rows[m][k] <= 1

Authored(s) == {k \in Keys : s.rows[AppCode][k] > 0}

\* Mutant: every row of the draft is proposed again.
EveryRow(rows) == {<<n, rows[n].key>> : n \in DOMAIN rows}

OpenRows(rows) == {<<n, rows[n].key>> : n \in {i \in DOMAIN rows : rows[i].status = "open"}}

Opened(rows, k) == Append(rows, [key |-> k, status |-> "open"])

\* Mutant: a status the table's CHECK does not know.
Landed(rows) == [n \in DOMAIN rows |-> [rows[n] EXCEPT !.status = "landed"]]

\* set_draft_status moves the whole draft.
Promoted(rows) == [n \in DOMAIN rows |-> [rows[n] EXCEPT !.status = "promoted"]]

\* _append_rows: the committed file carried through, the drafted rows after it.
Appended(s, diff) ==
    [s EXCEPT !.rows[diff.domain] =
        [k \in Keys |-> @[k] + Cardinality({x \in diff.rows : x[2] = k})]]
=============================================================================
