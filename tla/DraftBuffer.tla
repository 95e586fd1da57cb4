---------------------------- MODULE DraftBuffer ----------------------------
(***************************************************************************)
(* What the draft buffer promises: an editor's rows stay in their draft    *)
(* until they are promoted, promotion hands each of them out in one diff,  *)
(* and git is the only thing that changes a committed file.  Requests are  *)
(* single steps and the store file, its rebuilds and its connections do    *)
(* not exist here; DraftStore has them.                                    *)
(***************************************************************************)
EXTENDS DraftRules

VARIABLES
    draft,      \* draft[d]: the rows of d in seq order
    sources,    \* the committed files
    diffs,      \* the diffs promotion has handed out
    landed      \* those of them that were committed

vars == <<draft, sources, diffs, landed>>

Init ==
    /\ draft = NoDrafts
    /\ sources = NoRows
    /\ diffs = {}
    /\ landed = {}

\* draft_override appends to whatever draft the client names;
\* draft_app_code_mapping always opens a new one, and refuses a row whose key is
\* committed already.
Draft(d, k) ==
    /\ Len(draft[d]) < MaxRows
    /\ DomainOf[k] = AppCode => draft[d] = <<>> /\ k \notin Authored(sources)
    /\ draft' = [draft EXCEPT ![d] = Opened(@, k)]
    /\ UNCHANGED <<sources, diffs, landed>>

\* promote_draft: the open rows become a diff against the file of the first
\* row's domain.
Promote(d) ==
    /\ OpenRows(draft[d]) # {}
    /\ diffs' = diffs \union {[draft  |-> d,
                               domain |-> DomainOf[draft[d][1].key],
                               rows   |-> OpenRows(draft[d])]}
    /\ draft' = [draft EXCEPT ![d] = Promoted(@)]
    /\ UNCHANGED <<sources, landed>>

\* Someone applies a diff on a branch and merges it.
Apply(diff) ==
    /\ diff \in diffs \ landed
    /\ Reviewed => Materializes(Appended(sources, diff))
    /\ sources' = Appended(sources, diff)
    /\ landed' = landed \union {diff}
    /\ UNCHANGED <<draft, diffs>>

\* Someone edits another source of the store.
Edit ==
    /\ sources.edition < MaxEdits
    /\ sources' = [sources EXCEPT !.edition = @ + 1]
    /\ UNCHANGED <<draft, diffs, landed>>

Next ==
    \/ \E d \in DraftIds, k \in Keys : Draft(d, k)
    \/ \E d \in DraftIds : Promote(d)
    \/ \E diff \in diffs : Apply(diff)
    \/ Edit

Spec == Init /\ [][Next]_vars

----------------------------------------------------------------------------
(* Properties. *)

TypeOK ==
    /\ draft \in [DraftIds -> Seq(Row)]
    /\ sources \in Sources
    /\ diffs \subseteq Diff
    /\ landed \subseteq diffs

\* Promotion proposes each row once: a promoted row stands in exactly one diff,
\* under the key it was drafted with, and an open row in none (promote_draft).
RowsReachOneDiff ==
    \A d \in DraftIds : \A n \in DOMAIN draft[d] :
        LET holding == {x \in diffs : x.draft = d /\ <<n, draft[d][n].key>> \in x.rows}
        IN  /\ draft[d][n].status = "promoted" => \E x \in diffs : holding = {x}
            /\ draft[d][n].status = "open" => holding = {}
=============================================================================
