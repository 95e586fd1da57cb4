---------------------------- MODULE DraftProofs ----------------------------
(***************************************************************************)
(* Proofs about DraftBuffer, for any ids, rows and bounds.                 *)
(***************************************************************************)
EXTENDS DraftBuffer, FiniteSetTheorems, TLAPS

----------------------------------------------------------------------------
(* The row operators. *)

\* The rows of a draft, by seq.
LEMMA RowsOfDraft ==
    ASSUME NEW rows \in Seq(Row)
    PROVE  /\ DOMAIN rows = 1..Len(rows) /\ Len(rows) \in Nat
           /\ \A n \in DOMAIN rows : /\ n \in Nat /\ rows[n] \in Row
                                     /\ rows[n].key \in Keys
                                     /\ rows[n].status \in {"open", "promoted"}
<1>1. \A n \in DOMAIN rows : n \in Nat /\ rows[n] \in Row
  OBVIOUS
<1>2. \A row \in Row : row.key \in Keys /\ row.status \in {"open", "promoted"}
  BY DEF Row
<1> QED
  BY <1>1, <1>2

\* Opened adds one open row behind the others.
LEMMA OpenedRows ==
    ASSUME NEW rows \in Seq(Row), NEW k \in Keys
    PROVE  /\ Opened(rows, k) \in Seq(Row)
           /\ DOMAIN Opened(rows, k) = DOMAIN rows \union {Len(rows) + 1}
           /\ Len(rows) + 1 \notin DOMAIN rows
           /\ \A n \in DOMAIN rows : Opened(rows, k)[n] = rows[n]
           /\ Opened(rows, k)[Len(rows) + 1] = [key |-> k, status |-> "open"]
<1>1. [key |-> k, status |-> "open"] \in Row
  BY DEF Row
<1> QED
  BY <1>1 DEF Opened

\* Promoted keeps the rows and their keys and marks every one of them.
LEMMA PromotedRows ==
    ASSUME NEW rows \in Seq(Row)
    PROVE  /\ Promoted(rows) \in Seq(Row)
           /\ DOMAIN Promoted(rows) = DOMAIN rows
           /\ \A n \in DOMAIN rows : /\ Promoted(rows)[n].key = rows[n].key
                                     /\ Promoted(rows)[n].status = "promoted"
<1> DEFINE mark(n) == [rows[n] EXCEPT !.status = "promoted"]
<1>1. \A n \in DOMAIN rows : rows[n] \in Row
  BY RowsOfDraft
<1>2. ASSUME NEW row \in Row
      PROVE  LET marked == [row EXCEPT !.status = "promoted"]
             IN  marked \in Row /\ marked.key = row.key /\ marked.status = "promoted"
  BY DEF Row
<1>3. \A n \in DOMAIN rows :
         mark(n) \in Row /\ mark(n).key = rows[n].key /\ mark(n).status = "promoted"
  BY <1>1, <1>2
<1> HIDE DEF mark
<1>4. Promoted(rows) = [n \in DOMAIN rows |-> mark(n)]
  BY DEF Promoted, mark
<1>5. DOMAIN rows = 1..Len(rows) /\ Len(rows) \in Nat
  OBVIOUS
<1>6. Promoted(rows) \in Seq(Row)
  BY <1>3, <1>4, <1>5
<1> QED
  BY <1>3, <1>4, <1>6

\* The open rows of a draft are finitely many, each at its seq under its key.
LEMMA OpenRowsOfDraft ==
    ASSUME NEW rows \in Seq(Row)
    PROVE  /\ OpenRows(rows) \subseteq Nat \X Keys
           /\ IsFiniteSet(OpenRows(rows))
           /\ \A x \in OpenRows(rows) : /\ x[1] \in DOMAIN rows
                                        /\ x[2] = rows[x[1]].key
                                        /\ rows[x[1]].status = "open"
           /\ \A n \in DOMAIN rows :
                 rows[n].status = "open" => <<n, rows[n].key>> \in OpenRows(rows)
<1> DEFINE Seqs == {n \in DOMAIN rows : rows[n].status = "open"}
<1>1. IsFiniteSet(Seqs)
  <2>1. DOMAIN rows = 1..Len(rows) /\ Len(rows) \in Nat
    OBVIOUS
  <2>2. IsFiniteSet(1..Len(rows))
    BY <2>1, FS_Interval
  <2> QED
    BY <2>1, <2>2, FS_Subset
<1> DEFINE at(n) == <<n, rows[n].key>>
<1>2. OpenRows(rows) = {at(n) : n \in Seqs}
  BY DEF OpenRows
<1>3. IsFiniteSet(OpenRows(rows))
  <2> DEFINE f == [n \in Seqs |-> at(n)]
  <2> HIDE DEF Seqs, at
  <2>1. f \in Surjection(Seqs, OpenRows(rows))
    BY <1>2 DEF Surjection
  <2> QED
    BY <1>1, <2>1, FS_Surjection
<1>4. \A n \in DOMAIN rows : n \in Nat /\ rows[n].key \in Keys
  BY RowsOfDraft
<1> HIDE DEF Seqs
<1>5. \A n \in Seqs : n \in DOMAIN rows /\ rows[n].status = "open"
  BY DEF Seqs
<1>6. \A n \in DOMAIN rows : rows[n].status = "open" => n \in Seqs
  BY DEF Seqs
<1> QED
  BY <1>2, <1>3, <1>4, <1>5, <1>6

\* Committing a diff leaves a well-formed file.
LEMMA AppendedSources ==
    ASSUME NEW s \in Sources, NEW diff \in Diff, IsFiniteSet(diff.rows)
    PROVE  Appended(s, diff) \in Sources
<1> DEFINE count(k) == Cardinality({x \in diff.rows : x[2] = k})
<1>1. \A k \in Keys : count(k) \in Nat
  <2> TAKE k \in Keys
  <2>1. IsFiniteSet({x \in diff.rows : x[2] = k})
    BY FS_Subset
  <2> QED
    BY <2>1, FS_CardinalityType
<1> HIDE DEF count
<1> DEFINE file == [k \in Keys |-> s.rows[diff.domain][k] + count(k)]
<1>2. diff.domain \in Domains
  BY DEF Diff
<1>3. s.rows \in [Domains -> [Keys -> Nat]] /\ s.edition \in Nat
  BY DEF Sources
<1>4. file \in [Keys -> Nat]
  BY <1>1, <1>2, <1>3
<1>5. Appended(s, diff) = [s EXCEPT !.rows = [s.rows EXCEPT ![diff.domain] = file]]
  BY <1>2, <1>3 DEF Appended, count, Sources
<1> HIDE DEF file
<1>6. [s.rows EXCEPT ![diff.domain] = file] \in [Domains -> [Keys -> Nat]]
  BY <1>2, <1>3, <1>4
<1> QED
  BY <1>5, <1>6 DEF Sources

----------------------------------------------------------------------------
(* Types. *)

\* A diff holds finitely many rows, so the committed counts stay numbers.
FiniteDiffs == \A x \in diffs : IsFiniteSet(x.rows)

Typed == TypeOK /\ FiniteDiffs

LEMMA InitTyped == Init => Typed
<1> SUFFICES ASSUME Init PROVE Typed
  OBVIOUS
<1>1. draft \in [DraftIds -> Seq(Row)]
  BY DEF Init, NoDrafts
<1>2. sources \in Sources
  BY DEF Init, NoRows, Sources
<1> QED
  BY <1>1, <1>2 DEF Init, Typed, TypeOK, FiniteDiffs

\* The diff a promotion hands out.
LEMMA PromotedDiff ==
    ASSUME NEW rows \in Seq(Row), NEW d \in DraftIds, OpenRows(rows) # {}
    PROVE  /\ DOMAIN rows # {}
           /\ [draft |-> d, domain |-> DomainOf[rows[1].key], rows |-> OpenRows(rows)] \in Diff
<1>1. PICK x \in OpenRows(rows) : x[1] \in DOMAIN rows
  BY OpenRowsOfDraft
<1>2. 1 \in DOMAIN rows
  BY <1>1
<1>3. DomainOf[rows[1].key] \in Domains
  BY <1>2, RowsOfDraft, DomainAssumption
<1>4. OpenRows(rows) \subseteq Nat \X Keys
  BY OpenRowsOfDraft
<1> QED
  BY <1>1, <1>3, <1>4 DEF Diff

LEMMA NextTyped == Typed /\ [Next]_vars => Typed'
<1> SUFFICES ASSUME Typed, [Next]_vars PROVE Typed'
  OBVIOUS
<1>0. /\ draft \in [DraftIds -> Seq(Row)] /\ sources \in Sources
      /\ diffs \subseteq Diff /\ landed \subseteq diffs /\ FiniteDiffs
  BY DEF Typed, TypeOK
<1>1. ASSUME NEW d \in DraftIds, NEW k \in Keys, Draft(d, k) PROVE Typed'
  <2>1. Opened(draft[d], k) \in Seq(Row)
    BY <1>0, OpenedRows
  <2>2. draft' \in [DraftIds -> Seq(Row)]
    BY <1>0, <1>1, <2>1 DEF Draft
  <2> QED
    BY <1>0, <1>1, <2>2 DEF Draft, Typed, TypeOK, FiniteDiffs
<1>2. ASSUME NEW d \in DraftIds, Promote(d) PROVE Typed'
  <2> DEFINE new == [draft  |-> d,
                     domain |-> DomainOf[draft[d][1].key],
                     rows   |-> OpenRows(draft[d])]
  <2>1. new \in Diff
    BY <1>0, <1>2, PromotedDiff DEF Promote
  <2>2. IsFiniteSet(new.rows)
    BY <1>0, OpenRowsOfDraft
  <2>3. diffs' = diffs \union {new} /\ UNCHANGED <<sources, landed>>
    BY <1>2 DEF Promote
  <2>4. Promoted(draft[d]) \in Seq(Row)
    BY <1>0, PromotedRows
  <2>5. draft' \in [DraftIds -> Seq(Row)]
    BY <1>0, <1>2, <2>4 DEF Promote
  <2> HIDE DEF new
  <2> QED
    BY <1>0, <2>1, <2>2, <2>3, <2>5 DEF Typed, TypeOK, FiniteDiffs
<1>3. ASSUME NEW diff \in diffs, Apply(diff) PROVE Typed'
  <2>1. Appended(sources, diff) \in Sources
    BY <1>0, AppendedSources DEF FiniteDiffs
  <2> QED
    BY <1>0, <1>3, <2>1 DEF Apply, Typed, TypeOK, FiniteDiffs
<1>4. CASE Edit
  <2>1. sources' \in Sources
    BY <1>0, <1>4 DEF Edit, Sources
  <2> QED
    BY <1>0, <1>4, <2>1 DEF Edit, Typed, TypeOK, FiniteDiffs
<1>5. CASE UNCHANGED vars
  BY <1>0, <1>5 DEF vars, Typed, TypeOK, FiniteDiffs
<1> QED
  BY <1>1, <1>2, <1>3, <1>4, <1>5 DEF Next

\* The tables keep their types under every sequence of requests and edits.
THEOREM BufferTypeCorrect == Spec => []TypeOK
<1>1. Typed => TypeOK
  BY DEF Typed
<1> QED
  BY <1>1, InitTyped, NextTyped, PTL DEF Spec

----------------------------------------------------------------------------
(* One diff per row. *)

\* A diff holds rows its draft has, under the keys they have there: a row drafted
\* later cannot turn out to be in a diff already.
DiffsAreDrafted ==
    \A x \in diffs : \A y \in x.rows :
        y[1] \in DOMAIN draft[x.draft] /\ draft[x.draft][y[1]].key = y[2]

Holding(d, n, k) == {x \in diffs : x.draft = d /\ <<n, k>> \in x.rows}

Tabled == draft \in [DraftIds -> Seq(Row)] /\ diffs \subseteq Diff

OneDiff == DiffsAreDrafted /\ RowsReachOneDiff

Proposed == Typed /\ OneDiff

LEMMA InitProposed == Init => Proposed
<1> SUFFICES ASSUME Init PROVE Proposed
  OBVIOUS
<1>1. \A d \in DraftIds : DOMAIN draft[d] = {}
  BY DEF Init, NoDrafts
<1> QED
  BY <1>1, InitTyped DEF Init, Proposed, OneDiff, DiffsAreDrafted, RowsReachOneDiff

Opens(d, k) == draft' = [draft EXCEPT ![d] = Opened(@, k)] /\ diffs' = diffs

\* Drafting adds an open row at a seq no diff can name yet.
LEMMA DraftProposed ==
    ASSUME Tabled, OneDiff,
           NEW d \in DraftIds, NEW k \in Keys, Opens(d, k)
    PROVE  OneDiff'
<1> DEFINE next  == Len(draft[d]) + 1
           after == Opened(draft[d], k)
<1>1. draft[d] \in Seq(Row) /\ diffs' = diffs /\ draft \in [DraftIds -> Seq(Row)]
  BY DEF Opens, Tabled
<1>2. \A x \in diffs : x.draft \in DraftIds
  BY DEF Diff, Tabled
<1>3. /\ DOMAIN after = DOMAIN draft[d] \union {next}
      /\ next \notin DOMAIN draft[d]
      /\ \A n \in DOMAIN draft[d] : after[n] = draft[d][n]
      /\ after[next] = [key |-> k, status |-> "open"]
  BY <1>1, OpenedRows
<1>4. draft' = [draft EXCEPT ![d] = after]
  BY DEF Opens
<1> HIDE DEF next, after
<1>5. draft'[d] = after /\ \A e \in DraftIds \ {d} : draft'[e] = draft[e]
  BY <1>1, <1>4
<1>6. \A e \in DraftIds : \A n \in DOMAIN draft[e] :
         /\ n \in DOMAIN draft'[e] /\ draft'[e][n] = draft[e][n]
  BY <1>3, <1>5
<1>7. DiffsAreDrafted'
  BY <1>1, <1>2, <1>6 DEF OneDiff, DiffsAreDrafted
<1>8. Holding(d, next, k) = {}
  BY <1>3 DEF OneDiff, DiffsAreDrafted, Holding
<1>9. ASSUME NEW e \in DraftIds, NEW n \in DOMAIN draft'[e]
      PROVE  LET holding == {x \in diffs : x.draft = e /\ <<n, draft'[e][n].key>> \in x.rows}
             IN  /\ draft'[e][n].status = "promoted" => \E x \in diffs : holding = {x}
                 /\ draft'[e][n].status = "open" => holding = {}
  <2>1. CASE n \in DOMAIN draft[e]
    BY <1>6, <2>1 DEF OneDiff, RowsReachOneDiff
  <2>2. CASE n \notin DOMAIN draft[e]
    <3>1. e = d /\ n = next
      BY <1>3, <1>5, <2>2
    <3>2. draft'[e][n] = [key |-> k, status |-> "open"]
      BY <1>3, <1>5, <3>1
    <3> QED
      BY <1>8, <3>1, <3>2 DEF Holding
  <2> QED
    BY <2>1, <2>2
<1> QED
  BY <1>1, <1>7, <1>9 DEF OneDiff, RowsReachOneDiff

\* Promotion hands out the open rows, which no diff held, and no others.
LEMMA PromoteProposed ==
    ASSUME Tabled, OneDiff,
           NEW d \in DraftIds, Promote(d)
    PROVE  OneDiff'
<1> DEFINE new == [draft  |-> d,
                   domain |-> DomainOf[draft[d][1].key],
                   rows   |-> OpenRows(draft[d])]
<1>1. draft[d] \in Seq(Row) /\ draft \in [DraftIds -> Seq(Row)] /\ diffs \subseteq Diff
  BY DEF Tabled
<1>2. diffs' = diffs \union {new}
  BY DEF Promote
<1>3. draft'[d] = Promoted(draft[d]) /\ \A e \in DraftIds \ {d} : draft'[e] = draft[e]
  BY <1>1 DEF Promote
<1>4. \A e \in DraftIds : /\ DOMAIN draft'[e] = DOMAIN draft[e]
                          /\ \A n \in DOMAIN draft[e] : draft'[e][n].key = draft[e][n].key
  BY <1>1, <1>3, PromotedRows
<1>5. new.draft = d /\ new.rows = OpenRows(draft[d])
  OBVIOUS
<1> HIDE DEF new
<1>6. \A x \in diffs : x.draft \in DraftIds
  BY <1>1 DEF Diff
<1>7. DiffsAreDrafted'
  <2>1. \A x \in diffs : \A y \in x.rows :
           y[1] \in DOMAIN draft'[x.draft] /\ draft'[x.draft][y[1]].key = y[2]
    BY <1>4, <1>6 DEF OneDiff, DiffsAreDrafted
  <2>2. \A y \in OpenRows(draft[d]) :
           y[1] \in DOMAIN draft'[d] /\ draft'[d][y[1]].key = y[2]
    BY <1>1, <1>4, OpenRowsOfDraft
  <2> QED
    BY <1>2, <1>5, <2>1, <2>2 DEF DiffsAreDrafted
<1>8. ASSUME NEW e \in DraftIds, NEW n \in DOMAIN draft'[e]
      PROVE  LET holding == {x \in diffs' : x.draft = e /\ <<n, draft'[e][n].key>> \in x.rows}
             IN  /\ draft'[e][n].status = "promoted" => \E x \in diffs' : holding = {x}
                 /\ draft'[e][n].status = "open" => holding = {}
  <2> DEFINE k == draft[e][n].key
  <2>1. n \in DOMAIN draft[e] /\ draft'[e][n].key = k
    BY <1>4
  <2>2. /\ draft[e][n].status = "promoted" => \E x \in diffs : Holding(e, n, k) = {x}
        /\ draft[e][n].status = "open" => Holding(e, n, k) = {}
    BY <2>1 DEF OneDiff, RowsReachOneDiff, Holding
  <2> HIDE DEF k
  <2>3. CASE e # d
    <3>1. draft'[e][n] = draft[e][n]
      BY <1>3, <2>3
    <3>2. {x \in diffs' : x.draft = e /\ <<n, k>> \in x.rows} = Holding(e, n, k)
      BY <1>2, <1>5, <2>3 DEF Holding
    <3> QED
      BY <1>2, <2>1, <2>2, <3>1, <3>2
  <2>4. CASE e = d /\ draft[d][n].status = "open"
    <3>1. <<n, k>> \in new.rows
      BY <1>1, <1>5, <2>1, <2>4, OpenRowsOfDraft DEF k
    <3>2. Holding(e, n, k) = {}
      BY <2>2, <2>4
    <3>3. {x \in diffs' : x.draft = e /\ <<n, k>> \in x.rows} = {new}
      BY <1>2, <1>5, <2>4, <3>1, <3>2 DEF Holding
    <3>4. draft'[e][n].status = "promoted"
      BY <1>1, <1>3, <2>1, <2>4, PromotedRows
    <3> QED
      BY <1>2, <2>1, <3>3, <3>4
  <2>5. CASE e = d /\ draft[d][n].status # "open"
    <3>1. draft[e][n].status = "promoted"
      BY <1>1, <2>1, <2>5, RowsOfDraft
    <3>2. <<n, k>> \notin new.rows
      <4>1. \A y \in OpenRows(draft[d]) : draft[d][y[1]].status = "open"
        BY <1>1, OpenRowsOfDraft
      <4> QED
        BY <1>5, <2>5, <4>1
    <3>3. {x \in diffs' : x.draft = e /\ <<n, k>> \in x.rows} = Holding(e, n, k)
      BY <1>2, <3>2 DEF Holding
    <3>4. draft'[e][n].status = "promoted"
      BY <1>1, <1>3, <2>1, <2>5, PromotedRows
    <3> QED
      BY <1>2, <2>1, <2>2, <3>1, <3>3, <3>4
  <2> QED
    BY <2>3, <2>4, <2>5
<1> QED
  BY <1>7, <1>8 DEF OneDiff, RowsReachOneDiff

LEMMA NextProposed == Proposed /\ [Next]_vars => Proposed'
<1> SUFFICES ASSUME Proposed, [Next]_vars PROVE Proposed'
  OBVIOUS
<1>0. Tabled /\ OneDiff
  BY DEF Proposed, Typed, TypeOK, Tabled
<1>1. Typed'
  BY NextTyped DEF Proposed
<1>2. ASSUME NEW d \in DraftIds, NEW k \in Keys, Draft(d, k) PROVE Proposed'
  <2>1. Opens(d, k)
    BY <1>2 DEF Draft, Opens
  <2> QED
    BY <1>0, <1>1, <2>1, DraftProposed DEF Proposed
<1>3. ASSUME NEW d \in DraftIds, Promote(d) PROVE Proposed'
  BY <1>0, <1>1, <1>3, PromoteProposed DEF Proposed
<1>4. ASSUME NEW diff \in diffs, Apply(diff) PROVE Proposed'
  BY <1>1, <1>4 DEF Apply, Proposed, OneDiff, DiffsAreDrafted, RowsReachOneDiff
<1>5. CASE Edit
  BY <1>1, <1>5 DEF Edit, Proposed, OneDiff, DiffsAreDrafted, RowsReachOneDiff
<1>6. CASE UNCHANGED vars
  BY <1>1, <1>6 DEF vars, Proposed, OneDiff, DiffsAreDrafted, RowsReachOneDiff
<1> QED
  BY <1>2, <1>3, <1>4, <1>5, <1>6 DEF Next

\* Promotion proposes each drafted row once, for any number of drafts, requests
\* and merges: none is proposed twice, none is marked promoted without a diff.
THEOREM EachRowReachesOneDiff == Spec => []RowsReachOneDiff
<1>1. Proposed => RowsReachOneDiff
  BY DEF Proposed, OneDiff
<1> QED
  BY <1>1, InitProposed, NextProposed, PTL DEF Spec
=============================================================================
