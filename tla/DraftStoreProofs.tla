-------------------------- MODULE DraftStoreProofs --------------------------
(***************************************************************************)
(* DraftStore for any requests, ids, rows and bounds: what interleaved     *)
(* requests keep, and that requests served one at a time are the single    *)
(* steps of DraftBuffer, rebuilds of the file included.                    *)
(***************************************************************************)
EXTENDS DraftStore, FiniteSetTheorems, TLAPS

\* What is proved of the buffer, read off the rows wherever they are.
Promise == INSTANCE DraftProofs WITH draft <- Drafts

----------------------------------------------------------------------------
(* Requests. *)

Drafting  == {<<"existing", "add", "pending">>, <<"add", "pending">>, <<"pending">>}
Promoting == {<<"domain", "payloads", "mark">>, <<"payloads", "mark">>, <<"mark">>}

\* What a request's remaining calls tell of the rest of it.
Shaped(q) ==
    /\ q.pc # "idle" => q.calls # <<>>
    /\ \/ q.calls = <<>>
       \/ q.calls \in Drafting /\ q.draft \in DraftIds /\ q.key \in Keys
       \/ /\ q.calls \in Promoting /\ q.draft \in DraftIds
          /\ q.calls # <<"domain", "payloads", "mark">> => q.domain \in Domains
          /\ q.calls = <<"mark">> => IsFiniteSet(q.rows)
       \/ q.calls = <<"read">>

Names == {"existing", "add", "pending", "domain", "payloads", "mark", "read"}

\* The calls of each route, from the first to the last.
LEMMA CallsInOrder ==
    /\ Head(<<"existing", "add", "pending">>) = "existing"
    /\ Tail(<<"existing", "add", "pending">>) = <<"add", "pending">>
    /\ Head(<<"add", "pending">>) = "add"
    /\ Tail(<<"add", "pending">>) = <<"pending">>
    /\ Head(<<"pending">>) = "pending"
    /\ Head(<<"domain", "payloads", "mark">>) = "domain"
    /\ Tail(<<"domain", "payloads", "mark">>) = <<"payloads", "mark">>
    /\ Head(<<"payloads", "mark">>) = "payloads"
    /\ Tail(<<"payloads", "mark">>) = <<"mark">>
    /\ Head(<<"mark">>) = "mark"
    /\ Head(<<"read">>) = "read"
  OBVIOUS

LEMMA CallsCounted ==
    /\ Len(<<"existing", "add", "pending">>) # 1
    /\ Len(<<"add", "pending">>) # 1
    /\ Len(<<"pending">>) = 1
    /\ Len(<<"domain", "payloads", "mark">>) # 1
    /\ Len(<<"payloads", "mark">>) # 1
    /\ Len(<<"mark">>) = 1
    /\ Len(<<"read">>) = 1
  OBVIOUS

LEMMA CallsTyped == Drafting \union Promoting \union {<<>>, <<"read">>} \subseteq Seq(Names)
  BY DEF Drafting, Promoting, Names

\* The call a request is at, and the rest of it.
LEMMA CallKinds ==
    ASSUME NEW q, Shaped(q), q.pc # "idle"
    PROVE  /\ Head(q.calls) = "existing" =>
                q.calls = <<"existing", "add", "pending">> /\ q.draft \in DraftIds /\ q.key \in Keys
           /\ Head(q.calls) = "add" =>
                q.calls = <<"add", "pending">> /\ q.draft \in DraftIds /\ q.key \in Keys
           /\ Head(q.calls) = "pending" =>
                q.calls = <<"pending">> /\ q.draft \in DraftIds /\ q.key \in Keys
           /\ Head(q.calls) = "domain" =>
                q.calls = <<"domain", "payloads", "mark">> /\ q.draft \in DraftIds
           /\ Head(q.calls) = "payloads" =>
                /\ q.calls = <<"payloads", "mark">> /\ q.draft \in DraftIds
                /\ q.domain \in Domains
           /\ Head(q.calls) = "mark" =>
                /\ q.calls = <<"mark">> /\ q.draft \in DraftIds /\ q.domain \in Domains
                /\ IsFiniteSet(q.rows)
           /\ Head(q.calls) = "read" => q.calls = <<"read">>
  <1>1. \/ q.calls \in Drafting /\ q.draft \in DraftIds /\ q.key \in Keys
        \/ /\ q.calls \in Promoting /\ q.draft \in DraftIds
           /\ q.calls # <<"domain", "payloads", "mark">> => q.domain \in Domains
           /\ q.calls = <<"mark">> => IsFiniteSet(q.rows)
        \/ q.calls = <<"read">>
    BY DEF Shaped
  <1>2. <<"payloads", "mark">> # <<"domain", "payloads", "mark">>
        /\ <<"mark">> # <<"domain", "payloads", "mark">>
    OBVIOUS
  <1> QED
    BY <1>1, <1>2, CallsInOrder DEF Drafting, Promoting

\* Going on with the next call.
LEMMA NextCallMoves ==
    ASSUME NEW q \in Request, Len(q.calls) # 1, Tail(q.calls) \in Seq(Names)
    PROVE  /\ NextCall(q) \in Request
           /\ NextCall(q).calls = Tail(q.calls) /\ NextCall(q).pc = "check"
           /\ NextCall(q).draft = q.draft /\ NextCall(q).key = q.key
           /\ NextCall(q).domain = q.domain /\ NextCall(q).rows = q.rows
           /\ NextCall(q).open = "no" /\ NextCall(q).carried = NoDrafts
  <1> DEFINE rest == Tail(q.calls)
             n == [q EXCEPT !.calls = rest, !.pc = "check", !.open = "no", !.carried = NoDrafts,
                            !.tables = {}, !.start = 0]
  <1>1. NextCall(q) = n
    BY DEF NextCall
  <1>2. NoDrafts \in [DraftIds -> Seq(Row)]
    BY DEF NoDrafts
  <1>3. rest \in Seq(Names)
    OBVIOUS
  <1> HIDE DEF rest
  <1>4. n \in Request /\ n.calls = rest /\ n.pc = "check" /\ n.draft = q.draft /\ n.key = q.key
        /\ n.domain = q.domain /\ n.rows = q.rows /\ n.open = "no" /\ n.carried = NoDrafts
    BY <1>2, <1>3 DEF Request, Names
  <1> QED
    BY <1>1, <1>4 DEF rest

LEMMA IdleShaped == Idle \in Request /\ Shaped(Idle)
  <1>1. NoDrafts \in [DraftIds -> Seq(Row)] /\ <<>> \in Seq(Names)
    BY DEF NoDrafts
  <1> QED
    BY <1>1 DEF Idle, Request, Shaped, Names

\* The last call of a route is followed by the answer.
LEMMA LastCall ==
    ASSUME NEW q, Len(q.calls) = 1
    PROVE  NextCall(q) = Idle
  BY DEF NextCall

RequestsOK == req \in [Requests -> Request] /\ \A r \in Requests : Shaped(req[r])

LEMMA Turn ==
    ASSUME RequestsOK, NEW r \in Requests, NEW q \in Request, Shaped(q), Proceeds(r, q)
    PROVE  RequestsOK'
  BY DEF RequestsOK, Proceeds

LEMMA Ends ==
    ASSUME RequestsOK, NEW r \in Requests, Proceeds(r, Idle)
    PROVE  RequestsOK'
  BY Turn, IdleShaped

\* Within a call nothing that the shape depends on changes.
LEMMA SameCall ==
    ASSUME NEW q \in Request, Shaped(q), q.pc # "idle", NEW n \in Request,
           n.calls = q.calls, n.draft = q.draft, n.key = q.key, n.domain = q.domain,
           n.rows = q.rows
    PROVE  Shaped(n)
  BY DEF Shaped

----------------------------------------------------------------------------
(* Types. *)

\* The buffer's rules, whether promised or proved, are this module's own.
LEMMA SameSets ==
    /\ \A S : Cardinality(S) = Promise!Cardinality(S)
    /\ \A S : Cardinality(S) = Buffer!Cardinality(S)
    /\ \A S : IsFiniteSet(S) <=> Promise!IsFiniteSet(S)
  BY DEF Cardinality, Promise!Cardinality, Buffer!Cardinality, IsFiniteSet, Promise!IsFiniteSet

LEMMA SameVocabulary ==
    /\ Row = Promise!Row /\ Domains = Promise!Domains /\ AppCode = Promise!AppCode
    /\ Sources = Promise!Sources /\ NoRows = Promise!NoRows /\ NoDrafts = Promise!NoDrafts
    /\ Diff = Promise!Diff
  BY DEF Row, Promise!Row, Domains, Promise!Domains, Override, Promise!Override, AppCode,
     Promise!AppCode, Sources, Promise!Sources, NoRows, Promise!NoRows, NoDrafts,
     Promise!NoDrafts, Diff, Promise!Diff

LEMMA SameRows ==
    /\ \A rows, k : Opened(rows, k) = Promise!Opened(rows, k)
    /\ \A rows : Promoted(rows) = Promise!Promoted(rows)
    /\ \A rows : OpenRows(rows) = Promise!OpenRows(rows)
  BY DEF Opened, Promise!Opened, Promoted, Promise!Promoted, OpenRows, Promise!OpenRows

LEMMA PromiseKept ==
    /\ DomainOf \in [Keys -> Promise!Domains]
    /\ MaxRows \in Nat /\ MaxEdits \in Nat /\ Reviewed \in BOOLEAN
  BY SameVocabulary, DomainAssumption, BoundAssumption, ReviewAssumption

LEMMA RowsTyped ==
    ASSUME NEW rows \in Seq(Row)
    PROVE  /\ \A k \in Keys : Opened(rows, k) \in Seq(Row)
           /\ Promoted(rows) \in Seq(Row)
           /\ OpenRows(rows) \subseteq Nat \X Keys /\ IsFiniteSet(OpenRows(rows))
           /\ rows # <<>> => DomainOf[rows[1].key] \in Domains
  <1>0. rows \in Seq(Promise!Row)
    BY SameVocabulary
  <1>1. \A k \in Keys : Promise!Opened(rows, k) \in Seq(Promise!Row)
    BY <1>0, PromiseKept, Promise!OpenedRows
  <1>2. Promise!Promoted(rows) \in Seq(Promise!Row)
    BY <1>0, PromiseKept, Promise!PromotedRows
  <1>3. Promise!OpenRows(rows) \subseteq Nat \X Keys /\ Promise!IsFiniteSet(Promise!OpenRows(rows))
    BY <1>0, PromiseKept, Promise!OpenRowsOfDraft
  <1>4. rows # <<>> => rows[1] \in Row
    OBVIOUS
  <1>5. rows # <<>> => DomainOf[rows[1].key] \in Domains
    BY <1>4, DomainAssumption DEF Row
  <1> QED
    BY <1>1, <1>2, <1>3, <1>5, SameVocabulary, SameRows, SameSets

\* A diff holds finitely many rows, so the committed counts stay numbers.
FiniteDiffs == \A x \in diffs : IsFiniteSet(x.rows)

TablesOK ==
    /\ disk \in File
    /\ sources \in Sources
    /\ diffs \subseteq Diff
    /\ landed \subseteq diffs
    /\ told \in [DraftIds -> SUBSET Keys]
    /\ FiniteDiffs

Typed == TablesOK /\ RequestsOK

LEMMA UnbuiltTyped == \A kind \in {"none", "hollow", "bare", "built"} : Unbuilt(kind) \in File
  BY DEF Unbuilt, File, Sources, NoRows, NoDrafts

LEMMA DraftWritten ==
    ASSUME disk \in File, NEW d \in DraftIds, NEW rows \in Seq(Row)
    PROVE  [disk EXCEPT !.draft[d] = rows] \in File
  BY DEF File

\* The file's check and its rebuild.
LEMMA RebuildTyped ==
    ASSUME Typed, NEW r \in Requests,
           \/ Check(r) \/ Carry(r) \/ Unlink(r) \/ Create(r) \/ Ingest(r) \/ Publish(r)
    PROVE  Typed'
  <1> DEFINE q == req[r]
  <1>0. /\ disk \in File /\ sources \in Sources /\ req \in [Requests -> Request]
        /\ q \in Request /\ Shaped(q) /\ RequestsOK
        /\ disk.draft \in [DraftIds -> Seq(Row)] /\ NoDrafts \in [DraftIds -> Seq(Row)]
    BY DEF Typed, TablesOK, RequestsOK, File, NoDrafts
  <1>1. q.pc # "idle" /\ UNCHANGED <<sources, diffs, landed, told>>
    BY DEF Check, Carry, Unlink, Create, Ingest, Publish, At, Outside
  <1>2. SUFFICES disk' \in File /\ RequestsOK'
    BY <1>1 DEF Typed, TablesOK, FiniteDiffs
  <1>3. ASSUME NEW n \in Request, n.calls = q.calls, n.draft = q.draft, n.key = q.key,
               n.domain = q.domain, n.rows = q.rows, Proceeds(r, n)
        PROVE  RequestsOK'
    BY <1>0, <1>1, <1>3, SameCall, Turn
  <1>4. Authored(sources) \in SUBSET Keys
    BY DEF Authored
  <1>5. CASE Check(r)
    <2> DEFINE n == [q EXCEPT !.pc = IF disk.kind = "built" /\ disk.meta = sources THEN "query"
                                     ELSE "carry"]
    <2>1. /\ n \in Request /\ n.calls = q.calls /\ n.draft = q.draft /\ n.key = q.key
          /\ n.domain = q.domain /\ n.rows = q.rows
      BY <1>0 DEF Request
    <2>2. Proceeds(r, n) /\ disk' = disk
      BY <1>5 DEF Check
    <2> HIDE DEF n
    <2> QED
      BY <1>0, <1>3, <2>1, <2>2
  <1>6. CASE Carry(r)
    <2> DEFINE n == [q EXCEPT !.pc = IF disk.kind = "none" THEN "create" ELSE "unlink",
                              !.carried = disk.draft]
    <2>1. /\ n \in Request /\ n.calls = q.calls /\ n.draft = q.draft /\ n.key = q.key
          /\ n.domain = q.domain /\ n.rows = q.rows
      BY <1>0 DEF Request
    <2>2. Proceeds(r, n) /\ disk' = disk
      BY <1>6 DEF Carry
    <2> HIDE DEF n
    <2> QED
      BY <1>0, <1>3, <2>1, <2>2
  <1>7. CASE Unlink(r)
    <2>1. disk' \in File
      BY <1>7, UnbuiltTyped DEF Unlink
    <2>2. CASE disk.kind = "none"
      BY <1>0, <1>7, <2>1, <2>2, Ends DEF Unlink, Fails
    <2>3. CASE disk.kind # "none"
      <3> DEFINE later(x) == IF x = r THEN [req[x] EXCEPT !.pc = "create"]
                             ELSE IF req[x].open = "linked" THEN [req[x] EXCEPT !.open = "orphan"]
                             ELSE req[x]
      <3>1. req' = [x \in Requests |-> later(x)]
        BY <1>7, <2>3 DEF Unlink
      <3>2. ASSUME NEW x \in Requests PROVE later(x) \in Request /\ Shaped(later(x))
        <4>1. req[x] \in Request /\ Shaped(req[x])
          BY <1>0 DEF RequestsOK
        <4>2. CASE x = r
          <5>1. /\ [q EXCEPT !.pc = "create"] \in Request
                /\ [q EXCEPT !.pc = "create"].calls = q.calls
                /\ [q EXCEPT !.pc = "create"].draft = q.draft
                /\ [q EXCEPT !.pc = "create"].key = q.key
                /\ [q EXCEPT !.pc = "create"].domain = q.domain
                /\ [q EXCEPT !.pc = "create"].rows = q.rows
            BY <1>0 DEF Request
          <5> QED
            BY <1>0, <1>1, <4>2, <5>1, SameCall
        <4>3. CASE x # r
          <5>1. [req[x] EXCEPT !.open = "orphan"] \in Request
            BY <4>1 DEF Request
          <5>2. Shaped([req[x] EXCEPT !.open = "orphan"])
            BY <4>1 DEF Shaped, Request
          <5> QED
            BY <4>1, <4>3, <5>1, <5>2
        <4> QED
          BY <4>2, <4>3
      <3> HIDE DEF later
      <3> QED
        BY <2>1, <3>1, <3>2 DEF RequestsOK
    <2> QED
      BY <2>2, <2>3
  <1>8. CASE Create(r)
    <2> DEFINE n == [q EXCEPT !.pc = "ingest", !.open = "linked"]
    <2>1. /\ n \in Request /\ n.calls = q.calls /\ n.draft = q.draft /\ n.key = q.key
          /\ n.domain = q.domain /\ n.rows = q.rows
      BY <1>0 DEF Request
    <2>2. CASE HasTables
      BY <1>0, <1>8, <2>2, Ends DEF Create, Fails
    <2>3. CASE ~HasTables
      <3>1. Proceeds(r, n) /\ disk' = Unbuilt("bare")
        BY <1>8, <2>3 DEF Create
      <3> HIDE DEF n
      <3> QED
        BY <1>3, <2>1, <3>1, UnbuiltTyped
    <2> QED
      BY <2>2, <2>3
  <1>9. CASE Ingest(r)
    <2> DEFINE n == [q EXCEPT !.pc = "publish", !.tables = Authored(sources)]
    <2>1. /\ n \in Request /\ n.calls = q.calls /\ n.draft = q.draft /\ n.key = q.key
          /\ n.domain = q.domain /\ n.rows = q.rows
      BY <1>0, <1>4 DEF Request
    <2>2. Proceeds(r, n) \/ Proceeds(r, Idle)
      BY <1>9 DEF Ingest, Fails
    <2>3. disk' = disk
      BY <1>9 DEF Ingest
    <2> HIDE DEF n
    <2> QED
      BY <1>0, <1>3, <2>1, <2>2, <2>3, Ends
  <1>10. CASE Publish(r)
    <2> DEFINE n == [q EXCEPT !.pc = "query", !.open = "no", !.carried = NoDrafts, !.tables = {}]
    <2>1. /\ n \in Request /\ n.calls = q.calls /\ n.draft = q.draft /\ n.key = q.key
          /\ n.domain = q.domain /\ n.rows = q.rows
      BY <1>0 DEF Request
    <2>2. Proceeds(r, n)
      BY <1>10 DEF Publish
    <2>3. disk' \in File
      BY <1>0, <1>10 DEF Publish, File, Request
    <2> HIDE DEF n
    <2> QED
      BY <1>3, <2>1, <2>2, <2>3
  <1> QED
    BY <1>5, <1>6, <1>7, <1>8, <1>9, <1>10

\* A query answers and goes on, or ends its request.
LEMMA AnswersTyped ==
    ASSUME RequestsOK, NEW r \in Requests, NEW n \in Request, Shaped(n), Answers(r, n)
    PROVE  RequestsOK'
  <1>1. Proceeds(r, n) \/ Proceeds(r, Idle)
    BY DEF Answers
  <1> QED
    BY <1>1, Turn, Ends

\* Going on with the next call, but where the call's result is kept.
LEMMA NextCallShaped ==
    ASSUME NEW q \in Request, Shaped(q), q.pc # "idle",
           Head(q.calls) \in {"existing", "add", "pending", "mark", "read"}
    PROVE  NextCall(q) \in Request /\ Shaped(NextCall(q))
  <1>1. CASE Head(q.calls) = "existing"
    <2>1. q.calls = <<"existing", "add", "pending">> /\ q.draft \in DraftIds /\ q.key \in Keys
      BY <1>1, CallKinds
    <2>2. Len(q.calls) # 1 /\ Tail(q.calls) = <<"add", "pending">>
      BY <2>1, CallsInOrder, CallsCounted
    <2>3. <<"add", "pending">> \in Drafting /\ <<"add", "pending">> \in Seq(Names)
      BY CallsTyped DEF Drafting
    <2>4. /\ NextCall(q) \in Request /\ NextCall(q).calls = <<"add", "pending">>
          /\ NextCall(q).draft = q.draft /\ NextCall(q).key = q.key
      BY <2>2, <2>3, NextCallMoves
    <2> QED
      BY <2>1, <2>3, <2>4 DEF Shaped
  <1>2. CASE Head(q.calls) = "add"
    <2>1. q.calls = <<"add", "pending">> /\ q.draft \in DraftIds /\ q.key \in Keys
      BY <1>2, CallKinds
    <2>2. Len(q.calls) # 1 /\ Tail(q.calls) = <<"pending">>
      BY <2>1, CallsInOrder, CallsCounted
    <2>3. <<"pending">> \in Drafting /\ <<"pending">> \in Seq(Names)
      BY CallsTyped DEF Drafting
    <2>4. /\ NextCall(q) \in Request /\ NextCall(q).calls = <<"pending">>
          /\ NextCall(q).draft = q.draft /\ NextCall(q).key = q.key
      BY <2>2, <2>3, NextCallMoves
    <2> QED
      BY <2>1, <2>3, <2>4 DEF Shaped
  <1>3. CASE Head(q.calls) \in {"pending", "mark", "read"}
    <2>1. q.calls \in {<<"pending">>, <<"mark">>, <<"read">>}
      BY <1>3, CallKinds
    <2>2. NextCall(q) = Idle
      BY <2>1, CallsCounted, LastCall
    <2> QED
      BY <2>2, IdleShaped
  <1> QED
    BY <1>1, <1>2, <1>3

\* Writing, and what the two calls of promotion before it keep.
LEMMA QueryTyped ==
    ASSUME Typed, NEW r \in Requests,
           \/ Existing(r) \/ OpenToWrite(r) \/ Add(r) \/ Receipt(r)
           \/ DraftDomain(r) \/ Payloads(r) \/ Mark(r) \/ List(r)
    PROVE  Typed'
  <1> DEFINE q == req[r]
             d == req[r].draft
  <1>0. /\ disk \in File /\ sources \in Sources /\ req \in [Requests -> Request]
        /\ q \in Request /\ Shaped(q) /\ RequestsOK
        /\ disk.draft \in [DraftIds -> Seq(Row)]
        /\ diffs \subseteq Diff /\ landed \subseteq diffs /\ FiniteDiffs
        /\ told \in [DraftIds -> SUBSET Keys]
    BY DEF Typed, TablesOK, RequestsOK, File
  <1>1. q.pc # "idle" /\ Call(r) = Head(q.calls)
    BY DEF Existing, OpenToWrite, Add, Receipt, DraftDomain, Payloads, Mark, List, At, Call
  <1>2. CASE Existing(r)
    <2> DEFINE n == IF DomainOf[q.key] = AppCode /\ q.key \in disk.tables THEN Idle ELSE NextCall(q)
    <2>1. n \in Request /\ Shaped(n)
      BY <1>0, <1>1, <1>2, NextCallShaped, IdleShaped DEF Existing
    <2>2. Answers(r, n) /\ UNCHANGED <<disk, told, sources, diffs, landed>>
      BY <1>2 DEF Existing, Outside
    <2> HIDE DEF n
    <2>3. RequestsOK'
      BY <1>0, <2>1, <2>2, AnswersTyped
    <2> QED
      BY <1>0, <2>2, <2>3 DEF Typed, TablesOK, FiniteDiffs
  <1>3. CASE OpenToWrite(r)
    <2> DEFINE start == IF Call(r) = "add" THEN Len(disk.draft[d]) ELSE 0
               n == [q EXCEPT !.pc = "write", !.open = "linked", !.start = start]
    <2>1. start \in Nat
      <3>1. CASE Call(r) = "add"
        <4>1. d \in DraftIds
          BY <1>0, <1>1, <3>1, CallKinds
        <4>2. disk.draft[d] \in Seq(Row)
          BY <1>0, <4>1
        <4> QED
          BY <3>1, <4>2
      <3> QED
        BY <3>1
    <2>2. Answers(r, n) /\ UNCHANGED <<told, sources, diffs, landed>>
      BY <1>3 DEF OpenToWrite, Outside
    <2>3. disk' \in File
      BY <1>0, <1>3, UnbuiltTyped DEF OpenToWrite
    <2> HIDE DEF start
    <2>4. /\ n \in Request /\ n.calls = q.calls /\ n.draft = q.draft /\ n.key = q.key
          /\ n.domain = q.domain /\ n.rows = q.rows
      BY <1>0, <2>1 DEF Request
    <2> HIDE DEF n
    <2>5. RequestsOK'
      BY <1>0, <1>1, <2>2, <2>4, SameCall, AnswersTyped
    <2> QED
      BY <1>0, <2>2, <2>3, <2>5 DEF Typed, TablesOK, FiniteDiffs
  <1>4. CASE Add(r)
    <2>1. d \in DraftIds /\ q.key \in Keys
      BY <1>0, <1>1, <1>4, CallKinds DEF Add
    <2>2. UNCHANGED <<told, sources, diffs, landed>> /\ Call(r) = "add"
      BY <1>4 DEF Add, Outside
    <2>3. NextCall(q) \in Request /\ Shaped(NextCall(q))
      BY <1>0, <1>1, <2>2, NextCallShaped
    <2>4. Proceeds(r, Idle) \/ Proceeds(r, NextCall(q))
      BY <1>4 DEF Add, Fails
    <2>5. RequestsOK'
      BY <1>0, <2>3, <2>4, Turn, Ends
    <2>6. disk' = disk \/ disk' = [disk EXCEPT !.draft[d] = Opened(disk.draft[d], q.key)]
      BY <1>4 DEF Add
    <2>7. Opened(disk.draft[d], q.key) \in Seq(Row)
      BY <1>0, <2>1, RowsTyped
    <2>8. disk' \in File
      BY <1>0, <2>1, <2>6, <2>7, DraftWritten
    <2> QED
      BY <1>0, <2>2, <2>5, <2>8 DEF Typed, TablesOK, FiniteDiffs
  <1>5. CASE Receipt(r)
    <2>1. d \in DraftIds /\ q.key \in Keys
      BY <1>0, <1>1, <1>5, CallKinds DEF Receipt
    <2>2. UNCHANGED <<disk, sources, diffs, landed>> /\ Answers(r, NextCall(q))
      BY <1>5 DEF Receipt, Outside
    <2>3. told' \in [DraftIds -> SUBSET Keys]
      BY <1>0, <1>5, <2>1 DEF Receipt
    <2>4. RequestsOK'
      BY <1>0, <1>1, <1>5, <2>2, NextCallShaped, AnswersTyped DEF Receipt
    <2> QED
      BY <1>0, <2>2, <2>3, <2>4 DEF Typed, TablesOK, FiniteDiffs
  <1>6. CASE DraftDomain(r)
    <2> DEFINE rows == disk.draft[d]
               n == [NextCall(q) EXCEPT !.domain = DomainOf[rows[1].key]]
    <2>1. q.calls = <<"domain", "payloads", "mark">> /\ d \in DraftIds
      BY <1>0, <1>1, <1>6, CallKinds DEF DraftDomain
    <2>2. Len(q.calls) # 1 /\ Tail(q.calls) = <<"payloads", "mark">>
      BY <2>1, CallsInOrder, CallsCounted
    <2>3. <<"payloads", "mark">> \in Promoting /\ <<"payloads", "mark">> \in Seq(Names)
      BY CallsTyped DEF Promoting
    <2>4. /\ NextCall(q) \in Request /\ NextCall(q).calls = <<"payloads", "mark">>
          /\ NextCall(q).draft = d
      BY <1>0, <2>2, <2>3, NextCallMoves
    <2>5. ASSUME rows # <<>> PROVE n \in Request /\ Shaped(n)
      <3>1. DomainOf[rows[1].key] \in Domains
        BY <1>0, <2>1, <2>5, RowsTyped
      <3> HIDE DEF rows
      <3>2. /\ n \in Request /\ n.calls = <<"payloads", "mark">> /\ n.draft = d
            /\ n.domain \in Domains
        BY <2>4, <3>1 DEF Request
      <3>3. <<"payloads", "mark">> # <<"mark">>
        OBVIOUS
      <3> HIDE DEF n
      <3> QED
        BY <2>1, <2>3, <3>2, <3>3 DEF Shaped
    <2>6. Answers(r, IF rows = <<>> THEN Idle ELSE n)
          /\ UNCHANGED <<disk, told, sources, diffs, landed>>
      BY <1>6 DEF DraftDomain, Outside
    <2> HIDE DEF n, rows
    <2>7. RequestsOK'
      BY <1>0, <2>5, <2>6, IdleShaped, AnswersTyped
    <2> QED
      BY <1>0, <2>6, <2>7 DEF Typed, TablesOK, FiniteDiffs
  <1>7. CASE Payloads(r)
    <2> DEFINE rows == OpenRows(disk.draft[d])
               n == [NextCall(q) EXCEPT !.rows = rows]
    <2>1. q.calls = <<"payloads", "mark">> /\ d \in DraftIds /\ q.domain \in Domains
      BY <1>0, <1>1, <1>7, CallKinds DEF Payloads
    <2>2. Len(q.calls) # 1 /\ Tail(q.calls) = <<"mark">>
      BY <2>1, CallsInOrder, CallsCounted
    <2>3. <<"mark">> \in Promoting /\ <<"mark">> \in Seq(Names)
      BY CallsTyped DEF Promoting
    <2>4. /\ NextCall(q) \in Request /\ NextCall(q).calls = <<"mark">>
          /\ NextCall(q).draft = d /\ NextCall(q).domain = q.domain
      BY <1>0, <2>2, <2>3, NextCallMoves
    <2>5. rows \in SUBSET (Nat \X Keys) /\ IsFiniteSet(rows)
      BY <1>0, <2>1, RowsTyped
    <2>6. Answers(r, IF rows = {} THEN Idle ELSE n)
          /\ UNCHANGED <<disk, told, sources, diffs, landed>>
      BY <1>7 DEF Payloads, Outside
    <2> HIDE DEF rows
    <2>7. n \in Request /\ Shaped(n)
      <3>1. /\ n \in Request /\ n.calls = <<"mark">> /\ n.draft = d /\ n.domain \in Domains
            /\ n.rows = rows
        BY <2>1, <2>4, <2>5 DEF Request
      <3> HIDE DEF n
      <3> QED
        BY <2>1, <2>3, <2>5, <3>1 DEF Shaped
    <2> HIDE DEF n
    <2>8. RequestsOK'
      BY <1>0, <2>6, <2>7, IdleShaped, AnswersTyped
    <2> QED
      BY <1>0, <2>6, <2>8 DEF Typed, TablesOK, FiniteDiffs
  <1>8. CASE Mark(r)
    <2> DEFINE new == [draft |-> d, domain |-> q.domain, rows |-> q.rows]
    <2>1. d \in DraftIds /\ q.domain \in Domains /\ IsFiniteSet(q.rows)
      BY <1>0, <1>1, <1>8, CallKinds DEF Mark
    <2>2. /\ UNCHANGED <<told, sources, landed>> /\ diffs' = diffs \union {new}
          /\ Proceeds(r, NextCall(q)) /\ Call(r) = "mark"
      BY <1>8 DEF Mark
    <2>3. disk' = disk \/ disk' = [disk EXCEPT !.draft[d] = Promoted(disk.draft[d])]
      BY <1>8 DEF Mark
    <2>4. Promoted(disk.draft[d]) \in Seq(Row)
      BY <1>0, <2>1, RowsTyped
    <2>5. disk' \in File
      BY <1>0, <2>1, <2>3, <2>4, DraftWritten
    <2>6. new \in Diff /\ IsFiniteSet(new.rows)
      BY <1>0, <2>1 DEF Diff, Request
    <2>7. RequestsOK'
      BY <1>0, <1>1, <2>2, NextCallShaped, Turn
    <2> HIDE DEF new
    <2> QED
      BY <1>0, <2>2, <2>5, <2>6, <2>7 DEF Typed, TablesOK, FiniteDiffs
  <1>9. CASE List(r)
    <2>1. UNCHANGED <<disk, told, sources, diffs, landed>> /\ Answers(r, NextCall(q))
      BY <1>9 DEF List, Outside
    <2>2. RequestsOK'
      BY <1>0, <1>1, <1>9, <2>1, NextCallShaped, AnswersTyped DEF List
    <2> QED
      BY <1>0, <2>1, <2>2 DEF Typed, TablesOK, FiniteDiffs
  <1> QED
    BY <1>2, <1>3, <1>4, <1>5, <1>6, <1>7, <1>8, <1>9

\* A request arrives with its route's calls.
Begins(r) ==
    \/ \E d \in DraftIds, k \in Keys : BeginDraft(r, d, k)
    \/ \E d \in DraftIds : BeginPromote(r, d)
    \/ BeginList(r)

LEMMA Arrived ==
    ASSUME RequestsOK, NEW r \in Requests, NEW op \in {"draft", "promote", "list"},
           NEW d \in DraftIds \union {<<>>}, NEW k \in Keys \union {<<>>}, Arrives(r, op, d, k)
    PROVE  /\ req'[r] \in Request /\ req' = [req EXCEPT ![r] = req'[r]]
           /\ req'[r].calls = Calls(op) /\ req'[r].pc = "check"
           /\ req'[r].draft = d /\ req'[r].key = k /\ req'[r].domain = <<>>
  <1> DEFINE n == [Idle EXCEPT !.calls = Calls(op), !.pc = "check", !.draft = d, !.key = k]
  <1>1. Calls(op) \in Seq(Names)
    <2>1. Calls(op) \in Drafting \union Promoting \union {<<>>, <<"read">>}
      BY DEF Calls, Drafting, Promoting
    <2> QED
      BY <2>1, CallsTyped
  <1>2. /\ n \in Request /\ n.calls = Calls(op) /\ n.pc = "check" /\ n.draft = d /\ n.key = k
        /\ n.domain = <<>>
    <2>1. Idle \in Request
      BY IdleShaped
    <2>2. Idle.domain = <<>>
      BY DEF Idle
    <2> HIDE DEF n
    <2> QED
      BY <1>1, <2>1, <2>2 DEF Request, Names, n
  <1>3. req' = [req EXCEPT ![r] = n] /\ req \in [Requests -> Request]
    BY DEF Arrives, Proceeds, RequestsOK
  <1> HIDE DEF n
  <1> QED
    BY <1>2, <1>3

LEMMA BeginsTyped ==
    ASSUME Typed, NEW r \in Requests, Begins(r)
    PROVE  Typed'
  <1>0. RequestsOK
    BY DEF Typed
  <1>1. UNCHANGED <<disk, told, sources, diffs, landed>>
    BY DEF Begins, BeginDraft, BeginPromote, BeginList, Arrives, Outside
  <1>2. SUFFICES RequestsOK'
    BY <1>1 DEF Typed, TablesOK, FiniteDiffs
  <1>3. ASSUME NEW d \in DraftIds, NEW k \in Keys, BeginDraft(r, d, k) PROVE RequestsOK'
    <2>1. Arrives(r, "draft", d, k)
      BY <1>3 DEF BeginDraft
    <2>2. /\ req'[r] \in Request /\ Proceeds(r, req'[r]) /\ req'[r].calls = Calls("draft")
          /\ req'[r].draft = d /\ req'[r].key = k
      BY <1>0, <2>1, Arrived DEF Proceeds
    <2>3. Calls("draft") \in Drafting /\ Calls("draft") # <<>>
      BY DEF Calls, Drafting
    <2>4. Shaped(req'[r])
      BY <2>2, <2>3 DEF Shaped
    <2> QED
      BY <1>0, <2>2, <2>4, Turn
  <1>4. ASSUME NEW d \in DraftIds, BeginPromote(r, d) PROVE RequestsOK'
    <2>1. Arrives(r, "promote", d, <<>>)
      BY <1>4 DEF BeginPromote
    <2>2. /\ req'[r] \in Request /\ Proceeds(r, req'[r]) /\ req'[r].calls = Calls("promote")
          /\ req'[r].draft = d
      BY <1>0, <2>1, Arrived DEF Proceeds
    <2>3. /\ Calls("promote") = <<"domain", "payloads", "mark">> /\ Calls("promote") \in Promoting
          /\ Calls("promote") # <<>> /\ Calls("promote") # <<"mark">>
      BY DEF Calls, Promoting
    <2>4. Shaped(req'[r])
      BY <2>2, <2>3 DEF Shaped
    <2> QED
      BY <1>0, <2>2, <2>4, Turn
  <1>5. CASE BeginList(r)
    <2>1. Arrives(r, "list", <<>>, <<>>)
      BY <1>5 DEF BeginList
    <2>2. req'[r] \in Request /\ Proceeds(r, req'[r]) /\ req'[r].calls = Calls("list")
      BY <1>0, <2>1, Arrived DEF Proceeds
    <2>3. Calls("list") = <<"read">> /\ Calls("list") # <<>>
      BY DEF Calls
    <2>4. Shaped(req'[r])
      BY <2>2, <2>3 DEF Shaped
    <2> QED
      BY <1>0, <2>2, <2>4, Turn
  <1> QED
    BY <1>3, <1>4, <1>5 DEF Begins

\* The steps there are.
LEMMA NextCases ==
    ASSUME Next
    PROVE  \/ \E r \in Requests : Begins(r)
           \/ \E r \in Requests :
                 \/ Check(r) \/ Carry(r) \/ Unlink(r) \/ Create(r) \/ Ingest(r) \/ Publish(r)
           \/ \E r \in Requests :
                 \/ Existing(r) \/ OpenToWrite(r) \/ Add(r) \/ Receipt(r)
                 \/ DraftDomain(r) \/ Payloads(r) \/ Mark(r) \/ List(r)
           \/ \E diff \in diffs : Apply(diff)
           \/ Edit
  BY DEF Next, Begins, Step

LEMMA NextTyped == Typed /\ [Next]_vars => Typed'
  <1> SUFFICES ASSUME Typed, [Next]_vars PROVE Typed'
    OBVIOUS
  <1>0. TablesOK /\ RequestsOK
    BY DEF Typed
  <1>1. ASSUME NEW diff \in diffs, Apply(diff) PROVE Typed'
    <2>1. sources \in Sources /\ diff \in Diff /\ IsFiniteSet(diff.rows)
      BY <1>0 DEF TablesOK, FiniteDiffs
    <2>2. \A k : Cardinality({x \in diff.rows : x[2] = k}) \in Nat
      <3> TAKE k
      <3>1. IsFiniteSet({x \in diff.rows : x[2] = k})
        BY <2>1, FS_Subset
      <3> QED
        BY <3>1, FS_CardinalityType
    <2>3. Appended(sources, diff) \in Sources
      <3> DEFINE count(k) == Cardinality({x \in diff.rows : x[2] = k})
                 file == [k \in Keys |-> sources.rows[diff.domain][k] + count(k)]
      <3>1. \A k \in Keys : count(k) \in Nat
        BY <2>2
      <3>2. /\ diff.domain \in Domains /\ sources.rows \in [Domains -> [Keys -> Nat]]
            /\ sources.edition \in Nat
        BY <2>1 DEF Diff, Sources
      <3> HIDE DEF count
      <3>3. file \in [Keys -> Nat]
        BY <3>1, <3>2
      <3>4. Appended(sources, diff) =
               [sources EXCEPT !.rows = [sources.rows EXCEPT ![diff.domain] = file]]
        BY <2>1, <3>2 DEF Appended, count, Sources
      <3> HIDE DEF file
      <3>5. [sources.rows EXCEPT ![diff.domain] = file] \in [Domains -> [Keys -> Nat]]
        BY <3>2, <3>3
      <3> QED
        BY <2>1, <3>4, <3>5 DEF Sources
    <2> QED
      BY <1>0, <1>1, <2>3 DEF Apply, Typed, TablesOK, FiniteDiffs, RequestsOK
  <1>2. CASE Edit
    <2>1. sources' \in Sources
      BY <1>0, <1>2 DEF Edit, TablesOK, Sources
    <2> QED
      BY <1>0, <1>2, <2>1 DEF Edit, Typed, TablesOK, FiniteDiffs, RequestsOK
  <1>3. CASE UNCHANGED vars
    BY <1>0, <1>3 DEF vars, Typed, TablesOK, FiniteDiffs, RequestsOK
  <1> QED
    BY <1>1, <1>2, <1>3, NextCases, BeginsTyped, RebuildTyped, QueryTyped

LEMMA InitTyped == Init => Typed
  <1> SUFFICES ASSUME Init PROVE Typed
    OBVIOUS
  <1>1. disk \in File
    BY UnbuiltTyped DEF Init
  <1>2. sources \in Sources
    BY DEF Init, Sources, NoRows
  <1> QED
    BY <1>1, <1>2, IdleShaped DEF Init, Typed, TablesOK, FiniteDiffs, RequestsOK

THEOREM TypedAlways == Spec => []Typed
  BY InitTyped, NextTyped, PTL DEF Spec

\* The file, the sources, the diffs and the requests keep their types, for any
\* requests at once and any edits between their steps.
THEOREM StoreTypeCorrect == Spec => []TypeOK
  <1>1. Typed => TypeOK
    BY DEF Typed, TablesOK, RequestsOK, TypeOK
  <1> QED
    BY <1>1, TypedAlways, PTL

----------------------------------------------------------------------------
(* What the others do while one request takes a step. *)

LEMMA NextCallTurns ==
    ASSUME NEW q \in Request
    PROVE  NextCall(q).pc \in {"idle", "check"}
  <1>1. CASE Len(q.calls) = 1
    BY <1>1, LastCall DEF Idle
  <1>2. CASE Len(q.calls) # 1
    <2>1. NextCall(q) = [q EXCEPT !.calls = Tail(q.calls), !.pc = "check", !.open = "no",
                                  !.carried = NoDrafts, !.tables = {}, !.start = 0]
      BY <1>2 DEF NextCall
    <2> QED
      BY <2>1 DEF Request
  <1> QED
    BY <1>1, <1>2

\* Whoever holds an unlinked file open keeps it; nothing else is taken from a
\* request by another.
LEMMA OthersKeep ==
    ASSUME RequestsOK, NEW r \in Requests, Step(r) \/ Begins(r), NEW x \in Requests \ {r}
    PROVE  /\ req'[x].pc = req[x].pc /\ req'[x].tables = req[x].tables
           /\ req'[x].carried = req[x].carried
  <1>0. req \in [Requests -> Request] /\ req[x] \in Request /\ x # r
    BY DEF RequestsOK
  <1>1. CASE Unlink(r) /\ disk.kind # "none"
    <2>1. req'[x] = IF req[x].open = "linked" THEN [req[x] EXCEPT !.open = "orphan"] ELSE req[x]
      BY <1>0, <1>1 DEF Unlink
    <2> QED
      BY <1>0, <2>1 DEF Request
  <1>2. CASE ~(Unlink(r) /\ disk.kind # "none")
    <2>1. \E n : Proceeds(r, n)
      BY <1>2 DEF Step, Begins, BeginDraft, BeginPromote, BeginList, Arrives, Check, Carry, Unlink,
         Create, Ingest, Publish, Existing, OpenToWrite, Add, Receipt, DraftDomain, Payloads, Mark,
         List, Answers, Fails
    <2> QED
      BY <1>0, <2>1 DEF Proceeds
  <1> QED
    BY <1>1, <1>2

----------------------------------------------------------------------------
(* The stamp. *)

\* A stamped file holds the rows of the sources it is stamped with, and so will
\* one that is about to be stamped.
StampInv ==
    /\ disk.kind = "built" => disk.tables = Authored(disk.meta)
    /\ \A r \in Requests : At(r, "publish") => req[r].tables = Authored(sources)

LEMMA StampedTurn ==
    ASSUME RequestsOK, StampInv, NEW r \in Requests, Step(r) \/ Begins(r), sources' = sources,
           disk'.kind = "built" => disk'.tables = Authored(disk'.meta),
           req'[r].pc = "publish" => req'[r].tables = Authored(sources)
    PROVE  StampInv'
  <1>1. ASSUME NEW x \in Requests, req'[x].pc = "publish"
        PROVE  req'[x].tables = Authored(sources)
    <2>1. CASE x = r
      BY <1>1, <2>1
    <2>2. CASE x # r
      BY <1>1, <2>2, OthersKeep DEF StampInv, At
    <2> QED
      BY <2>1, <2>2
  <1>2. Authored(sources)' = Authored(sources)
    BY DEF Authored
  <1> QED
    BY <1>1, <1>2 DEF StampInv, At, Authored

LEMMA NextStamped ==
    ASSUME Typed, StampInv, ~EditsMidRequest, [Next]_vars
    PROVE  StampInv'
  <1>0. RequestsOK /\ disk \in File /\ req \in [Requests -> Request]
    BY DEF Typed, TablesOK, RequestsOK
  <1>1. ASSUME NEW r \in Requests, Begins(r) PROVE StampInv'
    <2>1. req'[r].pc = "check"
      <3>1. PICK op \in {"draft", "promote", "list"}, d \in DraftIds \union {<<>>},
                 k \in Keys \union {<<>>} : Arrives(r, op, d, k)
        BY <1>1 DEF Begins, BeginDraft, BeginPromote, BeginList
      <3> QED
        BY <1>0, <3>1, Arrived
    <2>2. UNCHANGED <<disk, sources>>
      BY <1>1 DEF Begins, BeginDraft, BeginPromote, BeginList, Arrives, Outside
    <2> QED
      BY <1>0, <1>1, <2>1, <2>2, StampedTurn DEF StampInv
  <1>2. ASSUME NEW r \in Requests,
               \/ Check(r) \/ Carry(r) \/ Unlink(r) \/ Create(r) \/ Ingest(r) \/ Publish(r)
        PROVE  StampInv'
    <2> DEFINE q == req[r]
    <2>0. Step(r) /\ q \in Request /\ sources' = sources
      BY <1>0, <1>2 DEF Step, Check, Carry, Unlink, Create, Ingest, Publish, Outside
    <2>1. CASE Check(r) \/ Carry(r)
      <3>1. /\ \A pc : [q EXCEPT !.pc = pc].pc = pc
            /\ \A pc, c : [q EXCEPT !.pc = pc, !.carried = c].pc = pc
        BY <2>0 DEF Request
      <3>2. disk' = disk /\ \E pc \in {"query", "carry", "create", "unlink"} : \E c :
               Proceeds(r, [q EXCEPT !.pc = pc]) \/ Proceeds(r, [q EXCEPT !.pc = pc, !.carried = c])
        BY <2>1 DEF Check, Carry
      <3>3. req'[r].pc \in {"query", "carry", "create", "unlink"}
        <4>0. PICK pc \in {"query", "carry", "create", "unlink"} : \E c :
                 Proceeds(r, [q EXCEPT !.pc = pc]) \/ Proceeds(r, [q EXCEPT !.pc = pc, !.carried = c])
          BY <3>2
        <4>1. PICK c :
                 Proceeds(r, [q EXCEPT !.pc = pc]) \/ Proceeds(r, [q EXCEPT !.pc = pc, !.carried = c])
          BY <4>0
        <4>2. CASE Proceeds(r, [q EXCEPT !.pc = pc])
          <5> DEFINE n == [q EXCEPT !.pc = pc]
          <5>1. n.pc = pc /\ Proceeds(r, n)
            BY <3>1, <4>2
          <5> HIDE DEF n
          <5> QED
            BY <1>0, <4>1, <5>1 DEF Proceeds
        <4>3. CASE Proceeds(r, [q EXCEPT !.pc = pc, !.carried = c])
          <5> DEFINE n == [q EXCEPT !.pc = pc, !.carried = c]
          <5>1. n.pc = pc /\ Proceeds(r, n)
            BY <3>1, <4>3
          <5> HIDE DEF n
          <5> QED
            BY <1>0, <4>1, <5>1 DEF Proceeds
        <4> QED
          BY <4>1, <4>2, <4>3
      <3> QED
        BY <1>0, <2>0, <3>2, <3>3, StampedTurn DEF StampInv
    <2>2. CASE Unlink(r)
      <3>1. disk'.kind = "none"
        BY <2>2 DEF Unlink, Unbuilt
      <3>2. req'[r].pc \in {"idle", "create"}
        BY <1>0, <2>0, <2>2 DEF Unlink, Fails, Proceeds, Idle, Request
      <3> QED
        BY <1>0, <2>0, <3>1, <3>2, StampedTurn
    <2>3. CASE Create(r)
      <3>1. disk' = disk \/ disk'.kind = "bare"
        BY <2>3 DEF Create, Unbuilt
      <3>2. req'[r].pc \in {"idle", "ingest"}
        <4>1. Proceeds(r, Idle) \/ Proceeds(r, [q EXCEPT !.pc = "ingest", !.open = "linked"])
          BY <2>3 DEF Create, Fails
        <4>2. [q EXCEPT !.pc = "ingest", !.open = "linked"].pc = "ingest" /\ Idle.pc = "idle"
          BY <2>0 DEF Request, Idle
        <4> QED
          BY <1>0, <4>1, <4>2 DEF Proceeds
      <3> QED
        BY <1>0, <2>0, <3>1, <3>2, StampedTurn DEF StampInv
    <2>4. CASE Ingest(r)
      <3>1. disk' = disk
        BY <2>4 DEF Ingest
      <3>2. req'[r].pc = "idle" \/ req'[r].tables = Authored(sources)
        <4> DEFINE n == [q EXCEPT !.pc = "publish", !.tables = Authored(sources)]
        <4>1. Proceeds(r, Idle) \/ Proceeds(r, n)
          BY <2>4 DEF Ingest, Fails
        <4>2. n.tables = Authored(sources) /\ Idle.pc = "idle"
          BY <2>0 DEF Request, Idle
        <4> HIDE DEF n
        <4> QED
          BY <1>0, <4>1, <4>2 DEF Proceeds
      <3> QED
        BY <1>0, <2>0, <3>1, <3>2, StampedTurn DEF StampInv
    <2>5. CASE Publish(r)
      <3>1. q.tables = Authored(sources)
        BY <2>5 DEF Publish, StampInv
      <3>2. disk' = disk \/ (disk'.tables = q.tables /\ disk'.meta = sources)
        BY <2>5 DEF Publish
      <3>3. req'[r].pc = "query"
        BY <1>0, <2>0, <2>5 DEF Publish, Proceeds, Request
      <3> QED
        BY <1>0, <2>0, <3>1, <3>2, <3>3, StampedTurn DEF StampInv
    <2> QED
      BY <1>2, <2>1, <2>2, <2>3, <2>4, <2>5
  <1>3. ASSUME NEW r \in Requests,
               \/ Existing(r) \/ OpenToWrite(r) \/ Add(r) \/ Receipt(r)
               \/ DraftDomain(r) \/ Payloads(r) \/ Mark(r) \/ List(r)
        PROVE  StampInv'
    <2> DEFINE q == req[r]
    <2>0. /\ Step(r) /\ q \in Request /\ sources' = sources
          /\ NextCall(q).pc \in {"idle", "check"} /\ Idle.pc = "idle"
      BY <1>0, <1>3, NextCallTurns DEF Step, Existing, OpenToWrite, Add, Receipt, DraftDomain,
         Payloads, Mark, List, Outside, Idle
    <2>1. CASE OpenToWrite(r)
      <3>1. disk' = disk \/ disk'.kind = "hollow"
        BY <2>1 DEF OpenToWrite, Unbuilt
      <3>2. req'[r].pc \in {"idle", "write"}
        <4> DEFINE start == IF Call(r) = "add" THEN Len(disk.draft[req[r].draft]) ELSE 0
                   n == [q EXCEPT !.pc = "write", !.open = "linked", !.start = start]
        <4>1. Answers(r, n)
          BY <2>1 DEF OpenToWrite
        <4> HIDE DEF start
        <4>2. n.pc = "write"
          BY <2>0 DEF Request
        <4> HIDE DEF n
        <4> QED
          BY <1>0, <2>0, <4>1, <4>2 DEF Answers, Proceeds
      <3> QED
        BY <1>0, <2>0, <3>1, <3>2, StampedTurn DEF StampInv
    <2>2. CASE Add(r) \/ Mark(r)
      <3>1. disk'.kind = disk.kind /\ disk'.meta = disk.meta /\ disk'.tables = disk.tables
        BY <1>0, <2>2 DEF Add, Mark, File
      <3>2. req'[r].pc \in {"idle", "check"}
        BY <1>0, <2>0, <2>2 DEF Add, Mark, Fails, Proceeds
      <3> QED
        BY <1>0, <2>0, <3>1, <3>2, StampedTurn DEF StampInv
    <2>3. CASE Existing(r) \/ Receipt(r) \/ List(r)
      <3>1. disk' = disk
        BY <2>3 DEF Existing, Receipt, List
      <3>2. req'[r].pc \in {"idle", "check"}
        BY <1>0, <2>0, <2>3 DEF Existing, Receipt, List, Answers, Proceeds
      <3> QED
        BY <1>0, <2>0, <3>1, <3>2, StampedTurn DEF StampInv
    <2>4. CASE DraftDomain(r) \/ Payloads(r)
      <3>1. disk' = disk
        BY <2>4 DEF DraftDomain, Payloads
      <3>2. /\ DraftDomain(r) => Call(r) = "domain"
            /\ Payloads(r) => Call(r) = "payloads"
            /\ q.pc # "idle" /\ Shaped(q)
        BY <1>0, <2>4 DEF DraftDomain, Payloads, At, RequestsOK
      <3>3. NextCall(q) \in Request
        <4>1. /\ Len(q.calls) # 1
              /\ Tail(q.calls) \in {<<"payloads", "mark">>, <<"mark">>}
          BY <2>4, <3>2, CallKinds, CallsInOrder, CallsCounted DEF Call
        <4>2. Tail(q.calls) \in Seq(Names)
          BY <4>1, CallsTyped DEF Promoting
        <4> QED
          BY <2>0, <4>1, <4>2, NextCallMoves
      <3>4. req'[r].pc \in {"idle", "check"}
        <4>1. CASE DraftDomain(r)
          <5> DEFINE v == DomainOf[disk.draft[req[r].draft][1].key]
                     n == [NextCall(q) EXCEPT !.domain = v]
          <5>1. Answers(r, n) \/ Answers(r, Idle)
            BY <4>1 DEF DraftDomain
          <5> HIDE DEF v
          <5>2. n.pc \in {"idle", "check"}
            BY <2>0, <3>3 DEF Request
          <5> HIDE DEF n
          <5> QED
            BY <1>0, <2>0, <5>1, <5>2 DEF Answers, Proceeds
        <4>2. CASE Payloads(r)
          <5> DEFINE v == OpenRows(disk.draft[req[r].draft])
                     n == [NextCall(q) EXCEPT !.rows = v]
          <5>1. Answers(r, n) \/ Answers(r, Idle)
            BY <4>2 DEF Payloads
          <5> HIDE DEF v
          <5>2. n.pc \in {"idle", "check"}
            BY <2>0, <3>3 DEF Request
          <5> HIDE DEF n
          <5> QED
            BY <1>0, <2>0, <5>1, <5>2 DEF Answers, Proceeds
        <4> QED
          BY <2>4, <4>1, <4>2
      <3> QED
        BY <1>0, <2>0, <3>1, <3>4, StampedTurn DEF StampInv
    <2> QED
      BY <1>3, <2>1, <2>2, <2>3, <2>4
  <1>4. ASSUME Edit \/ \E diff \in diffs : Apply(diff) PROVE StampInv'
    <2>1. Busy = {} /\ UNCHANGED <<disk, req>>
      BY <1>4 DEF Edit, Apply
    <2> QED
      BY <2>1 DEF Busy, StampInv, At, Authored
  <1>5. CASE UNCHANGED vars
    BY <1>5 DEF vars, StampInv, At, Authored
  <1> QED
    BY <1>1, <1>2, <1>3, <1>4, <1>5, NextCases

LEMMA InitStamped == Init => StampInv
  BY DEF Init, StampInv, Unbuilt, At, Idle

\* With sources that only change while nobody is served, a file stamped with the
\* present sources holds their rows (build() and is_current), however the
\* requests interleave.
THEOREM StampStaysTrue ==
    ASSUME EditsMidRequest = FALSE
    PROVE  Spec => []StampIsTrue
  <1>1. Init => Typed /\ StampInv
    BY InitTyped, InitStamped
  <1>2. Typed /\ StampInv /\ [Next]_vars => (Typed /\ StampInv)'
    BY NextTyped, NextStamped
  <1>3. Typed /\ StampInv => StampIsTrue
    BY DEF StampInv, StampIsTrue
  <1> QED
    BY <1>1, <1>2, <1>3, PTL DEF Spec

----------------------------------------------------------------------------
(* One request at a time. *)

Building == {"create", "ingest", "publish"}

OneAtATime == \A q, r \in Requests : req[q].pc # "idle" /\ req[r].pc # "idle" => q = r

\* What a request finds the file to be, step by step.
FileAt(r) ==
    LET q == req[r]
    IN  /\ q.pc \in {"check", "carry"} => disk.kind \in {"none", "built"}
        /\ q.pc = "unlink" => disk.kind = "built" /\ q.carried = disk.draft
        /\ q.pc = "create" => disk.kind = "none"
        /\ q.pc \in {"ingest", "publish"} => /\ disk.kind = "bare" /\ disk.draft = NoDrafts
                                             /\ q.open = "linked"
        /\ q.pc \in {"query", "write"} =>
              disk.kind = "built" /\ (EditsMidRequest \/ disk.meta = sources)
        /\ q.pc = "write" =>
              /\ q.open = "linked"
              /\ Head(q.calls) = "add" => q.start = Len(disk.draft[q.draft])

\* What it has read of the drafts still holds at its next call.
ReadSo(r) ==
    LET q    == req[r]
        rows == Drafts[q.draft]
    IN  /\ q.calls \in {<<"existing", "add", "pending">>, <<"add", "pending">>} =>
              Len(rows) < MaxRows /\ (DomainOf[q.key] = AppCode => rows = <<>>)
        /\ q.calls = <<"add", "pending">> /\ DomainOf[q.key] = AppCode =>
              EditsMidRequest \/ q.key \notin Authored(sources)
        /\ q.calls \in {<<"payloads", "mark">>, <<"mark">>} => q.domain = DomainOf[rows[1].key]
        /\ q.calls = <<"mark">> => q.rows = OpenRows(rows) /\ q.rows # {}

Followed ==
    /\ Busy = {} => disk.kind \in {"none", "built"}
    /\ \A r \in Busy : FileAt(r) /\ ReadSo(r)

\* A rebuild over sources that are refused has lost the drafts with the old file,
\* and as long as they are refused no file is built: for good, since the modelled
\* sources gain rows and lose none (nobody repairs them by hand).
Lost ==
    /\ ~Materializes(sources)
    /\ disk.kind # "built" /\ disk.draft = NoDrafts
    /\ \A r \in Requests :
          /\ req[r].pc \notin {"publish", "query", "write"}
          /\ req[r].pc \in {"unlink", "create", "ingest"} => req[r].carried = NoDrafts

SerialInv ==
    /\ OneAtATime
    /\ Reviewed => Materializes(sources)
    /\ Lost \/ Followed

LEMMA Alone ==
    ASSUME Typed, OneAtATime, MaxInFlight = 1, NEW r \in Requests, Step(r) \/ Begins(r)
    PROVE  \A x \in Requests \ {r} : req[x].pc = "idle" /\ req'[x].pc = "idle"
  <1>0. RequestsOK
    BY DEF Typed
  <1>1. CASE Step(r)
    <2>1. req[r].pc # "idle"
      BY <1>1 DEF Step, Check, Carry, Unlink, Create, Ingest, Publish, Existing, OpenToWrite, Add,
         Receipt, DraftDomain, Payloads, Mark, List, At
    <2> QED
      BY <1>0, <1>1, <2>1, OthersKeep DEF OneAtATime
  <1>2. CASE Begins(r)
    <2>1. Cardinality(Busy) < 1
      BY <1>2 DEF Begins, BeginDraft, BeginPromote, BeginList, Arrives
    <2>2. \A q \in Busy : Busy = {q}
      BY DEF Busy, OneAtATime
    <2>3. \A q : Cardinality({q}) = 1
      BY FS_Singleton
    <2>4. Busy = {}
      BY <2>1, <2>2, <2>3
    <2> QED
      BY <1>0, <1>2, <2>4, OthersKeep DEF Busy
  <1> QED
    BY <1>1, <1>2

LEMMA DraftsAre ==
    ASSUME NEW r \in Requests, \A x \in Requests \ {r} : req[x].pc = "idle" /\ req'[x].pc = "idle"
    PROVE  /\ Drafts = IF req[r].pc \in Building THEN req[r].carried ELSE disk.draft
           /\ Drafts' = IF req'[r].pc \in Building THEN req'[r].carried ELSE disk'.draft
  <1> DEFINE builders == {x \in Requests : req[x].pc \in {"create", "ingest", "publish"}}
             one == CHOOSE x \in {r} : TRUE
  <1>1. one = r
    OBVIOUS
  <1>2. Drafts = IF builders = {} THEN disk.draft ELSE req[CHOOSE x \in builders : TRUE].carried
    BY DEF Drafts
  <1>3. Drafts' = IF builders' = {} THEN disk'.draft ELSE req'[CHOOSE x \in builders' : TRUE].carried
    BY DEF Drafts
  <1>4. builders = IF req[r].pc \in Building THEN {r} ELSE {}
    BY DEF Building
  <1>5. builders' = IF req'[r].pc \in Building THEN {r} ELSE {}
    BY DEF Building
  <1> HIDE DEF builders
  <1>6. builders = {r} => Drafts = req[one].carried
    BY <1>2
  <1>7. builders' = {r} => Drafts' = req'[one].carried
    BY <1>3
  <1> HIDE DEF one
  <1> QED
    BY <1>1, <1>2, <1>3, <1>4, <1>5, <1>6, <1>7

\* A request's step need only be checked against the file it leaves.
LEMMA SerialTurn ==
    ASSUME Typed, OneAtATime, MaxInFlight = 1, NEW r \in Requests, Step(r) \/ Begins(r),
           req'[r].pc = "idle" => disk'.kind \in {"none", "built"},
           req'[r].pc # "idle" => FileAt(r)' /\ ReadSo(r)'
    PROVE  Followed'
  <1>1. \A x \in Requests \ {r} : req'[x].pc = "idle"
    BY Alone
  <1>2. Busy' \subseteq {r} /\ (r \in Busy' <=> req'[r].pc # "idle")
    BY <1>1 DEF Busy
  <1> QED
    BY <1>2 DEF Followed

\* What a request has read holds while it is within a call.
LEMMA ReadSoKept ==
    ASSUME NEW r \in Requests, ReadSo(r), Drafts' = Drafts, sources' = sources,
           req'[r].calls = req[r].calls, req'[r].draft = req[r].draft, req'[r].key = req[r].key,
           req'[r].domain = req[r].domain, req'[r].rows = req[r].rows
    PROVE  ReadSo(r)'
  BY DEF ReadSo, Authored, OpenRows

Serial == Typed /\ (EditsMidRequest \/ StampInv) /\ SerialInv

BufferVars == <<Drafts, sources, diffs, landed>>

LEMMA RebuildSerial ==
    ASSUME Serial, Followed, MaxInFlight = 1, NEW r \in Requests,
           \/ Check(r) \/ Carry(r) \/ Unlink(r) \/ Create(r) \/ Ingest(r) \/ Publish(r)
    PROVE  Lost' \/ (Followed' /\ UNCHANGED BufferVars)
  <1> DEFINE q == req[r]
  <1>0. /\ Typed /\ RequestsOK /\ Step(r) /\ q \in Request
        /\ req \in [Requests -> Request] /\ OneAtATime
    BY DEF Serial, SerialInv, Typed, RequestsOK, Step
  <1>1. /\ UNCHANGED <<sources, diffs, landed>> /\ q.pc # "idle"
        /\ FileAt(r) /\ ReadSo(r)
    BY <1>0 DEF Check, Carry, Unlink, Create, Ingest, Publish, At, Outside, Followed, Busy
  <1>2. /\ Drafts = IF q.pc \in Building THEN q.carried ELSE disk.draft
        /\ Drafts' = IF req'[r].pc \in Building THEN req'[r].carried ELSE disk'.draft
    BY <1>0, Alone, DraftsAre
  <1>3. ASSUME NEW n, Proceeds(r, n), n.calls = q.calls, n.draft = q.draft, n.key = q.key,
               n.domain = q.domain, n.rows = q.rows, n.pc # "idle", Drafts' = Drafts,
               req'[r] = n => FileAt(r)'
        PROVE  Followed' /\ UNCHANGED BufferVars
    <2>1. req'[r] = n
      BY <1>0, <1>3 DEF Proceeds
    <2>2. FileAt(r)' /\ ReadSo(r)'
      BY <1>1, <1>3, <2>1, ReadSoKept
    <2> QED
      BY <1>0, <1>1, <1>3, <2>1, <2>2, SerialTurn DEF BufferVars
  <1>4. CASE Check(r)
    <2> DEFINE n == [q EXCEPT !.pc = IF disk.kind = "built" /\ disk.meta = sources THEN "query"
                                     ELSE "carry"]
    <2>1. /\ n.calls = q.calls /\ n.draft = q.draft /\ n.key = q.key
          /\ n.domain = q.domain /\ n.rows = q.rows
          /\ n.pc = IF disk.kind = "built" /\ disk.meta = sources THEN "query" ELSE "carry"
      BY <1>0 DEF Request
    <2>2. Proceeds(r, n) /\ disk' = disk /\ q.pc = "check"
      BY <1>4 DEF Check, At
    <2> HIDE DEF n
    <2>3. req'[r] = n
      BY <1>0, <2>2 DEF Proceeds
    <2>4. Drafts' = Drafts
      BY <1>2, <2>1, <2>2, <2>3 DEF Building
    <2>5. FileAt(r)'
      BY <1>1, <2>1, <2>2, <2>3 DEF FileAt
    <2> QED
      BY <1>3, <2>1, <2>2, <2>4, <2>5
  <1>5. CASE Carry(r)
    <2> DEFINE n == [q EXCEPT !.pc = IF disk.kind = "none" THEN "create" ELSE "unlink",
                              !.carried = disk.draft]
    <2>1. /\ n.calls = q.calls /\ n.draft = q.draft /\ n.key = q.key
          /\ n.domain = q.domain /\ n.rows = q.rows /\ n.carried = disk.draft
          /\ n.pc = IF disk.kind = "none" THEN "create" ELSE "unlink"
      BY <1>0 DEF Request
    <2>2. Proceeds(r, n) /\ disk' = disk /\ q.pc = "carry"
      BY <1>5 DEF Carry, At
    <2> HIDE DEF n
    <2>3. req'[r] = n
      BY <1>0, <2>2 DEF Proceeds
    <2>4. Drafts' = Drafts
      BY <1>2, <2>1, <2>2, <2>3 DEF Building
    <2>5. FileAt(r)'
      BY <1>1, <2>1, <2>2, <2>3 DEF FileAt
    <2> QED
      BY <1>3, <2>1, <2>2, <2>4, <2>5
  <1>6. CASE Unlink(r)
    <2> DEFINE n == [q EXCEPT !.pc = "create"]
    <2>1. /\ n.calls = q.calls /\ n.draft = q.draft /\ n.key = q.key
          /\ n.domain = q.domain /\ n.rows = q.rows /\ n.carried = q.carried /\ n.pc = "create"
      BY <1>0 DEF Request
    <2>2. q.pc = "unlink" /\ disk.kind = "built" /\ q.carried = disk.draft
      BY <1>1, <1>6 DEF Unlink, At, FileAt
    <2>3. req'[r] = n
      BY <1>6, <2>2 DEF Unlink
    <2>4. disk'.kind = "none"
      BY <1>6 DEF Unlink, Unbuilt
    <2> HIDE DEF n
    <2>5. Drafts' = Drafts
      BY <1>2, <2>1, <2>2, <2>3 DEF Building
    <2>6. FileAt(r)'
      BY <2>1, <2>3, <2>4 DEF FileAt
    <2>7. ReadSo(r)'
      BY <1>1, <2>1, <2>3, <2>5, ReadSoKept
    <2> QED
      BY <1>0, <1>1, <2>3, <2>4, <2>5, <2>6, <2>7, SerialTurn DEF BufferVars
  <1>7. CASE Create(r)
    <2> DEFINE n == [q EXCEPT !.pc = "ingest", !.open = "linked"]
    <2>1. /\ n.calls = q.calls /\ n.draft = q.draft /\ n.key = q.key /\ n.domain = q.domain
          /\ n.rows = q.rows /\ n.carried = q.carried /\ n.pc = "ingest" /\ n.open = "linked"
      BY <1>0 DEF Request
    <2>2. q.pc = "create" /\ disk.kind = "none"
      BY <1>1, <1>7 DEF Create, At, FileAt
    <2>3. Proceeds(r, n) /\ disk' = Unbuilt("bare")
      BY <1>7, <2>2 DEF Create, HasTables
    <2>4. disk'.kind = "bare" /\ disk'.draft = NoDrafts
      BY <2>3 DEF Unbuilt
    <2> HIDE DEF n
    <2>5. req'[r] = n
      BY <1>0, <2>3 DEF Proceeds
    <2>6. Drafts' = Drafts
      BY <1>2, <2>1, <2>2, <2>5 DEF Building
    <2>7. FileAt(r)'
      BY <2>1, <2>4, <2>5 DEF FileAt
    <2> QED
      BY <1>3, <2>1, <2>3, <2>6, <2>7
  <1>8. CASE Ingest(r) /\ Materializes(sources)
    <2> DEFINE n == [q EXCEPT !.pc = "publish", !.tables = Authored(sources)]
    <2>1. /\ n.calls = q.calls /\ n.draft = q.draft /\ n.key = q.key /\ n.domain = q.domain
          /\ n.rows = q.rows /\ n.carried = q.carried /\ n.pc = "publish" /\ n.open = q.open
      BY <1>0 DEF Request
    <2>2. q.pc = "ingest" /\ Proceeds(r, n) /\ disk' = disk
      BY <1>1, <1>8 DEF Ingest, At
    <2> HIDE DEF n
    <2>3. req'[r] = n
      BY <1>0, <2>2 DEF Proceeds
    <2>4. Drafts' = Drafts
      BY <1>2, <2>1, <2>2, <2>3 DEF Building
    <2>5. FileAt(r)'
      BY <1>1, <2>1, <2>2, <2>3 DEF FileAt
    <2> QED
      BY <1>3, <2>1, <2>2, <2>4, <2>5
  <1>9. CASE Ingest(r) /\ ~Materializes(sources)
    <2>1. q.pc = "ingest" /\ disk' = disk /\ Proceeds(r, Idle)
      BY <1>9 DEF Ingest, At, Fails
    <2>2. disk.kind = "bare" /\ disk.draft = NoDrafts
      BY <1>1, <2>1 DEF FileAt
    <2>3. \A x \in Requests : req'[x].pc = "idle"
      <3>1. req'[r].pc = "idle"
        BY <1>0, <2>1 DEF Proceeds, Idle
      <3> QED
        BY <1>0, <3>1, Alone
    <2>4. ~Materializes(sources)'
      BY <1>1, <1>9 DEF Materializes
    <2> QED
      BY <2>1, <2>2, <2>3, <2>4 DEF Lost
  <1>10. CASE Publish(r)
    <2> DEFINE n == [q EXCEPT !.pc = "query", !.open = "no", !.carried = NoDrafts, !.tables = {}]
    <2>1. /\ n.calls = q.calls /\ n.draft = q.draft /\ n.key = q.key /\ n.domain = q.domain
          /\ n.rows = q.rows /\ n.pc = "query"
      BY <1>0 DEF Request
    <2>2. q.pc = "publish" /\ q.open = "linked"
      BY <1>1, <1>10 DEF Publish, At, FileAt
    <2>3. Proceeds(r, n) /\ disk'.kind = "built" /\ disk'.meta = sources /\ disk'.draft = q.carried
      BY <1>10, <2>2 DEF Publish
    <2> HIDE DEF n
    <2>4. req'[r] = n
      BY <1>0, <2>3 DEF Proceeds
    <2>5. Drafts' = Drafts
      BY <1>2, <2>1, <2>2, <2>3, <2>4 DEF Building
    <2>6. FileAt(r)'
      BY <1>1, <2>1, <2>3, <2>4 DEF FileAt
    <2> QED
      BY <1>3, <2>1, <2>3, <2>5, <2>6
  <1> QED
    BY <1>4, <1>5, <1>6, <1>7, <1>8, <1>9, <1>10

\* The buffer's rules are this module's own.
LEMMA BufferRules ==
    /\ \A rows, k : Opened(rows, k) = Buffer!Opened(rows, k)
    /\ \A rows : Promoted(rows) = Buffer!Promoted(rows)
    /\ \A rows : OpenRows(rows) = Buffer!OpenRows(rows)
    /\ \A s : Authored(s) = Buffer!Authored(s)
    /\ \A s : Materializes(s) <=> Buffer!Materializes(s)
    /\ AppCode = Buffer!AppCode /\ NoRows = Buffer!NoRows /\ NoDrafts = Buffer!NoDrafts
  BY DEF Opened, Buffer!Opened, Promoted, Buffer!Promoted, OpenRows, Buffer!OpenRows, Authored,
     Buffer!Authored, Materializes, Buffer!Materializes, AppCode, Buffer!AppCode, Domains,
     Buffer!Domains, Override, Buffer!Override, NoRows, Buffer!NoRows, NoDrafts, Buffer!NoDrafts

LEMMA BufferAppends == \A s, diff : Appended(s, diff) = Buffer!Appended(s, diff)
  BY SameSets DEF Appended, Buffer!Appended

\* A query that leaves the drafts as they are, and answers or goes on.
LEMMA ReadSerial ==
    ASSUME Serial, Followed, MaxInFlight = 1, NEW r \in Requests,
           \/ Existing(r) \/ OpenToWrite(r) \/ Receipt(r)
           \/ DraftDomain(r) \/ Payloads(r) \/ List(r)
    PROVE  Followed' /\ UNCHANGED BufferVars
  <1> DEFINE q == req[r]
             d == req[r].draft
  <1>0. /\ Typed /\ RequestsOK /\ Step(r) /\ q \in Request /\ Shaped(q)
        /\ req \in [Requests -> Request] /\ OneAtATime /\ (EditsMidRequest \/ StampInv)
    BY DEF Serial, SerialInv, Typed, RequestsOK, Step
  <1>1. /\ UNCHANGED <<sources, diffs, landed>> /\ q.pc = "query" /\ Call(r) = Head(q.calls)
        /\ FileAt(r) /\ ReadSo(r)
    BY <1>0 DEF Existing, OpenToWrite, Receipt, DraftDomain, Payloads, List, At, Outside, Call,
       Followed, Busy
  <1>2. disk.kind = "built" /\ (EditsMidRequest \/ disk.meta = sources) /\ HasTables
    BY <1>1 DEF FileAt, HasTables
  <1>3. disk' = disk
    BY <1>2 DEF Existing, OpenToWrite, Receipt, DraftDomain, Payloads, List
  <1>4. /\ Drafts = disk.draft
        /\ Drafts' = IF req'[r].pc \in Building THEN req'[r].carried ELSE disk'.draft
    BY <1>0, <1>1, Alone, DraftsAre DEF Building
  <1>5. ASSUME Proceeds(r, Idle) PROVE Followed' /\ UNCHANGED BufferVars
    <2>1. req'[r].pc = "idle"
      BY <1>0, <1>5 DEF Proceeds, Idle
    <2>2. Drafts' = Drafts
      BY <1>3, <1>4, <2>1 DEF Building
    <2> QED
      BY <1>0, <1>1, <1>2, <1>3, <2>1, <2>2, SerialTurn DEF BufferVars
  <1>6. ASSUME NEW n, Proceeds(r, n), n.pc = "check",
               Drafts' = Drafts /\ req'[r] = n => ReadSo(r)'
        PROVE  Followed' /\ UNCHANGED BufferVars
    <2>1. req'[r] = n
      BY <1>0, <1>6 DEF Proceeds
    <2>2. Drafts' = Drafts
      BY <1>3, <1>4, <1>6, <2>1 DEF Building
    <2>3. FileAt(r)'
      BY <1>2, <1>3, <1>6, <2>1 DEF FileAt
    <2> QED
      BY <1>0, <1>1, <1>6, <2>1, <2>2, <2>3, SerialTurn DEF BufferVars
  <1>7. CASE Existing(r)
    <2> DEFINE n == NextCall(q)
    <2>1. q.calls = <<"existing", "add", "pending">>
      BY <1>0, <1>1, <1>7, CallKinds DEF Existing
    <2>2. Len(q.calls) # 1 /\ Tail(q.calls) = <<"add", "pending">>
      BY <2>1, CallsInOrder, CallsCounted
    <2>3. /\ n.calls = <<"add", "pending">> /\ n.pc = "check" /\ n.draft = d /\ n.key = q.key
      <3>1. <<"add", "pending">> \in Seq(Names)
        BY CallsTyped DEF Drafting
      <3> QED
        BY <1>0, <2>2, <3>1, NextCallMoves
    <2>4. CASE DomainOf[q.key] = AppCode /\ q.key \in disk.tables
      BY <1>2, <1>5, <1>7, <2>4 DEF Existing, Answers
    <2>5. CASE ~(DomainOf[q.key] = AppCode /\ q.key \in disk.tables)
      <3>1. Proceeds(r, n)
        BY <1>2, <1>7, <2>5 DEF Existing, Answers
      <3>2. DomainOf[q.key] = AppCode => EditsMidRequest \/ q.key \notin Authored(sources)
        BY <1>0, <1>2, <2>5 DEF StampInv
      <3>3. Len(Drafts[d]) < MaxRows /\ (DomainOf[q.key] = AppCode => Drafts[d] = <<>>)
        BY <1>1, <2>1 DEF ReadSo
      <3>4. /\ <<"add", "pending">> # <<"payloads", "mark">>
            /\ <<"add", "pending">> # <<"mark">>
        OBVIOUS
      <3> HIDE DEF n
      <3>5. ASSUME Drafts' = Drafts, req'[r] = n PROVE ReadSo(r)'
        BY <1>1, <2>3, <3>2, <3>3, <3>4, <3>5 DEF ReadSo, Authored
      <3> QED
        BY <1>6, <2>3, <3>1, <3>5
    <2> QED
      BY <2>4, <2>5
  <1>8. CASE OpenToWrite(r)
    <2> DEFINE start == IF Call(r) = "add" THEN Len(disk.draft[d]) ELSE 0
               n == [q EXCEPT !.pc = "write", !.open = "linked", !.start = start]
    <2>1. Proceeds(r, n)
      BY <1>2, <1>8 DEF OpenToWrite, Answers
    <2>2. Call(r) = "add" => start = Len(disk.draft[d])
      OBVIOUS
    <2> HIDE DEF start
    <2>3. /\ n.calls = q.calls /\ n.draft = d /\ n.key = q.key /\ n.domain = q.domain
          /\ n.rows = q.rows /\ n.pc = "write" /\ n.open = "linked" /\ n.start = start
      BY <1>0 DEF Request
    <2> HIDE DEF n
    <2>4. req'[r] = n
      BY <1>0, <2>1 DEF Proceeds
    <2>5. Drafts' = Drafts
      BY <1>3, <1>4, <2>3, <2>4 DEF Building
    <2>6. FileAt(r)'
      BY <1>1, <1>2, <1>3, <2>2, <2>3, <2>4 DEF FileAt
    <2>7. ReadSo(r)'
      BY <1>1, <2>3, <2>4, <2>5, ReadSoKept
    <2> QED
      BY <1>0, <1>1, <2>3, <2>4, <2>5, <2>6, <2>7, SerialTurn DEF BufferVars
  <1>9. CASE Receipt(r) \/ List(r)
    <2>1. q.calls \in {<<"pending">>, <<"read">>}
      BY <1>0, <1>1, <1>9, CallKinds DEF Receipt, List
    <2>2. NextCall(q) = Idle
      BY <2>1, CallsCounted, LastCall
    <2> QED
      BY <1>5, <1>9, <2>2 DEF Receipt, List, Answers
  <1>10. CASE DraftDomain(r)
    <2> DEFINE rows == disk.draft[d]
               v == DomainOf[rows[1].key]
               n == [NextCall(q) EXCEPT !.domain = v]
    <2>1. q.calls = <<"domain", "payloads", "mark">>
      BY <1>0, <1>1, <1>10, CallKinds DEF DraftDomain
    <2>2. Len(q.calls) # 1 /\ Tail(q.calls) = <<"payloads", "mark">>
      BY <2>1, CallsInOrder, CallsCounted
    <2>3. /\ NextCall(q) \in Request /\ NextCall(q).calls = <<"payloads", "mark">>
          /\ NextCall(q).draft = d /\ NextCall(q).pc = "check"
      <3>1. <<"payloads", "mark">> \in Seq(Names)
        BY CallsTyped DEF Promoting
      <3> QED
        BY <1>0, <2>2, <3>1, NextCallMoves
    <2>4. Proceeds(r, Idle) \/ Proceeds(r, n)
      BY <1>10 DEF DraftDomain, Answers
    <2>5. v = DomainOf[Drafts[d][1].key]
      BY <1>4
    <2> HIDE DEF v
    <2>6. n.calls = <<"payloads", "mark">> /\ n.draft = d /\ n.pc = "check" /\ n.domain = v
      BY <2>3 DEF Request
    <2> HIDE DEF n
    <2>7. /\ <<"payloads", "mark">> # <<"add", "pending">>
          /\ <<"payloads", "mark">> # <<"existing", "add", "pending">>
          /\ <<"payloads", "mark">> # <<"mark">>
      OBVIOUS
    <2>8. ASSUME Drafts' = Drafts, req'[r] = n PROVE ReadSo(r)'
      BY <2>5, <2>6, <2>7, <2>8 DEF ReadSo
    <2> QED
      BY <1>5, <1>6, <2>4, <2>6, <2>8
  <1>11. CASE Payloads(r)
    <2> DEFINE rows == OpenRows(disk.draft[d])
               n == [NextCall(q) EXCEPT !.rows = rows]
    <2>1. q.calls = <<"payloads", "mark">>
      BY <1>0, <1>1, <1>11, CallKinds DEF Payloads
    <2>2. Len(q.calls) # 1 /\ Tail(q.calls) = <<"mark">>
      BY <2>1, CallsInOrder, CallsCounted
    <2>3. /\ NextCall(q) \in Request /\ NextCall(q).calls = <<"mark">>
          /\ NextCall(q).draft = d /\ NextCall(q).pc = "check" /\ NextCall(q).domain = q.domain
      <3>1. <<"mark">> \in Seq(Names)
        BY CallsTyped DEF Promoting
      <3> QED
        BY <1>0, <2>2, <3>1, NextCallMoves
    <2>4. Proceeds(r, Idle) \/ (rows # {} /\ Proceeds(r, n))
      BY <1>11 DEF Payloads, Answers
    <2>5. rows = OpenRows(Drafts[d]) /\ q.domain = DomainOf[Drafts[d][1].key]
      BY <1>1, <1>4, <2>1 DEF ReadSo
    <2> HIDE DEF rows
    <2>6. /\ n.calls = <<"mark">> /\ n.draft = d /\ n.pc = "check" /\ n.domain = q.domain
          /\ n.rows = rows
      BY <2>3 DEF Request
    <2> HIDE DEF n
    <2>7. /\ <<"mark">> # <<"add", "pending">>
          /\ <<"mark">> # <<"existing", "add", "pending">>
      OBVIOUS
    <2>8. ASSUME rows # {}, Drafts' = Drafts, req'[r] = n PROVE ReadSo(r)'
      <3>1. /\ req'[r].calls = <<"mark">> /\ Drafts'[req'[r].draft] = Drafts[d]
            /\ req'[r].domain = q.domain /\ req'[r].rows = rows
        BY <2>6, <2>8
      <3> QED
        BY <2>5, <2>7, <2>8, <3>1 DEF ReadSo
    <2> QED
      BY <1>5, <1>6, <2>4, <2>6, <2>8
  <1> QED
    BY <1>7, <1>8, <1>9, <1>10, <1>11

\* The one step of a drafting request that the buffer sees.
LEMMA AddSerial ==
    ASSUME Serial, Followed, MaxInFlight = 1, NEW r \in Requests, Add(r)
    PROVE  Followed' /\ \E d \in DraftIds, k \in Keys :
                            Promise!Opens(d, k) /\ (EditsMidRequest \/ Buffer!Draft(d, k))
  <1> DEFINE q == req[r]
             d == req[r].draft
             n == NextCall(q)
             rows == Opened(disk.draft[d], q.key)
  <1>0. /\ Typed /\ RequestsOK /\ Step(r) /\ q \in Request /\ Shaped(q)
        /\ req \in [Requests -> Request] /\ OneAtATime /\ disk \in File
    BY DEF Serial, SerialInv, Typed, TablesOK, RequestsOK, Step
  <1>1. /\ UNCHANGED <<sources, diffs, landed>> /\ q.pc = "write" /\ Head(q.calls) = "add"
        /\ FileAt(r) /\ ReadSo(r)
    BY <1>0 DEF Add, At, Outside, Call, Followed, Busy
  <1>2. /\ disk.kind = "built" /\ (EditsMidRequest \/ disk.meta = sources) /\ q.open = "linked"
        /\ q.start = Len(disk.draft[d])
    BY <1>1 DEF FileAt
  <1>3. q.calls = <<"add", "pending">> /\ d \in DraftIds /\ q.key \in Keys
    BY <1>0, <1>1, CallKinds
  <1>4. n.calls = <<"pending">> /\ n.pc = "check"
    <2>1. Len(q.calls) # 1 /\ Tail(q.calls) = <<"pending">>
      BY <1>3, CallsInOrder, CallsCounted
    <2>2. <<"pending">> \in Seq(Names)
      BY CallsTyped DEF Drafting
    <2> QED
      BY <1>0, <2>1, <2>2, NextCallMoves
  <1>5. Proceeds(r, n) /\ disk' = [disk EXCEPT !.draft[d] = rows]
    BY <1>2 DEF Add
  <1> HIDE DEF n, rows
  <1>6. /\ disk'.kind = disk.kind /\ disk'.meta = disk.meta
        /\ disk'.draft = [disk.draft EXCEPT ![d] = rows]
    BY <1>0, <1>5 DEF File
  <1>7. req'[r] = n
    BY <1>0, <1>5 DEF Proceeds
  <1>8. Drafts = disk.draft /\ Drafts' = disk'.draft
    <2>1. /\ Drafts = IF req[r].pc \in Building THEN req[r].carried ELSE disk.draft
          /\ Drafts' = IF req'[r].pc \in Building THEN req'[r].carried ELSE disk'.draft
      BY <1>0, Alone, DraftsAre
    <2> QED
      BY <1>1, <1>4, <1>7, <2>1 DEF Building
  <1>9. FileAt(r)' /\ ReadSo(r)'
    <2>1. FileAt(r)'
      BY <1>2, <1>4, <1>6, <1>7 DEF FileAt
    <2>2. /\ <<"pending">> # <<"add", "pending">> /\ <<"pending">> # <<"mark">>
          /\ <<"pending">> # <<"existing", "add", "pending">>
          /\ <<"pending">> # <<"payloads", "mark">>
      OBVIOUS
    <2>3. ReadSo(r)'
      BY <1>4, <1>7, <2>2 DEF ReadSo
    <2> QED
      BY <2>1, <2>3
  <1>10. Followed'
    BY <1>0, <1>2, <1>6, <1>9, SerialTurn
  <1>11. /\ Len(Drafts[d]) < MaxRows
         /\ DomainOf[q.key] = AppCode =>
               Drafts[d] = <<>> /\ (EditsMidRequest \/ q.key \notin Authored(sources))
    BY <1>1, <1>3 DEF ReadSo
  <1>12. Drafts' = [Drafts EXCEPT ![d] = Opened(Drafts[d], q.key)]
    BY <1>6, <1>8 DEF rows
  <1>13. EditsMidRequest \/ Buffer!Draft(d, q.key)
    BY <1>1, <1>11, <1>12, BufferRules DEF Buffer!Draft
  <1>14. Promise!Opens(d, q.key)
    BY <1>1, <1>12, SameRows DEF Promise!Opens
  <1> QED
    BY <1>3, <1>10, <1>13, <1>14

LEMMA MarkSerial ==
    ASSUME Serial, Followed, MaxInFlight = 1, NEW r \in Requests, Mark(r)
    PROVE  Followed' /\ \E d \in DraftIds : Buffer!Promote(d)
  <1> DEFINE q == req[r]
             d == req[r].draft
             rows == Promoted(disk.draft[d])
  <1>0. /\ Typed /\ RequestsOK /\ Step(r) /\ q \in Request /\ Shaped(q)
        /\ req \in [Requests -> Request] /\ OneAtATime /\ disk \in File
    BY DEF Serial, SerialInv, Typed, TablesOK, RequestsOK, Step
  <1>1. /\ UNCHANGED <<sources, landed>> /\ q.pc = "write" /\ Head(q.calls) = "mark"
        /\ FileAt(r) /\ ReadSo(r)
    BY <1>0 DEF Mark, At, Call, Followed, Busy
  <1>2. disk.kind = "built" /\ q.open = "linked"
    BY <1>1 DEF FileAt
  <1>3. q.calls = <<"mark">> /\ d \in DraftIds
    BY <1>0, <1>1, CallKinds
  <1>4. NextCall(q) = Idle
    BY <1>3, CallsCounted, LastCall
  <1>5. Proceeds(r, Idle) /\ disk' = [disk EXCEPT !.draft[d] = rows]
        /\ diffs' = diffs \union {[draft |-> d, domain |-> q.domain, rows |-> q.rows]}
    BY <1>2, <1>4 DEF Mark
  <1> HIDE DEF rows
  <1>6. disk'.kind = disk.kind /\ disk'.draft = [disk.draft EXCEPT ![d] = rows]
    BY <1>0, <1>5 DEF File
  <1>7. req'[r].pc = "idle"
    BY <1>0, <1>5 DEF Proceeds, Idle
  <1>8. Drafts = disk.draft /\ Drafts' = disk'.draft
    <2>1. /\ Drafts = IF req[r].pc \in Building THEN req[r].carried ELSE disk.draft
          /\ Drafts' = IF req'[r].pc \in Building THEN req'[r].carried ELSE disk'.draft
      BY <1>0, Alone, DraftsAre
    <2> QED
      BY <1>1, <1>7, <2>1 DEF Building
  <1>9. Followed'
    BY <1>0, <1>2, <1>6, <1>7, SerialTurn
  <1>10. /\ q.domain = DomainOf[Drafts[d][1].key]
         /\ q.rows = OpenRows(Drafts[d]) /\ OpenRows(Drafts[d]) # {}
    BY <1>1, <1>3 DEF ReadSo
  <1>11. Drafts' = [Drafts EXCEPT ![d] = Promoted(Drafts[d])]
    BY <1>6, <1>8 DEF rows
  <1>12. Buffer!Promote(d)
    BY <1>1, <1>5, <1>10, <1>11, BufferRules DEF Buffer!Promote
  <1> QED
    BY <1>3, <1>9, <1>12

\* A request arrives when nobody else is served.
LEMMA BeginsSerial ==
    ASSUME Serial, Followed, MaxInFlight = 1, NEW r \in Requests, Begins(r)
    PROVE  Followed' /\ UNCHANGED BufferVars
  <1> DEFINE q == req[r]
  <1>0. /\ Typed /\ RequestsOK /\ req \in [Requests -> Request] /\ OneAtATime
    BY DEF Serial, SerialInv, Typed, RequestsOK
  <1>1. UNCHANGED <<disk, sources, diffs, landed>> /\ q.pc = "idle"
    BY DEF Begins, BeginDraft, BeginPromote, BeginList, Arrives, Outside, At
  <1>2. PICK op \in {"draft", "promote", "list"}, d \in DraftIds \union {<<>>},
             k \in Keys \union {<<>>} :
           /\ Arrives(r, op, d, k)
           /\ op = "draft" => /\ Len(disk.draft[d]) < MaxRows
                              /\ DomainOf[k] = AppCode => disk.draft[d] = <<>>
    BY DEF Begins, BeginDraft, BeginPromote, BeginList, NewId
  <1>3. /\ req'[r].calls = Calls(op) /\ req'[r].pc = "check"
        /\ req'[r].draft = d /\ req'[r].key = k
    BY <1>0, <1>2, Arrived
  <1>4. \A x \in Requests \ {r} : req[x].pc = "idle" /\ req'[x].pc = "idle"
    BY <1>0, Alone
  <1>5. Drafts = disk.draft /\ Drafts' = disk.draft
    BY <1>1, <1>3, <1>4, DraftsAre DEF Building
  <1>6. disk.kind \in {"none", "built"}
    BY <1>0, <1>1, <1>4 DEF Followed, Busy
  <1>7. FileAt(r)'
    BY <1>1, <1>3, <1>6 DEF FileAt
  <1>8. ReadSo(r)'
    <2>1. /\ op = "draft" => req'[r].calls = <<"existing", "add", "pending">>
          /\ op = "promote" => req'[r].calls = <<"domain", "payloads", "mark">>
          /\ op = "list" => req'[r].calls = <<"read">>
      BY <1>3 DEF Calls
    <2>2. /\ <<"existing", "add", "pending">> \notin
                {<<"add", "pending">>, <<"payloads", "mark">>, <<"mark">>}
          /\ <<"domain", "payloads", "mark">> \notin
                {<<"existing", "add", "pending">>, <<"add", "pending">>, <<"payloads", "mark">>,
                 <<"mark">>}
          /\ <<"read">> \notin
                {<<"existing", "add", "pending">>, <<"add", "pending">>, <<"payloads", "mark">>,
                 <<"mark">>}
      OBVIOUS
    <2>3. op = "draft" => /\ Len(Drafts'[req'[r].draft]) < MaxRows
                          /\ DomainOf[req'[r].key] = AppCode => Drafts'[req'[r].draft] = <<>>
      BY <1>2, <1>3, <1>5
    <2> QED
      BY <1>2, <2>1, <2>2, <2>3 DEF ReadSo
  <1> QED
    BY <1>0, <1>1, <1>3, <1>5, <1>7, <1>8, SerialTurn DEF BufferVars

LEMMA SameBufferVars == UNCHANGED BufferVars => UNCHANGED Buffer!vars
  BY DEF BufferVars, Buffer!vars

\* One request at a time is what the slots allow.
LEMMA OneStays ==
    ASSUME Typed, OneAtATime, MaxInFlight = 1, [Next]_vars
    PROVE  OneAtATime'
  <1>1. ASSUME NEW r \in Requests, Step(r) \/ Begins(r) PROVE OneAtATime'
    <2>1. \A x \in Requests \ {r} : req'[x].pc = "idle"
      BY <1>1, Alone
    <2> QED
      BY <2>1 DEF OneAtATime
  <1>2. CASE Edit \/ (\E diff \in diffs : Apply(diff)) \/ UNCHANGED vars
    BY <1>2 DEF Edit, Apply, vars, OneAtATime
  <1> QED
    BY <1>1, <1>2 DEF Next, Begins

\* Rows are only ever added to the sources.
LEMMA SourcesGrow ==
    ASSUME Typed, [Next]_vars
    PROVE  \A m \in Domains, k \in Keys :
              /\ sources.rows[m][k] \in Nat /\ sources'.rows[m][k] \in Nat
              /\ sources.rows[m][k] <= sources'.rows[m][k]
  <1>0. sources \in Sources /\ \A m \in Domains, k \in Keys : sources.rows[m][k] \in Nat
    BY DEF Typed, TablesOK, Sources
  <1>1. ASSUME NEW diff \in diffs, Apply(diff), NEW m \in Domains, NEW k \in Keys
        PROVE  /\ sources'.rows[m][k] \in Nat
               /\ sources.rows[m][k] <= sources'.rows[m][k]
    <2>1. diff.domain \in Domains /\ IsFiniteSet(diff.rows)
      BY DEF Typed, TablesOK, FiniteDiffs, Diff
    <2> DEFINE new == Cardinality({x \in diff.rows : x[2] = k})
    <2>2. new \in Nat
      <3>1. IsFiniteSet({x \in diff.rows : x[2] = k})
        BY <2>1, FS_Subset
      <3> QED
        BY <3>1, FS_CardinalityType
    <2>3. /\ m = diff.domain => sources'.rows[m][k] = sources.rows[m][k] + new
          /\ m # diff.domain => sources'.rows[m][k] = sources.rows[m][k]
      BY <1>0, <1>1, <2>1 DEF Apply, Appended, Sources
    <2> HIDE DEF new
    <2> QED
      BY <1>0, <2>2, <2>3
  <1>2. CASE Edit
    <2>1. sources'.rows = sources.rows
      BY <1>0, <1>2 DEF Edit, Sources
    <2> QED
      BY <1>0, <2>1
  <1>3. ASSUME sources' = sources
        PROVE  \A m \in Domains, k \in Keys : sources'.rows[m][k] = sources.rows[m][k]
    BY <1>3
  <1>4. \/ sources' = sources \/ Edit \/ \E diff \in diffs : Apply(diff)
    BY DEF Next, vars, BeginDraft, BeginPromote, BeginList, Arrives, Step, Check, Carry, Unlink,
       Create, Ingest, Publish, Existing, OpenToWrite, Add, Receipt, DraftDomain, Payloads, Mark,
       List, Outside
  <1> QED
    BY <1>0, <1>1, <1>2, <1>3, <1>4

LEMMA RefusedStays ==
    ASSUME Typed, ~Materializes(sources), [Next]_vars
    PROVE  ~Materializes(sources)'
  <1>1. PICK m \in Domains, k \in Keys :
           ~ /\ sources.rows[m][k] > 0 => DomainOf[k] = m
             /\ m = AppCode => sources.rows[m][k] <= 1
    BY DEF Materializes
  <1>2. /\ sources.rows[m][k] \in Nat /\ sources'.rows[m][k] \in Nat
        /\ sources.rows[m][k] <= sources'.rows[m][k]
    BY SourcesGrow
  <1>3. ~ /\ sources'.rows[m][k] > 0 => DomainOf[k] = m
          /\ m = AppCode => sources'.rows[m][k] <= 1
    BY <1>1, <1>2
  <1> QED
    BY <1>3 DEF Materializes

\* Files that are reviewed before they are committed stay acceptable.
LEMMA ReviewedStays ==
    ASSUME Typed, Reviewed => Materializes(sources), [Next]_vars
    PROVE  Reviewed => Materializes(sources)'
  <1>1. CASE \E diff \in diffs : Apply(diff)
    BY <1>1 DEF Apply, Materializes
  <1>2. CASE Edit
    <2>1. sources'.rows = sources.rows
      BY <1>2 DEF Edit, Typed, TablesOK, Sources
    <2> QED
      BY <2>1 DEF Materializes
  <1>3. CASE sources' = sources
    BY <1>3 DEF Materializes
  <1>4. \/ sources' = sources \/ Edit \/ \E diff \in diffs : Apply(diff)
    BY DEF Next, vars, BeginDraft, BeginPromote, BeginList, Arrives, Step, Check, Carry, Unlink,
       Create, Ingest, Publish, Existing, OpenToWrite, Add, Receipt, DraftDomain, Payloads, Mark,
       List, Outside
  <1> QED
    BY <1>1, <1>2, <1>3, <1>4

\* What is lost is not found again.
LEMMA LostStays ==
    ASSUME Typed, Lost, [Next]_vars
    PROVE  Lost'
  <1>0. RequestsOK /\ req \in [Requests -> Request] /\ disk \in File
    BY DEF Typed, TablesOK, RequestsOK
  <1>1. ~Materializes(sources)'
    BY RefusedStays DEF Lost
  <1>2. ASSUME disk'.kind # "built", disk'.draft = NoDrafts, NEW r \in Requests,
               Step(r) \/ Begins(r), req'[r].pc \notin {"publish", "query", "write"},
               req'[r].pc \in {"unlink", "create", "ingest"} => req'[r].carried = NoDrafts
        PROVE  Lost'
    <2>1. \A x \in Requests \ {r} : req'[x].pc = req[x].pc /\ req'[x].carried = req[x].carried
      BY <1>0, <1>2, OthersKeep
    <2> QED
      BY <1>1, <1>2, <2>1 DEF Lost
  <1>3. ASSUME NEW r \in Requests, Begins(r) PROVE Lost'
    <2>1. UNCHANGED disk /\ At(r, "idle")
      BY <1>3 DEF Begins, BeginDraft, BeginPromote, BeginList, Arrives
    <2>2. req'[r].pc = "check"
      <3>1. PICK op \in {"draft", "promote", "list"}, d \in DraftIds \union {<<>>},
                 k \in Keys \union {<<>>} : Arrives(r, op, d, k)
        BY <1>3 DEF Begins, BeginDraft, BeginPromote, BeginList
      <3> QED
        BY <1>0, <3>1, Arrived
    <2> QED
      BY <1>2, <1>3, <2>1, <2>2 DEF Lost
  <1>4. ASSUME NEW r \in Requests, Step(r) PROVE Lost'
    <2> DEFINE q == req[r]
    <2>0. q \in Request /\ q.pc \notin {"publish", "query", "write"}
      BY <1>0 DEF Lost
    <2>1. Check(r) \/ Carry(r) \/ Unlink(r) \/ Create(r) \/ Ingest(r)
      BY <1>4, <2>0 DEF Step, Publish, Existing, OpenToWrite, Add, Receipt, DraftDomain, Payloads,
         Mark, List, At
    <2>2. ASSUME NEW n, req'[r] = n, disk'.kind # "built", disk'.draft = NoDrafts,
                 n.pc \notin {"publish", "query", "write"},
                 n.pc \in {"unlink", "create", "ingest"} => n.carried = NoDrafts
          PROVE  Lost'
      BY <1>2, <1>4, <2>2
    <2>3. Idle.pc = "idle"
      BY DEF Idle
    <2>4. /\ disk.kind # "built" /\ disk.draft = NoDrafts
          /\ \A kind \in {"none", "bare"} :
                Unbuilt(kind).kind # "built" /\ Unbuilt(kind).draft = NoDrafts
      BY DEF Lost, Unbuilt
    <2>5. CASE Check(r)
      <3> DEFINE n == [q EXCEPT !.pc = "carry"]
      <3>1. Proceeds(r, n) /\ disk' = disk
        BY <2>4, <2>5 DEF Check
      <3>2. n.pc = "carry"
        BY <2>0 DEF Request
      <3> HIDE DEF n
      <3> QED
        BY <1>0, <2>2, <2>4, <3>1, <3>2 DEF Proceeds
    <2>6. CASE Carry(r)
      <3> DEFINE to == IF disk.kind = "none" THEN "create" ELSE "unlink"
                 n == [q EXCEPT !.pc = to, !.carried = disk.draft]
      <3>1. Proceeds(r, n) /\ disk' = disk
        BY <2>6 DEF Carry
      <3>2. n.pc \in {"create", "unlink"} /\ n.carried = NoDrafts
        BY <2>0, <2>4 DEF Request
      <3> HIDE DEF n
      <3> QED
        BY <1>0, <2>2, <2>4, <3>1, <3>2 DEF Proceeds
    <2>7. CASE Unlink(r)
      <3> DEFINE n == [q EXCEPT !.pc = "create"]
      <3>1. disk' = Unbuilt("none") /\ q.pc = "unlink"
        BY <2>7 DEF Unlink, At
      <3>2. req'[r] = Idle \/ req'[r] = n
        BY <1>0, <2>7 DEF Unlink, Fails, Proceeds
      <3>3. n.pc = "create" /\ n.carried = NoDrafts
        BY <2>0, <3>1 DEF Request, Lost
      <3> HIDE DEF n
      <3> QED
        BY <2>2, <2>3, <2>4, <3>1, <3>2, <3>3
    <2>8. CASE Create(r)
      <3> DEFINE n == [q EXCEPT !.pc = "ingest", !.open = "linked"]
      <3>1. /\ disk' = disk \/ disk' = Unbuilt("bare")
            /\ Proceeds(r, Idle) \/ Proceeds(r, n)
            /\ q.pc = "create"
        BY <2>8 DEF Create, Fails, At
      <3>2. n.pc = "ingest" /\ n.carried = NoDrafts
        BY <2>0, <3>1 DEF Request, Lost
      <3> HIDE DEF n
      <3>3. req'[r] = Idle \/ req'[r] = n
        BY <1>0, <3>1 DEF Proceeds
      <3> QED
        BY <2>2, <2>3, <2>4, <3>1, <3>2, <3>3
    <2>9. CASE Ingest(r)
      <3>1. Proceeds(r, Idle) /\ disk' = disk
        BY <2>9 DEF Ingest, Fails, Lost
      <3>2. req'[r] = Idle
        BY <1>0, <3>1 DEF Proceeds
      <3> QED
        BY <2>2, <2>3, <2>4, <3>1, <3>2
    <2> QED
      BY <2>1, <2>5, <2>6, <2>7, <2>8, <2>9
  <1>5. CASE Edit \/ (\E diff \in diffs : Apply(diff)) \/ UNCHANGED vars
    BY <1>1, <1>5 DEF Edit, Apply, vars, Lost
  <1> QED
    BY <1>3, <1>4, <1>5 DEF Next, Begins

\* What a step does to the drafts and diffs, whatever becomes of the sources.
Moves ==
    \/ UNCHANGED <<Drafts, diffs>>
    \/ \E d \in DraftIds, k \in Keys : Promise!Opens(d, k)
    \/ \E d \in DraftIds : Buffer!Promote(d)

\* Every step of the store is one of the buffer or none, unless a rebuild fails
\* (or, of a draft's duplicate check, a source changes after it).
LEMMA NextFollowed ==
    ASSUME Serial, Followed, MaxInFlight = 1, [Next]_vars
    PROVE  \/ Lost'
           \/ Followed' /\ Moves /\ (EditsMidRequest \/ [Buffer!Next]_(Buffer!vars))
  <1>1. ASSUME Followed', UNCHANGED BufferVars
        PROVE  Followed' /\ Moves /\ [Buffer!Next]_(Buffer!vars)
    BY <1>1, SameBufferVars DEF Moves, BufferVars
  <1>2. ASSUME NEW r \in Requests, Begins(r)
        PROVE  Followed' /\ Moves /\ [Buffer!Next]_(Buffer!vars)
    BY <1>1, <1>2, BeginsSerial
  <1>3. ASSUME NEW r \in Requests,
               \/ Check(r) \/ Carry(r) \/ Unlink(r) \/ Create(r) \/ Ingest(r) \/ Publish(r)
        PROVE  Lost' \/ (Followed' /\ Moves /\ [Buffer!Next]_(Buffer!vars))
    BY <1>1, <1>3, RebuildSerial
  <1>4. ASSUME NEW r \in Requests,
               \/ Existing(r) \/ OpenToWrite(r) \/ Add(r) \/ Receipt(r)
               \/ DraftDomain(r) \/ Payloads(r) \/ Mark(r) \/ List(r)
        PROVE  Followed' /\ Moves /\ (EditsMidRequest \/ [Buffer!Next]_(Buffer!vars))
    <2>1. CASE Add(r)
      BY <2>1, AddSerial DEF Buffer!Next, Moves
    <2>2. CASE Mark(r)
      BY <2>2, MarkSerial DEF Buffer!Next, Moves
    <2>3. CASE \/ Existing(r) \/ OpenToWrite(r) \/ Receipt(r)
               \/ DraftDomain(r) \/ Payloads(r) \/ List(r)
      BY <1>1, <2>3, ReadSerial
    <2> QED
      BY <1>4, <2>1, <2>2, <2>3
  <1>5. ASSUME Edit \/ \E diff \in diffs : Apply(diff)
        PROVE  Followed' /\ Moves /\ [Buffer!Next]_(Buffer!vars)
    <2>1. /\ EditsMidRequest \/ Busy = {}
          /\ UNCHANGED <<disk, req, diffs>> /\ Drafts' = Drafts
      <3>1. (EditsMidRequest \/ Busy = {}) /\ UNCHANGED <<disk, req, diffs>>
        BY <1>5 DEF Edit, Apply
      <3> QED
        BY <3>1 DEF Drafts
    <2>2. Followed'
      BY <2>1 DEF Followed, Busy, FileAt, ReadSo, OpenRows
    <2>3. Buffer!Next
      <3>1. CASE Edit
        BY <2>1, <3>1 DEF Edit, Buffer!Edit, Buffer!Next
      <3>2. CASE \E diff \in diffs : Apply(diff)
        <4>1. PICK diff \in diffs : Apply(diff)
          BY <3>2
        <4>2. Buffer!Apply(diff)
          BY <2>1, <4>1, BufferRules, BufferAppends DEF Apply, Buffer!Apply
        <4> QED
          BY <4>2 DEF Buffer!Next
      <3> QED
        BY <1>5, <3>1, <3>2
    <2> QED
      BY <2>1, <2>2, <2>3 DEF Moves
  <1>6. CASE UNCHANGED vars
    <2>1. UNCHANGED BufferVars
      BY <1>6 DEF vars, BufferVars, Drafts
    <2>2. Followed'
      BY <1>6, <2>1 DEF vars, Followed, Busy, FileAt, ReadSo, Authored, OpenRows, BufferVars
    <2> QED
      BY <1>1, <2>1, <2>2
  <1> QED
    BY <1>2, <1>3, <1>4, <1>5, <1>6, NextCases

LEMMA NextSerial == Serial /\ MaxInFlight = 1 /\ [Next]_vars => SerialInv'
  <1> SUFFICES ASSUME Serial, MaxInFlight = 1, [Next]_vars PROVE SerialInv'
    OBVIOUS
  <1>1. OneAtATime' /\ (Reviewed => Materializes(sources)')
    BY OneStays, ReviewedStays DEF Serial, SerialInv
  <1>2. Lost' \/ Followed'
    BY LostStays, NextFollowed DEF Serial, SerialInv
  <1> QED
    BY <1>1, <1>2 DEF SerialInv, Materializes

LEMMA NextKeepsSerial == Serial /\ MaxInFlight = 1 /\ [Next]_vars => Serial'
  <1>1. Typed /\ StampInv /\ ~EditsMidRequest /\ [Next]_vars => StampInv'
    BY NextStamped
  <1> QED
    BY <1>1, NextTyped, NextSerial DEF Serial

LEMMA InitSerial == Init => Serial /\ Followed /\ Buffer!Init
  <1> SUFFICES ASSUME Init PROVE Serial /\ Followed /\ Buffer!Init
    OBVIOUS
  <1>1. \A r \in Requests : req[r].pc = "idle"
    BY DEF Init, Idle
  <1>2. disk.kind = "none" /\ disk.draft = NoDrafts
    BY DEF Init, Unbuilt
  <1>3. Materializes(sources)
    BY DEF Init, Materializes, NoRows
  <1>4. SerialInv /\ Followed
    BY <1>1, <1>2, <1>3 DEF SerialInv, Followed, OneAtATime, Busy
  <1>5. Drafts = NoDrafts
    BY <1>1, <1>2 DEF Drafts
  <1>6. Buffer!Init
    BY <1>5, BufferRules DEF Init, Buffer!Init
  <1> QED
    BY <1>4, <1>6, InitTyped, InitStamped DEF Serial

\* Requests served one at a time over files the store accepts implement the
\* buffer (rebuilds, queries and all): build() loses and repeats no row, and a
\* promoted diff holds exactly what was open.
THEOREM StoreImplementsBuffer ==
    ASSUME MaxInFlight = 1, EditsMidRequest = FALSE, Reviewed = TRUE
    PROVE  Spec => BehavesAsBuffer
  <1>1. Init => Serial /\ Buffer!Init
    BY InitSerial
  <1>2. Serial /\ [Next]_vars => Serial'
    BY NextKeepsSerial
  <1>3. ASSUME Serial, [Next]_vars PROVE [Buffer!Next]_(Buffer!vars)
    <2>1. Followed
      BY <1>3 DEF Serial, SerialInv, Lost
    <2>2. ~Lost'
      BY <1>3, <1>2 DEF Serial, SerialInv, Lost
    <2> QED
      BY <1>3, <2>1, <2>2, NextFollowed
  <1> QED
    BY <1>1, <1>2, <1>3, PTL DEF Spec, BehavesAsBuffer, Buffer!Spec

----------------------------------------------------------------------------
(* One diff per row, wherever the rows are. *)

LEMMA DraftsTyped == Typed => Promise!Tabled
  <1> SUFFICES ASSUME Typed PROVE Promise!Tabled
    OBVIOUS
  <1>1. /\ disk.draft \in [DraftIds -> Seq(Row)] /\ diffs \subseteq Diff
        /\ \A r \in Requests : req[r].carried \in [DraftIds -> Seq(Row)]
    BY DEF Typed, TablesOK, RequestsOK, File, Request
  <1> DEFINE builders == {r \in Requests : req[r].pc \in {"create", "ingest", "publish"}}
  <1>2. builders # {} => (CHOOSE r \in builders : TRUE) \in Requests
    OBVIOUS
  <1>3. Drafts = IF builders = {} THEN disk.draft ELSE req[CHOOSE r \in builders : TRUE].carried
    BY DEF Drafts
  <1> HIDE DEF builders
  <1>4. Drafts \in [DraftIds -> Seq(Row)]
    BY <1>1, <1>2, <1>3
  <1> QED
    BY <1>1, <1>4, SameVocabulary DEF Promise!Tabled

LEMMA SamePromote ==
    ASSUME NEW d \in DraftIds, Buffer!Promote(d) PROVE Promise!Promote(d)
  BY BufferRules, SameRows DEF Buffer!Promote, Promise!Promote

OnceInv == Lost \/ Promise!OneDiff

LEMMA NextOnce ==
    ASSUME Serial, OnceInv, MaxInFlight = 1, [Next]_vars
    PROVE  OnceInv'
  <1>0. Promise!Tabled
    BY DraftsTyped DEF Serial
  <1>1. CASE Lost
    BY <1>1, LostStays DEF OnceInv, Serial
  <1>2. ASSUME Promise!OneDiff, Moves PROVE Promise!OneDiff'
    <2>1. CASE UNCHANGED <<Drafts, diffs>>
      BY <1>2, <2>1 DEF Promise!OneDiff, Promise!DiffsAreDrafted, Promise!RowsReachOneDiff
    <2>2. ASSUME NEW d \in DraftIds, NEW k \in Keys, Promise!Opens(d, k) PROVE Promise!OneDiff'
      BY <1>0, <1>2, <2>2, PromiseKept, Promise!DraftProposed
    <2>3. ASSUME NEW d \in DraftIds, Buffer!Promote(d) PROVE Promise!OneDiff'
      BY <1>0, <1>2, <2>3, SamePromote, PromiseKept, Promise!PromoteProposed
    <2> QED
      BY <1>2, <2>1, <2>2, <2>3 DEF Moves
  <1>3. CASE Promise!OneDiff /\ ~Lost
    BY <1>2, <1>3, NextFollowed DEF OnceInv, Serial, SerialInv
  <1> QED
    BY <1>1, <1>3 DEF OnceInv

\* The rows in the file and the diffs handed out agree while requests come one at a
\* time, sources changing between any two of their steps: a row set_draft_status
\* marked promoted is in exactly one diff of promote_draft, an open row in none,
\* across rebuilds and after one that failed.
THEOREM StorePromotesOnce ==
    ASSUME MaxInFlight = 1
    PROVE  Spec => []PromotedOnce
  <1>1. Init => Serial /\ OnceInv
    <2> SUFFICES ASSUME Init PROVE Serial /\ OnceInv
      OBVIOUS
    <2>1. diffs = {} /\ \A d \in DraftIds : DOMAIN Drafts[d] = {}
      BY InitSerial, BufferRules DEF Buffer!Init, NoDrafts
    <2>2. Promise!OneDiff
      BY <2>1 DEF Promise!OneDiff, Promise!DiffsAreDrafted, Promise!RowsReachOneDiff
    <2> QED
      BY <2>2, InitSerial DEF OnceInv
  <1>2. Serial /\ OnceInv /\ [Next]_vars => Serial' /\ OnceInv'
    BY NextKeepsSerial, NextOnce
  <1>3. OnceInv => PromotedOnce
    <2>1. CASE Promise!OneDiff
      BY <2>1 DEF Promise!OneDiff, Promise!RowsReachOneDiff, PromotedOnce, Buffer!RowsReachOneDiff
    <2>2. CASE Lost
      <3> DEFINE builders == {r \in Requests : req[r].pc \in {"create", "ingest", "publish"}}
      <3>1. \A r \in builders : req[r].carried = NoDrafts
        BY <2>2 DEF Lost
      <3>2. Drafts = IF builders = {} THEN disk.draft
                     ELSE req[CHOOSE r \in builders : TRUE].carried
        BY DEF Drafts
      <3>3. builders # {} => (CHOOSE r \in builders : TRUE) \in builders
        OBVIOUS
      <3> HIDE DEF builders
      <3>4. Drafts = NoDrafts
        BY <2>2, <3>1, <3>2, <3>3 DEF Lost
      <3>5. \A d \in DraftIds : DOMAIN Drafts[d] = {}
        BY <3>4 DEF NoDrafts
      <3> QED
        BY <3>5 DEF PromotedOnce, Buffer!RowsReachOneDiff
    <2> QED
      BY <2>1, <2>2 DEF OnceInv
  <1> QED
    BY <1>1, <1>2, <1>3, PTL DEF Spec
=============================================================================
