------------------------------ MODULE LoadProofs ------------------------------
(****************************************************************************)
(* What the loaders' stores promise, for any sizes: the versions of an      *)
(* entity (Snapshots), the owners of folders (FolderAttribution), the       *)
(* fixes applied (FixTracking) and the command-line staging store           *)
(* (Staging).                                                               *)
(****************************************************************************)
EXTENDS Snapshots, FolderAttribution, FixTracking, Staging, FiniteSetTheorems, TLAPS

----------------------------------------------------------------------------
(* Snapshots. *)

Busy(j) == writer[j].at # "idle"

\* A writer between closing and creating.
Between(j, e) == writer[j].at = "create" /\ writer[j].entity = e

Apart == \A i, j \in SnapshotJob : Busy(i) /\ Busy(j) => i = j

ClosedFirst ==
    \A j \in SnapshotJob : \A v \in versions : Between(j, v.entity) => ~v.open

AtMostOneOpen ==
    \A u, v \in versions : u.entity = v.entity /\ u.open /\ v.open => u = v

\* Versions are of the past, and of different days but for the crowded entities.
Dated ==
    /\ \A v \in versions : v.from <= today /\ recorded[v.entity] # {}
    /\ \A u, v \in versions :
          u.entity = v.entity /\ u.from = v.from /\ u.entity \notin crowded => u = v

\* v is the version that the state last recorded of e is found in.
Holds(v, e) ==
    /\ v.entity = e /\ v.open /\ recorded[e] = {v.hash}
    /\ \A u \in versions : u.entity = e => u.from <= v.from

Excused(e) ==
    \/ e \in crowded \/ e \in halfWritten \/ recorded[e] = {}
    \/ \E j \in SnapshotJob : Between(j, e)

NewestHolds == \A e \in Entity : Excused(e) \/ \E v \in versions : Holds(v, e)

SnapshotInv ==
    /\ SnapshotTypeOK
    /\ Dated
    /\ contended \/ (Apart /\ ClosedFirst /\ AtMostOneOpen /\ NewestHolds)

LEMMA RestingIsIdle == Resting \in SnapshotWriter /\ Resting.at = "idle"
  <1>1. (CHOOSE e \in Entity : TRUE) \in Entity
    BY SnapshotAssumption
  <1>2. (CHOOSE s \in EntityState : TRUE) \in EntityState
    BY SnapshotAssumption
  <1> QED
    BY <1>1, <1>2 DEF Resting, SnapshotWriter

LEMMA SnapshotInitInv == SnapshotInit => SnapshotInv
  <1> SUFFICES ASSUME SnapshotInit PROVE SnapshotInv
    OBVIOUS
  <1>1. (CHOOSE s \in EntityState : TRUE) \in EntityState
    BY SnapshotAssumption
  <1>2. SnapshotTypeOK
    <2>1. today \in 0 .. MaxDay /\ created \in 0 .. MaxVersions
      BY SnapshotAssumption DEF SnapshotInit
    <2>5. contended \in BOOLEAN
      BY DEF SnapshotInit
    <2>2. state \in [Entity -> EntityState]
      BY <1>1 DEF SnapshotInit
    <2>3. versions \subseteq Version /\ recorded \in [Entity -> SUBSET EntityState]
          /\ crowded \subseteq Entity /\ halfWritten \subseteq Entity
      BY DEF SnapshotInit
    <2>4. writer \in [SnapshotJob -> SnapshotWriter]
      BY RestingIsIdle DEF SnapshotInit
    <2> QED
      BY <2>1, <2>2, <2>3, <2>4, <2>5 DEF SnapshotTypeOK
  <1>3. Dated /\ ClosedFirst /\ AtMostOneOpen
    BY DEF SnapshotInit, Dated, ClosedFirst, AtMostOneOpen
  <1>4. Apart
    BY RestingIsIdle DEF SnapshotInit, Apart, Busy
  <1>5. NewestHolds
    BY DEF SnapshotInit, NewestHolds, Excused
  <1> QED
    BY <1>2, <1>3, <1>4, <1>5 DEF SnapshotInv

LEMMA MidnightInv == SnapshotInv /\ Midnight => SnapshotInv'
  <1> SUFFICES ASSUME SnapshotInv, Midnight PROVE SnapshotInv'
    OBVIOUS
  <1>1. SnapshotTypeOK'
    BY SnapshotAssumption DEF SnapshotInv, Midnight, SnapshotTypeOK
  <1>2. Dated'
    <2>1. \A v \in versions : v.from \in Int
      BY DEF SnapshotInv, SnapshotTypeOK, Version
    <2> QED
      BY <2>1 DEF SnapshotInv, Midnight, Dated, SnapshotTypeOK
  <1>3. contended' \/ (Apart' /\ ClosedFirst' /\ AtMostOneOpen' /\ NewestHolds')
    BY DEF SnapshotInv, Midnight, Apart, Busy, ClosedFirst, Between, AtMostOneOpen, NewestHolds,
           Excused, Holds
  <1> QED
    BY <1>1, <1>2, <1>3 DEF SnapshotInv

LEMMA ChangeStateInv ==
    ASSUME SnapshotInv, NEW e \in Entity, ChangeState(e) PROVE SnapshotInv'
  <1>1. SnapshotTypeOK'
    BY DEF SnapshotInv, ChangeState, SnapshotTypeOK
  <1>2. Dated' /\ (contended' \/ (Apart' /\ ClosedFirst' /\ AtMostOneOpen' /\ NewestHolds'))
    BY DEF SnapshotInv, ChangeState, Dated, Apart, Busy, ClosedFirst, Between, AtMostOneOpen,
           NewestHolds, Excused, Holds
  <1> QED
    BY <1>1, <1>2 DEF SnapshotInv

\* A step of a writer that neither was nor comes to be between closing and creating,
\* and leaves the versions alone.
LEMMA WriterMovesOn ==
    ASSUME SnapshotInv, NEW j \in SnapshotJob, NEW w \in SnapshotWriter,
           writer' = [writer EXCEPT ![j] = w],
           w.at # "create", writer[j].at # "create",
           w.at # "idle" => writer[j].at # "idle" \/ contended'
                            \/ \A i \in SnapshotJob \ {j} : ~Busy(i),
           contended \in BOOLEAN, contended' \in BOOLEAN, contended => contended',
           UNCHANGED <<today, state, versions, created, recorded, crowded, halfWritten>>
    PROVE  SnapshotInv'
  <1>1. SnapshotTypeOK'
    BY DEF SnapshotInv, SnapshotTypeOK
  <1>2. Dated'
    BY DEF SnapshotInv, Dated
  <1> SUFFICES ASSUME ~contended' PROVE Apart' /\ ClosedFirst' /\ AtMostOneOpen' /\ NewestHolds'
    BY <1>1, <1>2 DEF SnapshotInv
  <1>3. Apart /\ ClosedFirst /\ AtMostOneOpen /\ NewestHolds /\ SnapshotTypeOK
    BY DEF SnapshotInv
  <1>4. \A i \in SnapshotJob : writer'[i] = IF i = j THEN w ELSE writer[i]
    BY <1>3 DEF SnapshotTypeOK
  <1>5. Apart'
    BY <1>3, <1>4 DEF Apart, Busy
  <1>6. ClosedFirst' /\ AtMostOneOpen'
    BY <1>3, <1>4 DEF ClosedFirst, Between, AtMostOneOpen
  <1>7. \A e \in Entity : Excused(e) => Excused(e)'
    BY <1>4 DEF Excused, Between
  <1>8. NewestHolds'
    BY <1>3, <1>7 DEF NewestHolds, Holds
  <1> QED
    BY <1>5, <1>6, <1>8

LEMMA BeginWriterInv ==
    ASSUME SnapshotInv, NEW j \in SnapshotJob, BeginWriter(j) PROVE SnapshotInv'
  <1> DEFINE w == [Resting EXCEPT !.at = "entity", !.todo = Entity]
  <1>1. w \in SnapshotWriter /\ w.at = "entity"
    BY RestingIsIdle DEF SnapshotWriter
  <1>2. contended \in BOOLEAN /\ contended' \in BOOLEAN /\ (contended => contended')
        /\ (contended' \/ \A i \in SnapshotJob \ {j} : ~Busy(i))
    BY DEF SnapshotInv, SnapshotTypeOK, BeginWriter, Busy
  <1>3. writer' = [writer EXCEPT ![j] = w] /\ writer[j].at = "idle"
        /\ UNCHANGED <<today, state, versions, created, recorded, crowded, halfWritten>>
    BY DEF BeginWriter
  <1> HIDE DEF w
  <1> QED
    BY <1>1, <1>2, <1>3, WriterMovesOn

LEMMA ReadStateInv ==
    ASSUME SnapshotInv, NEW j \in SnapshotJob, ReadState(j) PROVE SnapshotInv'
  <1>1. contended \in BOOLEAN /\ contended' = contended /\ writer[j].at = "entity"
        /\ UNCHANGED <<today, state, versions, created, recorded, crowded, halfWritten>>
    BY DEF SnapshotInv, SnapshotTypeOK, ReadState
  <1>2. PICK w \in SnapshotWriter :
           writer' = [writer EXCEPT ![j] = w] /\ w.at \in {"idle", "latest"}
    <2>1. CASE writer[j].todo = {}
      BY <2>1, RestingIsIdle DEF ReadState
    <2>2. CASE writer[j].todo # {}
      <3>1. PICK e \in writer[j].todo :
               writer' = [writer EXCEPT ![j] =
                  [at |-> "latest", todo |-> @.todo \ {e}, entity |-> e, digest |-> state[e]]]
        BY <2>2 DEF ReadState
      <3>2. writer[j].todo \in SUBSET Entity /\ state[e] \in EntityState
        BY <3>1 DEF SnapshotInv, SnapshotTypeOK, SnapshotWriter
      <3>3. [at |-> "latest", todo |-> writer[j].todo \ {e}, entity |-> e,
             digest |-> state[e]] \in SnapshotWriter
        BY <3>1, <3>2 DEF SnapshotWriter
      <3> QED
        BY <3>1, <3>3
    <2> QED
      BY <2>1, <2>2
  <1> QED
    BY <1>1, <1>2, WriterMovesOn

\* The writer after NextEntity.
LEMMA NextEntityWriter ==
    ASSUME SnapshotTypeOK, NEW j \in SnapshotJob, NextEntity(j)
    PROVE  \E w \in SnapshotWriter : w.at = "entity" /\ writer' = [writer EXCEPT ![j] = w]
  <1> DEFINE w == [writer[j] EXCEPT !.at = "entity", !.entity = Resting.entity,
                                    !.digest = Resting.digest]
  <1>1. Resting.entity \in Entity /\ Resting.digest \in EntityState
    BY RestingIsIdle DEF SnapshotWriter
  <1>2. writer[j] \in SnapshotWriter
    BY DEF SnapshotTypeOK
  <1>3. w \in SnapshotWriter /\ w.at = "entity"
    BY <1>1, <1>2 DEF SnapshotWriter
  <1>4. writer' = [writer EXCEPT ![j] = w]
    BY DEF NextEntity, SnapshotTypeOK
  <1> QED
    BY <1>3, <1>4

\* If the latest version holds the digest it is the open one; if not, the writer goes on
\* to close.
LEMMA CompareLatestInv ==
    ASSUME SnapshotInv, NEW j \in SnapshotJob, CompareLatest(j) PROVE SnapshotInv'
  <1> DEFINE e == writer[j].entity
  <1>1. SnapshotTypeOK /\ writer[j].at = "latest" /\ writer[j] \in SnapshotWriter
        /\ UNCHANGED <<today, state, versions, created, crowded, halfWritten, contended>>
    BY DEF SnapshotInv, SnapshotTypeOK, CompareLatest
  <1>2. e \in Entity /\ writer[j].digest \in EntityState
    BY <1>1 DEF SnapshotWriter
  <1>3. ASSUME NEW v \in Latest(e), v.hash = writer[j].digest, NextEntity(j), Record(j)
        PROVE  SnapshotInv'
    <2>1. PICK w \in SnapshotWriter : w.at = "entity" /\ writer' = [writer EXCEPT ![j] = w]
      BY <1>1, <1>3, NextEntityWriter
    <2>2. recorded' = [recorded EXCEPT ![e] = {v.hash}]
      BY <1>3 DEF Record
    <2>3. v \in versions /\ v.entity = e
          /\ \A u \in versions : u.entity = e => u.from <= v.from
      BY <1>3 DEF Latest, Newest, Of
    <2>4. SnapshotTypeOK'
      BY <1>1, <1>2, <1>3, <2>1, <2>2 DEF SnapshotTypeOK
    <2>5. Dated'
      BY <1>1, <2>2 DEF SnapshotInv, Dated, SnapshotTypeOK
    <2> SUFFICES ASSUME ~contended' PROVE Apart' /\ ClosedFirst' /\ AtMostOneOpen' /\ NewestHolds'
      BY <2>4, <2>5 DEF SnapshotInv
    <2>6. Apart /\ ClosedFirst /\ AtMostOneOpen /\ NewestHolds /\ Dated
      BY <1>1 DEF SnapshotInv
    <2>7. \A i \in SnapshotJob : writer'[i] = IF i = j THEN w ELSE writer[i]
      BY <1>1, <2>1 DEF SnapshotTypeOK
    <2>8. Apart'
      BY <1>1, <2>1, <2>6, <2>7 DEF Apart, Busy
    <2>9. ClosedFirst' /\ AtMostOneOpen'
      BY <1>1, <2>1, <2>6, <2>7 DEF ClosedFirst, Between, AtMostOneOpen
    <2>10. ~\E i \in SnapshotJob : Between(i, e)
      BY <1>1, <2>6 DEF Apart, Busy, Between
    <2>11. ASSUME NEW f \in Entity PROVE Excused(f)' \/ \E u \in versions' : Holds(u, f)'
      <3>1. CASE f = e
        <4>1. CASE Excused(f)
          <5>1. recorded[f] # {}
            BY <2>3, <2>6, <3>1 DEF Dated
          <5>2. f \in crowded \/ f \in halfWritten
            BY <2>10, <3>1, <4>1, <5>1 DEF Excused
          <5> QED
            BY <1>1, <5>2 DEF Excused
        <4>2. ASSUME NEW u \in versions, Holds(u, f), f \notin crowded
              PROVE  \E x \in versions' : Holds(x, f)'
          <5>1. u.from = v.from
            <6>1. u.from \in Int /\ v.from \in Int
              BY <1>1, <2>3 DEF SnapshotTypeOK, Version
            <6>2. u.from <= v.from /\ v.from <= u.from
              BY <2>3, <3>1, <4>2 DEF Holds
            <6> QED
              BY <6>1, <6>2
          <5>2. u = v
            BY <2>3, <2>6, <3>1, <4>2, <5>1 DEF Dated, Holds
          <5>3. recorded'[f] = {v.hash}
            BY <1>1, <1>2, <2>2, <3>1 DEF SnapshotTypeOK
          <5>4. Holds(v, f)'
            BY <1>1, <2>3, <3>1, <4>2, <5>2, <5>3 DEF Holds
          <5> QED
            BY <1>1, <2>3, <5>4
        <4> QED
          BY <2>6, <4>1, <4>2 DEF NewestHolds, Excused
      <3>2. CASE f # e
        <4>1. recorded'[f] = recorded[f]
          BY <1>1, <2>2, <3>2 DEF SnapshotTypeOK
        <4>2. Excused(f) => Excused(f)'
          BY <1>1, <2>7, <4>1 DEF Excused, Between
        <4>3. \A u \in versions : Holds(u, f) => Holds(u, f)'
          BY <1>1, <4>1 DEF Holds
        <4> QED
          BY <1>1, <2>6, <4>2, <4>3 DEF NewestHolds
      <3> QED
        BY <3>1, <3>2
    <2> QED
      BY <2>8, <2>9, <2>11 DEF NewestHolds
  <1>4. ASSUME writer' = [writer EXCEPT ![j].at = "close"], UNCHANGED recorded
        PROVE  SnapshotInv'
    <2> DEFINE w == [writer[j] EXCEPT !.at = "close"]
    <2>1. w \in SnapshotWriter /\ w.at = "close"
      BY <1>1 DEF SnapshotWriter
    <2>2. writer' = [writer EXCEPT ![j] = w]
      BY <1>1, <1>4 DEF SnapshotTypeOK
    <2>3. contended \in BOOLEAN /\ contended' \in BOOLEAN
      BY <1>1 DEF SnapshotTypeOK
    <2> HIDE DEF w
    <2> QED
      BY <1>1, <1>4, <2>1, <2>2, <2>3, WriterMovesOn
  <1> QED
    BY <1>3, <1>4 DEF CompareLatest

\* The image of the versions under the close: those of one entity are no longer open.
LEMMA CloseVersionInv ==
    ASSUME SnapshotInv, NEW j \in SnapshotJob, CloseVersion(j) PROVE SnapshotInv'
  <1> DEFINE e == writer[j].entity
             shut(v) == IF Closes(v, e) THEN [v EXCEPT !.open = FALSE] ELSE v
             w == [writer[j] EXCEPT !.at = "create"]
  <1>1. SnapshotTypeOK /\ Dated /\ writer[j].at = "close" /\ writer[j] \in SnapshotWriter
        /\ UNCHANGED <<today, state, created, recorded, crowded, halfWritten, contended>>
    BY DEF SnapshotInv, SnapshotTypeOK, CloseVersion
  <1>2. e \in Entity /\ w \in SnapshotWriter /\ w.at = "create" /\ w.entity = e
    BY <1>1 DEF SnapshotWriter
  <1>3. versions' = {shut(v) : v \in versions} /\ writer' = [writer EXCEPT ![j] = w]
    BY <1>1 DEF CloseVersion, SnapshotTypeOK
  <1>4. ASSUME NEW v \in versions
        PROVE  /\ shut(v) \in Version /\ shut(v).entity = v.entity
               /\ shut(v).from = v.from /\ shut(v).hash = v.hash
               /\ shut(v).open => v.open /\ v.entity # e
               /\ v.entity # e => shut(v) = v
    <2>1. v \in Version
      BY <1>1 DEF SnapshotTypeOK
    <2> QED
      BY <2>1 DEF Version, Closes
  <1>5. \A x \in versions' : \E v \in versions : x = shut(v)
    BY <1>3
  <1>6. \A i \in SnapshotJob : writer'[i] = IF i = j THEN w ELSE writer[i]
    BY <1>1, <1>3 DEF SnapshotTypeOK
  <1> HIDE DEF shut, w
  <1>7. SnapshotTypeOK'
    <2>1. versions' \subseteq Version
      BY <1>4, <1>5
    <2> QED
      BY <1>1, <1>2, <1>3, <2>1 DEF SnapshotTypeOK
  <1>8. Dated'
    BY <1>1, <1>4, <1>5 DEF Dated
  <1> SUFFICES ASSUME ~contended' PROVE Apart' /\ ClosedFirst' /\ AtMostOneOpen' /\ NewestHolds'
    BY <1>7, <1>8 DEF SnapshotInv
  <1>9. Apart /\ ClosedFirst /\ AtMostOneOpen /\ NewestHolds
    BY <1>1 DEF SnapshotInv
  <1>10. Apart'
    BY <1>1, <1>2, <1>6, <1>9 DEF Apart, Busy
  <1>11. ClosedFirst'
    BY <1>1, <1>2, <1>4, <1>5, <1>6, <1>9 DEF ClosedFirst, Between, Apart, Busy
  <1>12. AtMostOneOpen'
    BY <1>4, <1>5, <1>9 DEF AtMostOneOpen
  <1>13. ASSUME NEW f \in Entity PROVE Excused(f)' \/ \E u \in versions' : Holds(u, f)'
    <2>1. CASE f = e
      BY <1>2, <1>6, <2>1 DEF Excused, Between
    <2>2. CASE f # e
      <3>1. Excused(f) => Excused(f)'
        BY <1>1, <1>2, <1>6, <2>2 DEF Excused, Between
      <3>2. ASSUME NEW u \in versions, Holds(u, f) PROVE u \in versions' /\ Holds(u, f)'
        <4>1. shut(u) = u
          BY <1>4, <2>2, <3>2 DEF Holds
        <4>2. u \in versions'
          BY <1>3, <4>1
        <4>3. \A x \in versions' : x.entity = f => x.from <= u.from
          BY <1>4, <1>5, <3>2 DEF Holds
        <4> QED
          BY <1>1, <3>2, <4>2, <4>3 DEF Holds
      <3> QED
        BY <1>9, <3>1, <3>2 DEF NewestHolds
    <2> QED
      BY <2>1, <2>2
  <1> QED
    BY <1>10, <1>11, <1>12, <1>13 DEF NewestHolds

\* The version that is made is the newest and the only open one of its entity.
LEMMA CreateVersionInv ==
    ASSUME SnapshotInv, NEW j \in SnapshotJob, CreateVersion(j) PROVE SnapshotInv'
  <1>1. SnapshotTypeOK /\ Dated /\ writer[j].at = "create" /\ writer[j] \in SnapshotWriter
        /\ UNCHANGED <<today, state, contended>>
    BY DEF SnapshotInv, SnapshotTypeOK, CreateVersion
  <1>2. PICK e \in Entity, d \in EntityState : e = writer[j].entity /\ d = writer[j].digest
    BY <1>1 DEF SnapshotWriter
  <1>3. PICK w \in SnapshotWriter : w.at = "entity" /\ writer' = [writer EXCEPT ![j] = w]
    BY <1>1, NextEntityWriter DEF CreateVersion
  <1>4. PICK new \in Version :
           /\ versions' = versions \union {new}
           /\ new.entity = e /\ new.hash = d /\ new.from = today /\ new.open
    <2> DEFINE n == [id |-> created + 1, entity |-> e, hash |-> d, from |-> today, open |-> TRUE]
    <2>1. n \in Version
      BY <1>1, SnapshotAssumption DEF CreateVersion, SnapshotTypeOK, Version
    <2>2. versions' = versions \union {n}
      BY <1>2 DEF CreateVersion
    <2> QED
      BY <2>1, <2>2
  <1>5. recorded' = [recorded EXCEPT ![e] = {d}]
    BY <1>2 DEF CreateVersion, Record
  <1>6. crowded' = crowded \union {c \in {e} : \E v \in Of(c) : v.from = today}
        /\ halfWritten' = halfWritten \ {e}
    BY <1>2 DEF CreateVersion
  <1>7. created' \in 0 .. MaxVersions
    BY <1>1, SnapshotAssumption DEF CreateVersion, SnapshotTypeOK
  <1>8. \A i \in SnapshotJob : writer'[i] = IF i = j THEN w ELSE writer[i]
    BY <1>1, <1>3 DEF SnapshotTypeOK
  <1>9. SnapshotTypeOK'
    <2>1. recorded' \in [Entity -> SUBSET EntityState]
      BY <1>1, <1>5 DEF SnapshotTypeOK
    <2>2. crowded' \subseteq Entity /\ halfWritten' \subseteq Entity
      BY <1>1, <1>6 DEF SnapshotTypeOK
    <2> QED
      BY <1>1, <1>3, <1>4, <1>7, <2>1, <2>2 DEF SnapshotTypeOK
  <1>10. recorded'[e] = {d} /\ \A f \in Entity : f # e => recorded'[f] = recorded[f]
    BY <1>1, <1>5 DEF SnapshotTypeOK
  <1>11. \A v \in versions' : v.from <= today
    <2>1. today <= today
      BY <1>1 DEF SnapshotTypeOK
    <2> QED
      BY <1>1, <1>4, <2>1 DEF Dated
  <1>12. Dated'
    <2>1. \A v \in versions' : recorded'[v.entity] # {}
      BY <1>1, <1>4, <1>10 DEF Dated, SnapshotTypeOK, Version
    <2>2. ASSUME NEW u \in versions, u.entity = e, u.from = today PROVE e \in crowded'
      BY <1>6, <2>2 DEF Of
    <2>3. \A u, v \in versions' :
             u.entity = v.entity /\ u.from = v.from /\ u.entity \notin crowded' => u = v
      BY <1>1, <1>4, <1>6, <2>2 DEF Dated
    <2> QED
      BY <1>1, <1>11, <2>1, <2>3 DEF Dated
  <1> SUFFICES ASSUME ~contended' PROVE Apart' /\ ClosedFirst' /\ AtMostOneOpen' /\ NewestHolds'
    BY <1>9, <1>12 DEF SnapshotInv
  <1>13. Apart /\ ClosedFirst /\ AtMostOneOpen /\ NewestHolds
    BY <1>1 DEF SnapshotInv
  <1>14. Apart'
    BY <1>1, <1>3, <1>8, <1>13 DEF Apart, Busy
  <1>15. ClosedFirst'
    <2>1. ASSUME NEW i \in SnapshotJob PROVE writer'[i].at # "create"
      BY <1>1, <1>3, <1>8, <1>13 DEF Apart, Busy
    <2> QED
      BY <2>1 DEF ClosedFirst, Between
  <1>16. AtMostOneOpen'
    <2>1. \A v \in versions : v.entity = e => ~v.open
      BY <1>1, <1>2, <1>13 DEF ClosedFirst, Between
    <2> QED
      BY <1>4, <1>13, <2>1 DEF AtMostOneOpen
  <1>17. ASSUME NEW f \in Entity PROVE Excused(f)' \/ \E u \in versions' : Holds(u, f)'
    <2>1. CASE f = e
      <3>1. new \in versions'
        BY <1>4
      <3>2. Holds(new, f)'
        BY <1>4, <1>10, <1>11, <2>1 DEF Holds
      <3> QED
        BY <3>1, <3>2
    <2>2. CASE f # e
      <3>1. Excused(f) => Excused(f)'
        BY <1>2, <1>6, <1>8, <1>10, <2>2 DEF Excused, Between
      <3>2. ASSUME NEW u \in versions, Holds(u, f) PROVE u \in versions' /\ Holds(u, f)'
        BY <1>4, <1>10, <2>2, <3>2 DEF Holds
      <3> QED
        BY <1>13, <3>1, <3>2 DEF NewestHolds
    <2> QED
      BY <2>1, <2>2
  <1> QED
    BY <1>14, <1>15, <1>16, <1>17 DEF NewestHolds

\* Who dies between closing and creating leaves an excuse.
LEMMA KillWriterInv ==
    ASSUME SnapshotInv, NEW j \in SnapshotJob, KillWriter(j) PROVE SnapshotInv'
  <1>1. SnapshotTypeOK /\ Dated /\ writer[j] \in SnapshotWriter
        /\ UNCHANGED <<today, state, versions, created, recorded, crowded, contended>>
    BY DEF SnapshotInv, SnapshotTypeOK, KillWriter
  <1>2. PICK e \in Entity : e = writer[j].entity
    BY <1>1 DEF SnapshotWriter
  <1>3. halfWritten' = halfWritten \union {f \in {e} : writer[j].at = "create"}
        /\ writer' = [writer EXCEPT ![j] = Resting]
    BY <1>2 DEF KillWriter
  <1>4. \A i \in SnapshotJob : writer'[i] = IF i = j THEN Resting ELSE writer[i]
    BY <1>1, <1>3 DEF SnapshotTypeOK
  <1>5. SnapshotTypeOK'
    BY <1>1, <1>3, RestingIsIdle DEF SnapshotTypeOK
  <1>6. Dated'
    BY <1>1 DEF Dated
  <1> SUFFICES ASSUME ~contended' PROVE Apart' /\ ClosedFirst' /\ AtMostOneOpen' /\ NewestHolds'
    BY <1>5, <1>6 DEF SnapshotInv
  <1>7. Apart /\ ClosedFirst /\ AtMostOneOpen /\ NewestHolds
    BY <1>1 DEF SnapshotInv
  <1>8. Apart'
    BY <1>4, <1>7, RestingIsIdle DEF Apart, Busy
  <1>9. ClosedFirst' /\ AtMostOneOpen'
    BY <1>1, <1>4, <1>7, RestingIsIdle DEF ClosedFirst, Between, AtMostOneOpen
  <1>10. ASSUME NEW f \in Entity, Excused(f) PROVE Excused(f)'
    <2>1. CASE Between(j, f)
      BY <1>2, <1>3, <2>1 DEF Excused, Between
    <2>2. CASE ~Between(j, f)
      BY <1>1, <1>3, <1>4, <1>10, <2>2 DEF Excused, Between
    <2> QED
      BY <2>1, <2>2
  <1>11. NewestHolds'
    BY <1>1, <1>7, <1>10 DEF NewestHolds, Holds
  <1> QED
    BY <1>8, <1>9, <1>11

\* The newest of an entity that is not crowded is the one that is kept.
LEMMA PruneInv == SnapshotInv /\ Prune => SnapshotInv'
  <1> SUFFICES ASSUME SnapshotInv, Prune PROVE SnapshotInv'
    OBVIOUS
  <1>1. PICK Kept \in SUBSET UNION {Newest(Of(e)) : e \in Entity} :
           /\ \A e \in Entity :
                 Cardinality(Kept \intersect Of(e)) = (IF Of(e) = {} THEN 0 ELSE 1)
           /\ versions' = {v \in versions : Spared(v, Kept)}
    BY DEF Prune
  <1>2. SnapshotTypeOK /\ Dated /\ versions' \subseteq versions
        /\ UNCHANGED <<today, state, created, writer, recorded, crowded, halfWritten, contended>>
    BY <1>1 DEF SnapshotInv, Prune
  <1>3. SnapshotTypeOK'
    BY <1>2 DEF SnapshotTypeOK
  <1>4. Dated'
    BY <1>2 DEF Dated
  <1> SUFFICES ASSUME ~contended' PROVE Apart' /\ ClosedFirst' /\ AtMostOneOpen' /\ NewestHolds'
    BY <1>3, <1>4 DEF SnapshotInv
  <1>5. Apart /\ ClosedFirst /\ AtMostOneOpen /\ NewestHolds
    BY <1>2 DEF SnapshotInv
  <1>6. Apart' /\ ClosedFirst' /\ AtMostOneOpen'
    BY <1>2, <1>5 DEF Apart, Busy, ClosedFirst, Between, AtMostOneOpen
  <1>7. ASSUME NEW e \in Entity, NEW u \in versions, Holds(u, e), e \notin crowded
        PROVE  u \in Kept
    <2>1. u \in Of(e)
      BY <1>7 DEF Of, Holds
    <2>2. Kept \intersect Of(e) # {}
      BY <1>1, <2>1, FS_EmptySet
    <2>3. PICK k \in Kept : k \in Of(e)
      BY <2>2
    <2>4. PICK f \in Entity : k \in Newest(Of(f))
      BY <1>1
    <2>5. k \in versions /\ k.entity = e /\ k.entity = f
      BY <2>3, <2>4 DEF Of, Newest
    <2>6. u.from <= k.from /\ k.from <= u.from
      BY <1>7, <2>1, <2>4, <2>5 DEF Newest, Holds
    <2>7. u.from \in Int /\ k.from \in Int
      BY <1>2, <2>5 DEF SnapshotTypeOK, Version
    <2>8. u.from = k.from
      BY <2>6, <2>7
    <2> QED
      BY <1>2, <1>7, <2>5, <2>8 DEF Dated, Holds
  <1>8. ASSUME NEW e \in Entity PROVE Excused(e)' \/ \E u \in versions' : Holds(u, e)'
    <2>1. CASE Excused(e)
      BY <1>2, <2>1 DEF Excused, Between
    <2>2. ASSUME NEW u \in versions, Holds(u, e), ~Excused(e)
          PROVE  u \in versions' /\ Holds(u, e)'
      <3>1. u \in versions'
        BY <1>1, <1>7, <2>2 DEF Spared, Excused
      <3> QED
        BY <1>2, <2>2, <3>1 DEF Holds
    <2> QED
      BY <1>5, <2>1, <2>2 DEF NewestHolds
  <1> QED
    BY <1>6, <1>8 DEF NewestHolds

LEMMA SnapshotStepInv == SnapshotInv /\ [SnapshotNext]_snapshotVars => SnapshotInv'
  <1> SUFFICES ASSUME SnapshotInv, [SnapshotNext]_snapshotVars PROVE SnapshotInv'
    OBVIOUS
  <1>1. CASE SnapshotNext
    BY <1>1, MidnightInv, ChangeStateInv, BeginWriterInv, ReadStateInv, CompareLatestInv,
       CloseVersionInv, CreateVersionInv, KillWriterInv, PruneInv DEF SnapshotNext
  <1>2. CASE UNCHANGED snapshotVars
    BY <1>2 DEF snapshotVars, SnapshotInv, SnapshotTypeOK, Dated, Apart, Busy, ClosedFirst,
       Between, AtMostOneOpen, NewestHolds, Excused, Holds
  <1> QED
    BY <1>1, <1>2

\* The inductive invariant holds through every step of every writer (_write_snapshots).
THEOREM SnapshotInvariant == SnapshotSpec => []SnapshotInv
  BY SnapshotInitInv, SnapshotStepInv, PTL DEF SnapshotSpec

\* Versions, writers and the histories stay well formed (_write_snapshots).
THEOREM SnapshotTypeCorrect == SnapshotSpec => []SnapshotTypeOK
  BY SnapshotInvariant, PTL DEF SnapshotInv

\* A set of which no two elements differ has at most one.
LEMMA OneOpenCounted == SnapshotInv => OneOpenVersion
  <1> SUFFICES ASSUME SnapshotInv, ~contended, NEW e \in Entity
               PROVE  Cardinality({v \in Of(e) : v.open}) <= 1
    BY DEF OneOpenVersion
  <1> DEFINE opened == {v \in Of(e) : v.open}
  <1>1. \A u, v \in opened : u = v
    BY DEF SnapshotInv, AtMostOneOpen, Of
  <1>2. CASE opened = {}
    BY <1>2, FS_EmptySet
  <1>3. CASE opened # {}
    <2>1. PICK v : opened = {v}
      BY <1>1, <1>3
    <2>2. Cardinality(opened) = 1
      BY <2>1, FS_Singleton
    <2> QED
      BY <2>2
  <1> QED
    BY <1>2, <1>3

\* Unless two writers have run at once, an entity has at most one open version, whichever
\* of them died and however the days fell (_write_snapshots).
THEOREM NeverTwoOpen == SnapshotSpec => []OneOpenVersion
  BY SnapshotInvariant, OneOpenCounted, PTL

LEMMA CurrentIsNewest == SnapshotInv => CurrentStateStays
  <1> SUFFICES ASSUME SnapshotInv, ~contended, NEW e \in Entity, ~Excused(e)
               PROVE  \E v \in Newest(Of(e)) : v.open /\ recorded[e] = {v.hash}
    BY DEF CurrentStateStays, Excused, Between
  <1>1. PICK v \in versions : Holds(v, e)
    BY DEF SnapshotInv, NewestHolds
  <1>2. v \in Newest(Of(e))
    BY <1>1 DEF Newest, Of, Holds
  <1> QED
    BY <1>1, <1>2 DEF Holds

\* The state last recorded of an entity stays in its newest version, which is open, through
\* every prune - but for the exceptions the property names (_write_snapshots,
\* prune_older_than).
THEOREM CurrentStateIsKept == SnapshotSpec => []CurrentStateStays
  BY SnapshotInvariant, CurrentIsNewest, PTL

----------------------------------------------------------------------------
(* FolderAttribution. *)

\* The rows still to be written have a clear owner in what the run was resolved from.
RowsAreClear ==
    attribution.at = "write" =>
        \A d \in attribution.rows : ClearOwner(attribution.inputs, d.folder, d.app)

AttributionInv == AttributionTypeOK /\ RowsAreClear

LEMMA PrecedenceIsInt == \A origin \in Origin : Precedence(origin) \in Int
  BY DEF Origin, Precedence

\* The resolver's two ways of collecting rows are the one rule of who has a say.
LEMMA CandidatesSay ==
    ASSUME NEW rows \in SUBSET AuthoredRow, NEW f \in Folder
    PROVE  Candidates(rows, f) = {r \in rows : Says(r, f)}
  BY AttributionAssumption DEF Candidates, PerFolder, FansOut, Says

\* The highest precedence wins, and wins alone.
LEMMA WinnersOutrank ==
    ASSUME NEW rows \in SUBSET AuthoredRow, NEW f \in Folder, NEW a \in App,
           {r.app : r \in Winners(rows, f)} = {a}
    PROVE  \E r \in Candidates(rows, f) : r.app = a /\
              \A s \in Candidates(rows, f) :
                 s.app # a => Precedence(s.origin) < Precedence(r.origin)
  <1>1. PICK r \in Winners(rows, f) : r.app = a
    OBVIOUS
  <1>2. r \in Candidates(rows, f)
        /\ \A s \in Candidates(rows, f) : Precedence(s.origin) <= Precedence(r.origin)
    BY <1>1 DEF Winners
  <1>3. \A s \in Candidates(rows, f) : s.origin \in Origin
    BY CandidatesSay DEF AuthoredRow
  <1>4. ASSUME NEW s \in Candidates(rows, f), s.app # a
        PROVE  Precedence(s.origin) < Precedence(r.origin)
    <2>1. Precedence(s.origin) \in Int /\ Precedence(r.origin) \in Int
      BY <1>2, <1>3, PrecedenceIsInt
    <2>2. s \notin Winners(rows, f)
      BY <1>4
    <2>3. PICK x \in Candidates(rows, f) : ~(Precedence(x.origin) <= Precedence(s.origin))
      BY <2>2 DEF Winners
    <2>4. Precedence(x.origin) \in Int /\ Precedence(x.origin) <= Precedence(r.origin)
      BY <1>2, <1>3, <2>3, PrecedenceIsInt
    <2> QED
      BY <2>1, <2>3, <2>4
  <1> QED
    BY <1>1, <1>2, <1>4

\* With nobody speaking for a folder under no declared platform, there is no row for its
\* code at all.
LEMMA NobodySpeaks ==
    ASSUME NEW rows \in SUBSET AuthoredRow, NEW f \in Folder,
           Candidates(rows, f) = {}, CodeOf[f] \notin Declared(rows)
    PROVE  {r \in rows : r.folder = NoCode /\ r.code = CodeOf[f]} = {}
  BY DEF Candidates, FansOut, PerFolder, Declared

\* What the resolver writes has a clear owner.
LEMMA ResolvedIsClear ==
    ASSUME NEW rows \in SUBSET AuthoredRow, NEW matches \in [Folder -> SUBSET App],
           NEW pinned, NEW d \in Resolved(rows, matches, pinned)
    PROVE  ClearOwner([authored |-> rows, matched |-> matches], d.folder, d.app)
  <1> DEFINE f == d.folder
             a == d.app
             inputs == [authored |-> rows, matched |-> matches]
  <1>1. f \in Folder /\ a \in App
    BY DEF Resolved, AttributionRow
  <1>2. Candidates(rows, f) = {r \in inputs.authored : Says(r, f)}
    BY <1>1, CandidatesSay
  <1>3. CASE {r.app : r \in Winners(rows, f)} = {a}
    <2>1. \E r \in Candidates(rows, f) : r.app = a /\
              \A s \in Candidates(rows, f) :
                 s.app # a => Precedence(s.origin) < Precedence(r.origin)
      BY <1>1, <1>3, WinnersOutrank
    <2> QED
      BY <1>2, <2>1 DEF ClearOwner
  <1>4. CASE /\ Candidates(rows, f) = {}
             /\ CodeOf[f] \notin Declared(rows)
             /\ matches[f] = {a}
    <2>1. {r \in inputs.authored : r.folder = NoCode /\ r.code = CodeOf[f]} = {}
      BY <1>1, <1>4, NobodySpeaks
    <2>2. inputs.matched[f] = {a}
      BY <1>4
    <2> QED
      BY <1>2, <1>4, <2>1, <2>2 DEF ClearOwner
  <1> QED
    BY <1>3, <1>4 DEF Resolved

LEMMA NoRunIsOne == NoRun \in Attribution /\ NoRun.at = "idle"
  BY DEF NoRun, NoMatches, Attribution

LEMMA AttributionInitInv == AttributionInit => AttributionInv
  BY NoRunIsOne, AttributionAssumption
     DEF AttributionInit, AttributionInv, AttributionTypeOK, RowsAreClear, NoMatches, Edge

LEMMA ResolveInv == AttributionInv /\ ResolveFolders => AttributionInv'
  <1> SUFFICES ASSUME AttributionInv, ResolveFolders PROVE AttributionInv'
    OBVIOUS
  <1> DEFINE inputs == [authored |-> authored, matched |-> matched]
             rows == Resolved(authored, matched, Pinned)
  <1>1. authored \in SUBSET AuthoredRow /\ matched \in [Folder -> SUBSET App]
        /\ UNCHANGED <<authored, matched, edges, restated>>
    BY DEF AttributionInv, AttributionTypeOK, ResolveFolders
  <1>2. attribution' = [at |-> "write", rows |-> rows, inputs |-> inputs]
    BY DEF ResolveFolders
  <1>3. \A d \in rows : ClearOwner(inputs, d.folder, d.app)
    BY <1>1, ResolvedIsClear
  <1>4. rows \subseteq AttributionRow
    BY DEF Resolved
  <1>5. attribution' \in Attribution
    BY <1>1, <1>2, <1>4 DEF Attribution
  <1> HIDE DEF rows, inputs
  <1>6. attribution'.rows = rows /\ attribution'.inputs = inputs
    BY <1>2
  <1>7. RowsAreClear'
    BY <1>3, <1>6 DEF RowsAreClear
  <1> QED
    BY <1>1, <1>5, <1>7 DEF AttributionInv, AttributionTypeOK

LEMMA WriteInv == AttributionInv /\ WriteAttributions => AttributionInv'
  <1> SUFFICES ASSUME AttributionInv, WriteAttributions PROVE AttributionInv'
    OBVIOUS
  <1>1. PICK batch \in SUBSET attribution.rows :
           /\ edges' = [f \in Folder |-> [a \in App |->
                  IF \E d \in batch : d.folder = f /\ d.app = a /\ ~Untouchable(f)
                  THEN Merged(edges[f][a], (CHOOSE d \in batch : d.folder = f).origin)
                  ELSE edges[f][a]]]
           /\ attribution' = IF batch = attribution.rows THEN NoRun
                             ELSE [attribution EXCEPT !.rows = @ \ batch]
    BY DEF WriteAttributions
  <1>2. AttributionTypeOK /\ attribution \in Attribution /\ attribution.at = "write"
        /\ UNCHANGED <<authored, matched, restated>>
    BY DEF AttributionInv, AttributionTypeOK, WriteAttributions
  <1>3. edges' \in [Folder -> [App -> Edge]]
    <2>1. ASSUME NEW f \in Folder, NEW a \in App,
                 \E d \in batch : d.folder = f /\ d.app = a /\ ~Untouchable(f)
          PROVE  Merged(edges[f][a], (CHOOSE d \in batch : d.folder = f).origin) \in Edge
      <3>1. (CHOOSE d \in batch : d.folder = f) \in batch
        BY <2>1
      <3>2. (CHOOSE d \in batch : d.folder = f) \in AttributionRow
        BY <1>2, <3>1 DEF Attribution
      <3>3. (CHOOSE d \in batch : d.folder = f).origin \in Edge
        BY <3>2 DEF AttributionRow, Edge
      <3>4. edges[f][a] \in Edge
        BY <1>2 DEF AttributionTypeOK
      <3> QED
        BY <3>3, <3>4 DEF Merged
    <2>2. \A f \in Folder, a \in App : edges[f][a] \in Edge
      BY <1>2 DEF AttributionTypeOK
    <2> QED
      BY <1>1, <2>1, <2>2
  <1>4. attribution' \in Attribution /\ RowsAreClear'
    <2>1. CASE batch = attribution.rows
      BY <1>1, <2>1, NoRunIsOne DEF RowsAreClear
    <2>2. CASE batch # attribution.rows
      <3>1. attribution' = [attribution EXCEPT !.rows = @ \ batch]
        BY <1>1, <2>2
      <3>2. attribution'.rows \subseteq attribution.rows
            /\ attribution'.inputs = attribution.inputs /\ attribution' \in Attribution
        BY <1>2, <3>1 DEF Attribution
      <3> QED
        BY <1>2, <3>2 DEF AttributionInv, RowsAreClear
    <2> QED
      BY <2>1, <2>2
  <1> QED
    BY <1>2, <1>3, <1>4 DEF AttributionInv, AttributionTypeOK

LEMMA PinInv == AttributionInv /\ PinFolders => AttributionInv'
  <1> SUFFICES ASSUME AttributionInv, PinFolders PROVE AttributionInv'
    OBVIOUS
  <1>1. AttributionTypeOK /\ UNCHANGED <<authored, matched, attribution>>
    BY DEF AttributionInv, PinFolders
  <1>2. PICK c \in Code, a \in App, only \in Folder \union {NoCode} :
           edges' = [f \in Folder |->
                        IF f \in {g \in Folder : CodeOf[g] = c /\ only \in {g, NoCode}}
                        THEN [edges[f] EXCEPT ![a] = Merged(@, "manual-pin")]
                        ELSE edges[f]]
    BY DEF PinFolders
  <1>3. ASSUME NEW f \in Folder
        PROVE  [edges[f] EXCEPT ![a] = Merged(@, "manual-pin")] \in [App -> Edge]
               /\ edges[f] \in [App -> Edge]
    BY <1>1 DEF AttributionTypeOK, Merged, Edge, Origin
  <1>4. edges' \in [Folder -> [App -> Edge]]
    BY <1>2, <1>3
  <1>5. restated' \in 0 .. MaxRestated
    BY <1>1, AttributionAssumption DEF PinFolders, Restating, AttributionTypeOK
  <1> QED
    BY <1>1, <1>4, <1>5 DEF AttributionInv, AttributionTypeOK, RowsAreClear

LEMMA AttributionStepInv == AttributionInv /\ [AttributionNext]_attributionVars => AttributionInv'
  <1> SUFFICES ASSUME AttributionInv, [AttributionNext]_attributionVars PROVE AttributionInv'
    OBVIOUS
  <1>1. CASE RestateMapping
    BY <1>1, AttributionAssumption
       DEF RestateMapping, Restating, AttributionInv, AttributionTypeOK, RowsAreClear
  <1>2. CASE MatchJobs
    BY <1>2, AttributionAssumption
       DEF MatchJobs, Restating, AttributionInv, AttributionTypeOK, RowsAreClear
  <1>3. CASE StopAttribution
    BY <1>3, NoRunIsOne
       DEF StopAttribution, AttributionInv, AttributionTypeOK, RowsAreClear
  <1>4. CASE UNCHANGED attributionVars
    BY <1>4 DEF attributionVars, AttributionInv, AttributionTypeOK, RowsAreClear
  <1> QED
    BY <1>1, <1>2, <1>3, <1>4, PinInv, ResolveInv, WriteInv DEF AttributionNext

\* The inductive invariant holds through every run and manual load (folder_attribution.py).
THEOREM AttributionInvariant == AttributionSpec => []AttributionInv
  BY AttributionInitInv, AttributionStepInv, PTL DEF AttributionSpec

\* Mappings, edges and runs stay well formed (folder_attribution.py, manual_seal_attribution).
THEOREM AttributionTypeCorrect == AttributionSpec => []AttributionTypeOK
  BY AttributionInvariant, PTL DEF AttributionInv

\* The property, of one edge.
ClearAt(f, a) ==
    (attribution.at = "write" /\ attribution' # attribution /\ edges'[f][a] # edges[f][a])
        => /\ \A b \in App : edges[f][b] # "manual-pin"
           /\ ClearOwner(attribution.inputs, f, a)

LEMMA WritesAreClear ==
    ASSUME AttributionInv, [AttributionNext]_attributionVars, NEW f \in Folder, NEW a \in App
    PROVE  ClearAt(f, a)
  <1> SUFFICES ASSUME attribution.at = "write", attribution' # attribution,
                      edges'[f][a] # edges[f][a]
               PROVE  /\ \A b \in App : edges[f][b] # "manual-pin"
                      /\ ClearOwner(attribution.inputs, f, a)
    BY DEF ClearAt
  <1>1. WriteAttributions
    BY DEF AttributionNext, attributionVars, RestateMapping, MatchJobs, PinFolders,
           ResolveFolders, StopAttribution
  <1>2. PICK batch \in SUBSET attribution.rows :
           edges' = [g \in Folder |-> [b \in App |->
                  IF \E d \in batch : d.folder = g /\ d.app = b /\ ~Untouchable(g)
                  THEN Merged(edges[g][b], (CHOOSE d \in batch : d.folder = g).origin)
                  ELSE edges[g][b]]]
    BY <1>1 DEF WriteAttributions
  <1>3. PICK d \in batch : d.folder = f /\ d.app = a /\ ~Untouchable(f)
    BY <1>2
  <1>4. ClearOwner(attribution.inputs, f, a)
    BY <1>3 DEF AttributionInv, RowsAreClear
  <1> QED
    BY <1>3, <1>4 DEF Untouchable, Pinned

\* Every edge an automated run adds names the one application that its inputs give the
\* folder, and never stands beside a pin (resolve_folder_attributions, the template's
\* WHERE NOT EXISTS).
THEOREM OwnersAreClear == AttributionSpec => OnlyClearOwnersAreWritten
  <1>1. AttributionInv /\ [AttributionNext]_attributionVars
        => [\A f \in Folder, a \in App : ClearAt(f, a)]_attributionVars
    BY WritesAreClear
  <1>2. OnlyClearOwnersAreWritten <=> [][\A f \in Folder, a \in App : ClearAt(f, a)]_attributionVars
    BY DEF OnlyClearOwnersAreWritten, ClearAt
  <1> QED
    BY <1>1, <1>2, AttributionInvariant, PTL DEF AttributionSpec

----------------------------------------------------------------------------
(* FixTracking. *)

\* A change-set about to be written found all its targets, and still finds those that
\* no sweep has taken since.
ResolvedStay ==
    \A o \in Applier :
        changeSet[o].at = "write" => changeSet[o].targets \ changeSet[o].lost \subseteq inGraph

\* Fixes are compared with NoFix, so a change-set must name a real one.
FixInv == FixTypeOK /\ ResolvedStay

\* The change-set nobody is at.
LEMMA NoChangeSetIsOne ==
    /\ NoChangeSet \in ChangeSet
    /\ NoChangeSet.at = "none"
  <1>1. (CHOOSE x \in Fix : TRUE) \in Fix
    BY FixAssumption
  <1> QED
    BY <1>1 DEF NoChangeSet, ChangeSet

LEMMA FixInitInv == FixInit => FixInv
  <1> SUFFICES ASSUME FixInit PROVE FixInv
    OBVIOUS
  <1>1. FixTypeOK
    BY NoChangeSetIsOne, FixAssumption DEF FixInit, FixTypeOK
  <1>2. ResolvedStay
    BY NoChangeSetIsOne DEF FixInit, ResolvedStay
  <1> QED
    BY <1>1, <1>2 DEF FixInv

\* One step per action; sweeps record what they take, everything else keeps the nodes.
LEMMA FixStepInv == FixInv /\ [FixNext]_fixVars => FixInv'
  <1> SUFFICES ASSUME FixInv, [FixNext]_fixVars PROVE FixInv'
    OBVIOUS
  <1> USE FixAssumption, NoChangeSetIsOne DEF FixInv, FixTypeOK
  <1>1. ASSUME NEW n \in Target, LoseNode(n) PROVE FixInv'
    <2>1. changeSet' \in [Applier -> ChangeSet]
      BY <1>1 DEF LoseNode, ChangeSet
    <2>2. ResolvedStay'
      BY <1>1 DEF LoseNode, ResolvedStay, ChangeSet
    <2> QED
      BY <1>1, <2>1, <2>2 DEF LoseNode
  <1>2. ASSUME NEW n \in Target, LoadNode(n) PROVE FixInv'
    BY <1>2 DEF LoadNode, ResolvedStay
  <1>3. ASSUME NEW o \in Applier, HandIn(o) PROVE FixInv'
    <2> PICK mode \in {"apply", "reject"}, x \in Fix, targets \in SUBSET Target :
          changeSet' = [changeSet EXCEPT ![o] =
              [NoChangeSet EXCEPT !.at = "preflight", !.mode = mode, !.fix = x,
                                  !.targets = targets]]
      BY <1>3 DEF HandIn
    <2> DEFINE new == [NoChangeSet EXCEPT !.at = "preflight", !.mode = mode, !.fix = x,
                                          !.targets = targets]
    <2>0. new \in ChangeSet /\ new.at = "preflight"
      BY DEF ChangeSet
    <2>1. changeSet' \in [Applier -> ChangeSet]
      BY <2>0
    <2>2. ResolvedStay'
      BY <1>3, <2>0 DEF HandIn, ResolvedStay
    <2> QED
      BY <1>3, <2>1, <2>2 DEF HandIn
  <1>4. ASSUME NEW o \in Applier, PreflightTargets(o) PROVE FixInv'
    <2>1. changeSet' \in [Applier -> ChangeSet]
      BY <1>4 DEF PreflightTargets, ChangeSet
    <2>2. ResolvedStay'
      BY <1>4 DEF PreflightTargets, ResolvedStay, Missing, ChangeSet
    <2> QED
      BY <1>4, <2>1, <2>2 DEF PreflightTargets
  <1>5. ASSUME NEW o \in Applier, WriteFix(o) PROVE FixInv'
    <2>1. fixOf' \in [Target -> Fix \union {NoFix}]
      BY <1>5 DEF WriteFix, ChangeSet
    <2>2. ResolvedStay'
      BY <1>5 DEF WriteFix, ResolvedStay
    <2> QED
      BY <1>5, <2>1, <2>2 DEF WriteFix
  <1>6. ASSUME NEW o \in Applier, FailFix(o) PROVE FixInv'
    BY <1>6 DEF FailFix, ResolvedStay
  <1>7. CASE UNCHANGED fixVars
    BY <1>7 DEF fixVars, ResolvedStay
  <1> QED
    BY <1>1, <1>2, <1>3, <1>4, <1>5, <1>6, <1>7 DEF FixNext

\* The inductive invariant holds throughout (FixTrackingLoader).
THEOREM FixInvariant == FixSpec => []FixInv
  BY FixInitInv, FixStepInv, PTL DEF FixSpec

\* Marks are a fix's or none, change-sets are well formed, whatever commands and sweeps
\* come together (FixTrackingLoader, sweep_removed).
THEOREM FixTypeCorrect == FixSpec => []FixTypeOK
  BY FixInvariant, PTL DEF FixInv

\* A change-set is done when its applier is back at none and a mark has changed.
WholeAt(o) ==
    LET c == changeSet[o] IN
    (c.at = "write" /\ changeSet'[o].at = "none" /\ fixOf' # fixOf) =>
        /\ \A n \in c.targets \ c.lost :
              n \in inGraph /\ (c.mode = "apply" <=> fixOf'[n] = c.fix)
        /\ \A n \in Target :
              fixOf'[n] # fixOf[n] => n \in c.targets /\ c.fix \in {fixOf[n], fixOf'[n]}

\* Only the write of a change-set both ends it and changes a mark.
LEMMA OnlyWriteFixEnds ==
    ASSUME FixInv, [FixNext]_fixVars, NEW o \in Applier,
           changeSet[o].at = "write", changeSet'[o].at = "none", fixOf' # fixOf
    PROVE  WriteFix(o)
  <1> USE DEF FixInv, FixTypeOK
  <1>1. ASSUME NEW n \in Target, LoseNode(n) PROVE FALSE
    BY <1>1 DEF LoseNode, ChangeSet
  <1>2. ASSUME NEW n \in Target, LoadNode(n) PROVE FALSE
    BY <1>2 DEF LoadNode
  <1>3. ASSUME NEW p \in Applier, HandIn(p) PROVE FALSE
    BY <1>3 DEF HandIn
  <1>4. ASSUME NEW p \in Applier, PreflightTargets(p) PROVE FALSE
    BY <1>4 DEF PreflightTargets
  <1>5. ASSUME NEW p \in Applier, WriteFix(p) PROVE WriteFix(o)
    <2>1. p = o
      BY <1>5 DEF WriteFix
    <2> QED
      BY <1>5, <2>1
  <1>6. ASSUME NEW p \in Applier, FailFix(p) PROVE FALSE
    BY <1>6 DEF FailFix
  <1>7. ~UNCHANGED fixVars
    BY DEF fixVars
  <1> QED
    BY <1>1, <1>2, <1>3, <1>4, <1>5, <1>6, <1>7 DEF FixNext

LEMMA WritesAreWhole ==
    ASSUME FixInv, [FixNext]_fixVars, NEW o \in Applier PROVE WholeAt(o)
  <1> SUFFICES ASSUME changeSet[o].at = "write", changeSet'[o].at = "none", fixOf' # fixOf
               PROVE  /\ \A n \in changeSet[o].targets \ changeSet[o].lost :
                            /\ n \in inGraph
                            /\ changeSet[o].mode = "apply" <=> fixOf'[n] = changeSet[o].fix
                      /\ \A n \in Target :
                            fixOf'[n] # fixOf[n] =>
                                /\ n \in changeSet[o].targets
                                /\ changeSet[o].fix \in {fixOf[n], fixOf'[n]}
    BY DEF WholeAt
  <1>1. WriteFix(o)
    BY OnlyWriteFixEnds
  <1>2. changeSet[o] \in ChangeSet
    BY DEF FixInv, FixTypeOK
  <1>3. ASSUME NEW n \in changeSet[o].targets \ changeSet[o].lost
        PROVE  /\ n \in inGraph
               /\ changeSet[o].mode = "apply" <=> fixOf'[n] = changeSet[o].fix
    <2>1. n \in inGraph /\ n \in Target
      BY <1>2, <1>3 DEF FixInv, ResolvedStay, ChangeSet
    <2> QED
      BY <1>1, <1>2, <1>3, <2>1, FixAssumption DEF WriteFix, Strips, ChangeSet
  <1>4. ASSUME NEW n \in Target, fixOf'[n] # fixOf[n]
        PROVE  n \in changeSet[o].targets /\ changeSet[o].fix \in {fixOf[n], fixOf'[n]}
    BY <1>1, <1>2, <1>4 DEF WriteFix, Strips, ChangeSet
  <1> QED
    BY <1>3, <1>4

\* A change-set is applied or rejected as a whole, to every target that was resolved and
\* not swept since, and touches no other fix's marks (fix_tracking.cypher,
\* _preflight_targets).
THEOREM ChangeSetsAreWhole == FixSpec => ChangeSetIsWhole
  <1>1. FixInv /\ [FixNext]_fixVars => [\A o \in Applier : WholeAt(o)]_fixVars
    BY WritesAreWhole
  <1>2. ChangeSetIsWhole <=> [][\A o \in Applier : WholeAt(o)]_fixVars
    BY DEF ChangeSetIsWhole, WholeAt
  <1> QED
    BY <1>1, <1>2, FixInvariant, PTL DEF FixSpec

----------------------------------------------------------------------------
(* Staging: tables, and the steps of a command. *)

LEMMA TableIs ==
    ASSUME NEW S, NEW T, NEW f
    PROVE  f \in Tables(S, T) <=> DOMAIN f \subseteq S /\ f \in [DOMAIN f -> T]
  BY DEF Tables

LEMMA BuildsTable ==
    ASSUME NEW S, NEW T, NEW D, D \subseteq S, NEW f \in [D -> T]
    PROVE  f \in Tables(S, T) /\ DOMAIN f = D
  BY DEF Tables

LEMMA NothingIsATable ==
    ASSUME NEW S, NEW T
    PROVE  Nothing \in Tables(S, T) /\ DOMAIN Nothing = {}
  <1>1. Nothing \in [{} -> T]
    BY DEF Nothing
  <1> QED
    BY <1>1, BuildsTable

LEMMA EmptyIsNothing ==
    ASSUME NEW S, NEW T, NEW f \in Tables(S, T), DOMAIN f = {}
    PROVE  f = Nothing
  BY TableIs DEF Nothing

LEMMA FollowingIs ==
    /\ Following("parsed") = "parses" /\ Following("parses") = "verdicts"
    /\ Following("verdicts") = "detail" /\ Following("detail") = "meta"
    /\ Following("meta") = "create"
  <1>1. ASSUME NEW step, NEW n \in 1 .. 5, DropOrder[n] = step,
               \A i \in 1 .. 5 : DropOrder[i] = step => i = n
        PROVE  Following(step) = DropOrder[n + 1]
    <2>1. (CHOOSE i \in 1 .. 5 : DropOrder[i] = step) = n
      BY <1>1
    <2> QED
      BY <2>1 DEF Following
  <1>2. /\ DropOrder[1] = "parsed" /\ DropOrder[2] = "parses" /\ DropOrder[3] = "verdicts"
        /\ DropOrder[4] = "detail" /\ DropOrder[5] = "meta" /\ DropOrder[6] = "create"
    BY DEF DropOrder
  <1>3. \A i \in 1 .. 5 : i = 1 \/ i = 2 \/ i = 3 \/ i = 4 \/ i = 5
    OBVIOUS
  <1>4. Following("parsed") = DropOrder[1 + 1]
    BY <1>1, <1>2, <1>3
  <1>5. Following("parses") = DropOrder[2 + 1]
    BY <1>1, <1>2, <1>3
  <1>6. Following("verdicts") = DropOrder[3 + 1]
    BY <1>1, <1>2, <1>3
  <1>7. Following("detail") = DropOrder[4 + 1]
    BY <1>1, <1>2, <1>3
  <1>8. Following("meta") = DropOrder[5 + 1]
    BY <1>1, <1>2, <1>3
  <1> QED
    BY <1>2, <1>4, <1>5, <1>6, <1>7, <1>8

LEMMA StoreTyped ==
    ASSUME StagingTypeOK
    PROVE  /\ db.there \in BOOLEAN /\ db.stamp \in BOOLEAN
           /\ db.missing \subseteq {"parsed", "parses", "verdicts", "detail"}
           /\ db.detail \in Tables(StagedJob, DetailRow)
           /\ db.verdicts \in Tables(StagedJob, Verdict)
           /\ db.parses \in Tables(StagedJob, ParsedFrom)
           /\ db.exported \in Tables(StagedJob, Line)
           /\ db \in Store
  BY DEF StagingTypeOK, Store

LEMMA NoCommandTyped ==
    NoCommand \in Command /\ NoCommand.at = "idle" /\ NoCommand.lone = TRUE
  BY NothingIsATable DEF NoCommand, Command

\* The command of t becomes c, the others stay.
Becomes(t, c) ==
    /\ command' \in [Terminal -> Command]
    /\ command'[t] = c
    /\ \A u \in Terminal \ {t} : command'[u] = command[u]

LEMMA RunsOn ==
    ASSUME StagingTypeOK, NEW t \in Terminal, NEW c \in Command, Runs(t, c)
    PROVE  Becomes(t, c)
  BY DEF Runs, Becomes, StagingTypeOK

Running(t) == command[t].at # "idle"

\* t starts at step; whoever else runs is no longer alone.
Begins(t, step, op) ==
    /\ ~Running(t) /\ command' \in [Terminal -> Command]
    /\ command'[t].at = step /\ command'[t].op = op
    /\ command'[t].lone = Alone(t)
    /\ \A u \in Terminal \ {t} :
          /\ command'[u].at = command[u].at /\ command'[u].op = command[u].op
          /\ command'[u].lone => command[u].at = "idle"
    /\ mixed' = (mixed \/ ~Alone(t))

LEMMA StartBegins ==
    ASSUME StagingTypeOK, NEW t \in Terminal, NEW c \in Command, Start(t, c)
    PROVE  Begins(t, c.at, c.op) /\ mixed' \in BOOLEAN
  <1> DEFINE n == [c EXCEPT !.lone = Alone(t)]
             o(u) == [command[u] EXCEPT !.lone = command[u].at = "idle"]
  <1>1. Alone(t) \in BOOLEAN
    BY DEF Alone
  <1>2. n \in Command /\ n.at = c.at /\ n.op = c.op /\ n.lone = Alone(t)
    <2> DEFINE b == Alone(t)
    <2> HIDE DEF b
    <2>1. b \in BOOLEAN
      BY <1>1 DEF b
    <2>2. [c EXCEPT !.lone = b] \in Command /\ [c EXCEPT !.lone = b].at = c.at
          /\ [c EXCEPT !.lone = b].op = c.op /\ [c EXCEPT !.lone = b].lone = b
      BY <2>1 DEF Command
    <2> QED
      BY <2>2 DEF b
  <1>3. ASSUME NEW u \in Terminal
        PROVE  /\ o(u) \in Command /\ o(u).at = command[u].at /\ o(u).op = command[u].op
               /\ o(u).lone => command[u].at = "idle"
    <2> DEFINE q == command[u]
               b == q.at = "idle"
    <2>1. q \in Command /\ b \in BOOLEAN
      BY DEF StagingTypeOK
    <2>2. o(u) = [q EXCEPT !.lone = b]
      OBVIOUS
    <2> HIDE DEF b, q, o
    <2>3. /\ [q EXCEPT !.lone = b] \in Command /\ [q EXCEPT !.lone = b].at = q.at
          /\ [q EXCEPT !.lone = b].op = q.op
          /\ [q EXCEPT !.lone = b].lone = b
      BY <2>1 DEF Command
    <2> QED
      BY <2>2, <2>3 DEF b, q
  <1> HIDE DEF n, o
  <1>4. /\ command[t].at = "idle" /\ mixed' = (mixed \/ ~Alone(t))
        /\ command' = [u \in Terminal |-> IF u = t THEN n ELSE o(u)]
    BY DEF Start, n, o
  <1>5. command' \in [Terminal -> Command]
    BY <1>2, <1>3, <1>4
  <1>6. command'[t] = n /\ \A u \in Terminal \ {t} : command'[u] = o(u)
    BY <1>4
  <1>7. mixed' \in BOOLEAN
    BY <1>1, <1>4 DEF StagingTypeOK
  <1> QED
    BY <1>2, <1>3, <1>4, <1>5, <1>6, <1>7 DEF Begins, Running

Ready == \A t \in Terminal : command[t].at = "rows" => command[t].op # "export"

StagingTyped == StagingTypeOK /\ Ready

LEMMA StartExportStep ==
    ASSUME StagingTypeOK, NEW t \in Terminal, StartExport(t)
    PROVE  /\ Begins(t, "parsed", "export") /\ mixed' \in BOOLEAN /\ db' \in Store
           /\ UNCHANGED <<db.stamp, db.exported, db.detail, db.verdicts, db.parses>>
           /\ UNCHANGED <<jobs, reloads, halfDropped>>
  <1> DEFINE c == [NoCommand EXCEPT !.at = "parsed", !.op = "export", !.read = jobs]
             n == [db EXCEPT !.there = TRUE]
  <1>1. c \in Command /\ c.at = "parsed" /\ c.op = "export"
    BY NoCommandTyped DEF Command, StagingTypeOK
  <1>2. Start(t, c) /\ db' = n /\ UNCHANGED <<jobs, reloads, halfDropped>>
    BY DEF StartExport
  <1> HIDE DEF c
  <1>3. Begins(t, c.at, c.op) /\ mixed' \in BOOLEAN
    BY <1>1, <1>2, StartBegins
  <1>4. /\ n \in Store /\ n.stamp = db.stamp /\ n.exported = db.exported /\ n.detail = db.detail
        /\ n.verdicts = db.verdicts /\ n.parses = db.parses
    BY StoreTyped DEF Store
  <1> HIDE DEF n
  <1> QED
    BY <1>1, <1>2, <1>3, <1>4

\* The command of t goes on to step, with what it had.
Proceeds(t, step) ==
    /\ Becomes(t, command'[t]) /\ command'[t].at = step
    /\ command'[t].op = command[t].op /\ command'[t].lone = command[t].lone
    /\ command'[t].read = command[t].read /\ command'[t].rows = command[t].rows

LEMMA StepProceeds ==
    ASSUME StagingTypeOK, NEW t \in Terminal,
           NEW step \in {"parses", "verdicts", "detail", "meta", "create", "fill"},
           Runs(t, [command[t] EXCEPT !.at = step])
    PROVE  Proceeds(t, step)
  <1> DEFINE q == command[t]
             n == [q EXCEPT !.at = step]
  <1>1. q \in Command
    BY DEF StagingTypeOK
  <1>2. Runs(t, n)
    OBVIOUS
  <1> HIDE DEF q
  <1>3. n \in Command /\ n.at = step /\ n.op = q.op /\ n.lone = q.lone /\ n.read = q.read
        /\ n.rows = q.rows
    BY <1>1 DEF Command
  <1> HIDE DEF n
  <1>4. Becomes(t, n)
    BY <1>2, <1>3, RunsOn
  <1> QED
    BY <1>3, <1>4 DEF Proceeds, Becomes, q

LEMMA DropStep ==
    ASSUME StagingTypeOK, NEW t \in Terminal, Drop(t)
    PROVE  /\ db' \in Store /\ db'.exported = db.exported
           /\ UNCHANGED <<jobs, reloads, mixed, halfDropped>>
           /\ \/ /\ command[t].at = "parsed" /\ Proceeds(t, "parses")
                 /\ UNCHANGED <<db.stamp, db.detail, db.verdicts, db.parses>>
              \/ /\ command[t].at = "parses" /\ Proceeds(t, "verdicts")
                 /\ db'.parses = Nothing
                 /\ UNCHANGED <<db.stamp, db.detail, db.verdicts>>
              \/ /\ command[t].at = "verdicts" /\ Proceeds(t, "detail")
                 /\ db'.verdicts = Nothing
                 /\ UNCHANGED <<db.stamp, db.detail, db.parses>>
              \/ /\ command[t].at = "detail" /\ Proceeds(t, "meta")
                 /\ db'.detail = Nothing
                 /\ UNCHANGED <<db.stamp, db.verdicts, db.parses>>
              \/ /\ command[t].at = "meta" /\ Proceeds(t, "create")
                 /\ db'.stamp = FALSE
                 /\ UNCHANGED <<db.detail, db.verdicts, db.parses>>
  <1>1. /\ db' = Dropped(command[t].at)
        /\ Runs(t, [command[t] EXCEPT !.at = Following(command[t].at)])
        /\ UNCHANGED <<jobs, reloads, mixed, halfDropped>>
    BY DEF Drop
  <1>2. ASSUME NEW table \in {"parsed", "parses", "verdicts", "detail"}
        PROVE  db.missing \union {table} \subseteq {"parsed", "parses", "verdicts", "detail"}
    BY <1>2, StoreTyped
  <1>3. /\ Nothing \in Tables(StagedJob, DetailRow) /\ Nothing \in Tables(StagedJob, Verdict)
        /\ Nothing \in Tables(StagedJob, ParsedFrom)
    BY NothingIsATable
  <1>8. CASE command[t].at = "parsed"
    <2> DEFINE m == db.missing \union {"parsed"}
               n == [db EXCEPT !.missing = m]
    <2>1. db' = n
      BY <1>1, <1>8 DEF Dropped
    <2>2. m \subseteq {"parsed", "parses", "verdicts", "detail"}
      BY <1>2
    <2> HIDE DEF m
    <2>3. /\ n \in Store /\ n.stamp = db.stamp /\ n.exported = db.exported /\ n.parses = db.parses
          /\ n.detail = db.detail /\ n.verdicts = db.verdicts
      BY <2>2, StoreTyped DEF Store
    <2> HIDE DEF n
    <2>4. Proceeds(t, "parses")
      BY <1>1, <1>8, FollowingIs, StepProceeds
    <2> QED
      BY <1>1, <1>8, <2>1, <2>3, <2>4
  <1>4. CASE command[t].at = "parses"
    <2> DEFINE m == db.missing \union {"parses"}
               n == [db EXCEPT !.parses = Nothing, !.missing = m]
    <2>1. db' = n
      BY <1>1, <1>4 DEF Dropped
    <2>2. m \subseteq {"parsed", "parses", "verdicts", "detail"}
      BY <1>2
    <2> HIDE DEF m
    <2>3. /\ n \in Store /\ n.stamp = db.stamp /\ n.exported = db.exported /\ n.parses = Nothing
          /\ n.detail = db.detail /\ n.verdicts = db.verdicts
      BY <1>3, <2>2, StoreTyped DEF Store
    <2> HIDE DEF n
    <2>4. Proceeds(t, "verdicts")
      BY <1>1, <1>4, FollowingIs, StepProceeds
    <2> QED
      BY <1>1, <1>4, <2>1, <2>3, <2>4
  <1>5. CASE command[t].at = "verdicts"
    <2> DEFINE m == db.missing \union {"verdicts"}
               n == [db EXCEPT !.verdicts = Nothing, !.missing = m]
    <2>1. db' = n
      BY <1>1, <1>5 DEF Dropped
    <2>2. m \subseteq {"parsed", "parses", "verdicts", "detail"}
      BY <1>2
    <2> HIDE DEF m
    <2>3. /\ n \in Store /\ n.stamp = db.stamp /\ n.exported = db.exported /\ n.verdicts = Nothing
          /\ n.detail = db.detail /\ n.parses = db.parses
      BY <1>3, <2>2, StoreTyped DEF Store
    <2> HIDE DEF n
    <2>4. Proceeds(t, "detail")
      BY <1>1, <1>5, FollowingIs, StepProceeds
    <2> QED
      BY <1>1, <1>5, <2>1, <2>3, <2>4
  <1>6. CASE command[t].at = "detail"
    <2> DEFINE m == db.missing \union {"detail"}
               n == [db EXCEPT !.detail = Nothing, !.missing = m]
    <2>1. db' = n
      BY <1>1, <1>6 DEF Dropped
    <2>2. m \subseteq {"parsed", "parses", "verdicts", "detail"}
      BY <1>2
    <2> HIDE DEF m
    <2>3. /\ n \in Store /\ n.stamp = db.stamp /\ n.exported = db.exported /\ n.detail = Nothing
          /\ n.verdicts = db.verdicts /\ n.parses = db.parses
      BY <1>3, <2>2, StoreTyped DEF Store
    <2> HIDE DEF n
    <2>4. Proceeds(t, "meta")
      BY <1>1, <1>6, FollowingIs, StepProceeds
    <2> QED
      BY <1>1, <1>6, <2>1, <2>3, <2>4
  <1>7. CASE command[t].at = "meta"
    <2> DEFINE n == [db EXCEPT !.stamp = FALSE]
    <2>1. db' = n
      BY <1>1, <1>7 DEF Dropped
    <2>2. /\ n \in Store /\ n.stamp = FALSE /\ n.exported = db.exported /\ n.detail = db.detail
          /\ n.verdicts = db.verdicts /\ n.parses = db.parses
      BY StoreTyped DEF Store
    <2> HIDE DEF n
    <2>3. Proceeds(t, "create")
      BY <1>1, <1>7, FollowingIs, StepProceeds
    <2> QED
      BY <1>1, <1>7, <2>1, <2>2, <2>3
  <1> QED
    BY <1>4, <1>5, <1>6, <1>7, <1>8 DEF Drop

\* CREATE TABLE IF NOT EXISTS leaves every row where it is.
LEMMA CreatedKeeps ==
    ASSUME StagingTypeOK
    PROVE  /\ Created \in Store /\ Created.stamp = db.stamp /\ Created.exported = db.exported
           /\ Created.detail = db.detail /\ Created.verdicts = db.verdicts
           /\ Created.parses = db.parses
  BY StoreTyped DEF Created, Store

LEMMA CreateStep ==
    ASSUME StagingTypeOK, NEW t \in Terminal, Create(t)
    PROVE  /\ command[t].at = "create" /\ Proceeds(t, "fill") /\ db' \in Store
           /\ UNCHANGED <<db.stamp, db.exported, db.detail, db.verdicts, db.parses>>
           /\ UNCHANGED <<jobs, reloads, mixed, halfDropped>>
  <1>1. Proceeds(t, "fill")
    BY StepProceeds DEF Create
  <1>2. command[t].at = "create" /\ db' = Created /\ UNCHANGED <<jobs, reloads, mixed, halfDropped>>
    BY DEF Create
  <1> QED
    BY <1>1, <1>2, CreatedKeeps

LEMMA ConnectStep ==
    ASSUME StagingTypeOK, NEW t \in Terminal, NEW op \in {"resolve", "parse"}, Connect(t, op)
    PROVE  /\ db' \in Store /\ mixed' \in BOOLEAN
           /\ UNCHANGED <<db.stamp, db.exported, db.detail, db.verdicts, db.parses>>
           /\ UNCHANGED <<jobs, reloads, halfDropped>>
           /\ \/ Begins(t, "rows", op)
              \/ UNCHANGED <<command, mixed>>
  <1>1. db' = Created /\ UNCHANGED <<jobs, reloads, halfDropped>>
    BY DEF Connect
  <1>2. /\ db' \in Store
        /\ UNCHANGED <<db.stamp, db.exported, db.detail, db.verdicts, db.parses>>
    BY <1>1, CreatedKeeps
  <1>3. CASE db.stamp
    <2> DEFINE c == [NoCommand EXCEPT !.at = "rows", !.op = op]
    <2>1. c \in Command /\ c.at = "rows" /\ c.op = op
      BY NoCommandTyped DEF Command
    <2>2. Start(t, c)
      BY <1>3 DEF Connect
    <2> HIDE DEF c
    <2>3. Begins(t, c.at, c.op) /\ mixed' \in BOOLEAN
      BY <2>1, <2>2, StartBegins
    <2> QED
      BY <1>1, <1>2, <2>1, <2>3
  <1>4. CASE ~db.stamp
    BY <1>1, <1>2, <1>4 DEF Connect, StagingTypeOK
  <1> QED
    BY <1>3, <1>4

LEMMA ReadRowsStep ==
    ASSUME StagingTyped, NEW t \in Terminal, ReadRows(t)
    PROVE  /\ command[t].at = "rows" /\ UNCHANGED <<jobs, reloads, db, mixed, halfDropped>>
           /\ \/ Becomes(t, NoCommand)
              \/ /\ Becomes(t, command'[t]) /\ command'[t].at \in {"resolve", "parse"}
                 /\ command'[t].rows = db.detail /\ command'[t].lone = command[t].lone
  <1>1. command[t].at = "rows" /\ UNCHANGED <<jobs, reloads, db, mixed, halfDropped>>
    BY DEF ReadRows
  <1>2. CASE "detail" \in db.missing
    <2>1. Runs(t, NoCommand)
      BY <1>2 DEF ReadRows
    <2> QED
      BY <1>1, <2>1, NoCommandTyped, RunsOn DEF StagingTyped
  <1>3. CASE "detail" \notin db.missing
    <2> DEFINE q == command[t]
               n == [q EXCEPT !.at = q.op, !.rows = db.detail]
    <2>1. Runs(t, n)
      BY <1>3 DEF ReadRows
    <2>2. q \in Command /\ q.op # "export" /\ db.detail \in Tables(StagedJob, DetailRow)
      BY <1>1, StoreTyped DEF StagingTyped, StagingTypeOK, Ready
    <2> HIDE DEF q
    <2>3. q.op \in {"resolve", "parse"}
      BY <2>2 DEF Command
    <2>4. n \in Command /\ n.at = q.op /\ n.rows = db.detail /\ n.lone = q.lone
      BY <2>2, <2>3 DEF Command
    <2> HIDE DEF n
    <2>5. Becomes(t, n)
      BY <2>1, <2>4, RunsOn DEF StagingTyped
    <2> QED
      BY <1>1, <2>3, <2>4, <2>5 DEF Becomes, q
  <1> QED
    BY <1>2, <1>3

LEMMA KillStep ==
    ASSUME StagingTypeOK, NEW t \in Terminal, Kill(t)
    PROVE  /\ Becomes(t, NoCommand) /\ UNCHANGED <<jobs, reloads, db, mixed>>
           /\ halfDropped' = (halfDropped \/ command[t].at = "meta") /\ halfDropped' \in BOOLEAN
  BY NoCommandTyped, RunsOn DEF Kill, StagingTypeOK

\* The rows of an export, without resolved texts yet.
Exported(read) == [j \in DOMAIN read |-> [cmd |-> read[j], resolved |-> NoText]]

LEMMA ExportedTyped ==
    ASSUME NEW read \in Tables(StagedJob, Line)
    PROVE  /\ Exported(read) \in Tables(StagedJob, DetailRow)
           /\ DOMAIN Exported(read) = DOMAIN read
           /\ \A j \in DOMAIN read : Exported(read)[j].cmd = read[j]
           /\ \A j \in DOMAIN read : Exported(read)[j].resolved = NoText
  <1>1. DOMAIN read \subseteq StagedJob /\ \A j \in DOMAIN read : read[j] \in Line
    BY TableIs
  <1>2. NoText \in Line
    BY DEF Line
  <1>3. Exported(read) \in [DOMAIN read -> DetailRow]
    BY <1>1, <1>2 DEF Exported, DetailRow
  <1>4. Exported(read) \in Tables(StagedJob, DetailRow)
    BY <1>1, <1>3, BuildsTable
  <1> QED
    BY <1>4 DEF Exported

LEMMA InsertedTyped ==
    ASSUME NEW f \in Tables(StagedJob, DetailRow), NEW g \in Tables(StagedJob, DetailRow)
    PROVE  Inserted(f, g) \in Tables(StagedJob, DetailRow)
  <1>1. /\ DOMAIN f \subseteq StagedJob /\ \A j \in DOMAIN f : f[j] \in DetailRow
        /\ DOMAIN g \subseteq StagedJob /\ \A j \in DOMAIN g : g[j] \in DetailRow
    BY TableIs
  <1>2. Inserted(f, g) \in [DOMAIN f \union DOMAIN g -> DetailRow]
    BY <1>1 DEF Inserted
  <1> QED
    BY <1>1, <1>2, BuildsTable

LEMMA InsertedIntoNothing ==
    ASSUME NEW g \in Tables(StagedJob, DetailRow)
    PROVE  Inserted(Nothing, g) = g
  <1>1. DOMAIN Nothing = {} /\ g = [j \in DOMAIN g |-> g[j]]
    BY NothingIsATable, TableIs
  <1> QED
    BY <1>1 DEF Inserted

LEMMA FillStep ==
    ASSUME StagingTypeOK, NEW t \in Terminal, Fill(t)
    PROVE  /\ command[t].at = "fill" /\ Becomes(t, NoCommand) /\ UNCHANGED <<jobs, reloads>>
           /\ \/ UNCHANGED <<db, mixed, halfDropped>>
              \/ /\ db' \in Store /\ db'.stamp = TRUE /\ db'.exported = command[t].read
                 /\ db'.detail = Inserted(db.detail, Exported(command[t].read))
                 /\ UNCHANGED <<db.verdicts, db.parses>>
                 /\ mixed' = (mixed /\ ~command[t].lone)
                 /\ halfDropped' = (halfDropped /\ ~command[t].lone)
  <1> DEFINE c == command[t]
             fails == \/ db.stamp \/ "detail" \in db.missing
                      \/ DOMAIN db.detail \intersect DOMAIN c.read # {}
             d == Inserted(db.detail, Exported(c.read))
             n == [db EXCEPT !.detail = d, !.stamp = TRUE, !.exported = c.read]
  <1>1. c.at = "fill" /\ Runs(t, NoCommand) /\ UNCHANGED <<jobs, reloads>>
    BY DEF Fill
  <1>2. Becomes(t, NoCommand)
    BY <1>1, NoCommandTyped, RunsOn
  <1>3. CASE fails
    BY <1>1, <1>2, <1>3 DEF Fill
  <1>4. CASE ~fails
    <2>1. db' = n /\ mixed' = (mixed /\ ~c.lone) /\ halfDropped' = (halfDropped /\ ~c.lone)
      BY <1>4 DEF Fill, Exported
    <2>2. c.read \in Tables(StagedJob, Line)
      BY DEF StagingTypeOK, Command
    <2>3. d \in Tables(StagedJob, DetailRow)
      BY <2>2, StoreTyped, ExportedTyped, InsertedTyped
    <2> DEFINE r == c.read
    <2> HIDE DEF d, r, fails
    <2>4. [db EXCEPT !.detail = d, !.stamp = TRUE, !.exported = r] = n
      BY DEF r
    <2>5. r \in Tables(StagedJob, Line)
      BY <2>2 DEF r
    <2>6. /\ [db EXCEPT !.detail = d, !.stamp = TRUE, !.exported = r] \in Store
          /\ [db EXCEPT !.detail = d, !.stamp = TRUE, !.exported = r].stamp = TRUE
          /\ [db EXCEPT !.detail = d, !.stamp = TRUE, !.exported = r].exported = r
          /\ [db EXCEPT !.detail = d, !.stamp = TRUE, !.exported = r].detail = d
          /\ [db EXCEPT !.detail = d, !.stamp = TRUE, !.exported = r].verdicts = db.verdicts
          /\ [db EXCEPT !.detail = d, !.stamp = TRUE, !.exported = r].parses = db.parses
      BY <2>3, <2>5, StoreTyped DEF Store
    <2> HIDE DEF n
    <2>7. /\ n \in Store /\ n.stamp = TRUE /\ n.exported = r /\ n.detail = d
          /\ n.verdicts = db.verdicts /\ n.parses = db.parses
      BY <2>4, <2>6
    <2> QED
      BY <1>1, <1>2, <2>1, <2>7 DEF d, r
  <1> QED
    BY <1>3, <1>4

\* What a resolution does to the column: rows is what it has read.
Resolution(table, rows, changed) ==
    [j \in DOMAIN table |->
        [table[j] EXCEPT !.resolved = IF j \in changed THEN rows[j].cmd ELSE NoText]]

LEMMA ResolutionTyped ==
    ASSUME NEW table \in Tables(StagedJob, DetailRow), NEW rows \in Tables(StagedJob, DetailRow),
           NEW changed, changed \subseteq DOMAIN rows
    PROVE  /\ Resolution(table, rows, changed) \in Tables(StagedJob, DetailRow)
           /\ DOMAIN Resolution(table, rows, changed) = DOMAIN table
           /\ \A j \in DOMAIN table :
                 /\ Resolution(table, rows, changed)[j].cmd = table[j].cmd
                 /\ Resolution(table, rows, changed)[j].resolved =
                       IF j \in changed THEN rows[j].cmd ELSE NoText
  <1> DEFINE text(j) == IF j \in changed THEN rows[j].cmd ELSE NoText
             row(j) == [table[j] EXCEPT !.resolved = text(j)]
             f == Resolution(table, rows, changed)
  <1>1. /\ DOMAIN table \subseteq StagedJob /\ \A j \in DOMAIN table : table[j] \in DetailRow
        /\ \A j \in DOMAIN rows : rows[j] \in DetailRow
    BY TableIs
  <1>2. \A j : text(j) \in Line
    BY <1>1 DEF DetailRow, Line
  <1>3. ASSUME NEW j \in DOMAIN table
        PROVE  row(j) \in DetailRow /\ row(j).cmd = table[j].cmd /\ row(j).resolved = text(j)
    <2> DEFINE x == table[j]
               y == text(j)
    <2>1. x \in DetailRow /\ y \in Line
      BY <1>1, <1>2
    <2> HIDE DEF x, y
    <2>2. /\ [x EXCEPT !.resolved = y] \in DetailRow /\ [x EXCEPT !.resolved = y].cmd = x.cmd
          /\ [x EXCEPT !.resolved = y].resolved = y
      BY <2>1 DEF DetailRow
    <2> QED
      BY <2>2 DEF x, y
  <1>4. f = [j \in DOMAIN table |-> row(j)]
    BY DEF Resolution
  <1> HIDE DEF row, text, f
  <1>5. f \in [DOMAIN table -> DetailRow] /\ DOMAIN f = DOMAIN table
        /\ \A j \in DOMAIN table : f[j] = row(j)
    BY <1>3, <1>4
  <1>6. f \in Tables(StagedJob, DetailRow)
    BY <1>1, <1>5, BuildsTable
  <1> QED
    BY <1>3, <1>5, <1>6 DEF text, f

LEMMA WriteResolutionStep ==
    ASSUME StagingTypeOK, NEW t \in Terminal, WriteResolution(t)
    PROVE  /\ command[t].at = "resolve" /\ Becomes(t, NoCommand) /\ db' \in Store
           /\ UNCHANGED <<jobs, reloads, mixed, halfDropped>>
           /\ UNCHANGED <<db.stamp, db.exported, db.parses>>
           /\ \E verdict \in [DOMAIN command[t].rows -> Verdict],
                 changed \in SUBSET DOMAIN command[t].rows :
                 /\ db'.verdicts = verdict
                 /\ \A j \in DOMAIN command[t].rows :
                       /\ verdict[j] \in Outcomes(command[t].rows[j])
                       /\ verdict[j] = "resolved" => j \in changed
                       /\ verdict[j] \in {"left", "no_cmd_line"} => j \notin changed
                 /\ db'.detail = Resolution(db.detail, command[t].rows, changed)
  <1> DEFINE rows == command[t].rows
  <1>1. PICK verdict \in [DOMAIN rows -> Verdict], changed \in SUBSET DOMAIN rows :
           /\ \A j \in DOMAIN rows :
                 /\ verdict[j] \in Outcomes(rows[j])
                 /\ verdict[j] = "resolved" => j \in changed
                 /\ verdict[j] \in {"left", "no_cmd_line"} => j \notin changed
           /\ db' = [db EXCEPT !.verdicts = verdict,
                               !.detail = Resolution(db.detail, rows, changed)]
    BY DEF WriteResolution, Resolution
  <1>2. command[t].at = "resolve" /\ Runs(t, NoCommand)
        /\ UNCHANGED <<jobs, reloads, mixed, halfDropped>>
    BY DEF WriteResolution
  <1>3. Becomes(t, NoCommand)
    BY <1>2, NoCommandTyped, RunsOn
  <1>4. rows \in Tables(StagedJob, DetailRow)
    BY DEF StagingTypeOK, Command
  <1> HIDE DEF rows
  <1> DEFINE d == Resolution(db.detail, rows, changed)
             n == [db EXCEPT !.verdicts = verdict, !.detail = d]
  <1>5. d \in Tables(StagedJob, DetailRow)
    BY <1>4, StoreTyped, ResolutionTyped
  <1>6. verdict \in Tables(StagedJob, Verdict)
    BY <1>4, TableIs, BuildsTable
  <1> HIDE DEF d
  <1>7. /\ n \in Store /\ n.stamp = db.stamp /\ n.exported = db.exported /\ n.parses = db.parses
        /\ n.verdicts = verdict /\ n.detail = d
    BY <1>5, <1>6, StoreTyped DEF Store
  <1>8. db' = n
    BY <1>1 DEF d
  <1> HIDE DEF n
  <1>9. db'.detail = Resolution(db.detail, rows, changed) /\ db'.verdicts = verdict
    BY <1>7, <1>8 DEF d
  <1>10. /\ db' \in Store /\ UNCHANGED <<db.stamp, db.exported, db.parses>>
    BY <1>7, <1>8
  <1> QED
    BY <1>1, <1>2, <1>3, <1>9, <1>10 DEF rows

LEMMA WriteParseStep ==
    ASSUME StagingTypeOK, NEW t \in Terminal, WriteParse(t)
    PROVE  /\ command[t].at = "parse" /\ Becomes(t, NoCommand) /\ db' \in Store
           /\ UNCHANGED <<jobs, reloads, mixed, halfDropped>>
           /\ UNCHANGED <<db.stamp, db.exported, db.detail, db.verdicts>>
           /\ DOMAIN db'.parses = DOMAIN command[t].rows
  <1> DEFINE rows == command[t].rows
             p == [j \in DOMAIN rows |-> Source(rows[j])]
             n == [db EXCEPT !.parses = p]
  <1>1. /\ command[t].at = "parse" /\ Runs(t, NoCommand) /\ db' = n
        /\ UNCHANGED <<jobs, reloads, mixed, halfDropped>>
    BY DEF WriteParse
  <1>2. Becomes(t, NoCommand)
    BY <1>1, NoCommandTyped, RunsOn
  <1>3. rows \in Tables(StagedJob, DetailRow)
    BY DEF StagingTypeOK, Command
  <1>4. \A row : Source(row) \in ParsedFrom
    BY DEF Source, ParsedFrom
  <1>5. p \in Tables(StagedJob, ParsedFrom) /\ DOMAIN p = DOMAIN rows
    BY <1>3, <1>4, TableIs, BuildsTable
  <1> HIDE DEF p
  <1>6. /\ n \in Store /\ n.stamp = db.stamp /\ n.exported = db.exported /\ n.detail = db.detail
        /\ n.verdicts = db.verdicts /\ n.parses = p
    BY <1>5, StoreTyped DEF Store
  <1> HIDE DEF n
  <1> QED
    BY <1>1, <1>2, <1>5, <1>6

LEMMA ReloadStep ==
    ASSUME StagingTypeOK, Reload
    PROVE  /\ jobs' \in Tables(StagedJob, Line) /\ reloads' \in 0 .. MaxReloads
           /\ UNCHANGED <<db, command, mixed, halfDropped>>
  BY StagingAssumption DEF Reload, StagingTypeOK

LEMMA StagingTypedStep ==
    StagingTyped /\ [StagingNext]_stagingVars => StagingTyped'
  <1> SUFFICES ASSUME StagingTyped, [StagingNext]_stagingVars PROVE StagingTyped'
    OBVIOUS
  <1>0. /\ StagingTypeOK /\ jobs \in Tables(StagedJob, Line) /\ reloads \in 0 .. MaxReloads
        /\ db \in Store /\ command \in [Terminal -> Command] /\ mixed \in BOOLEAN
        /\ halfDropped \in BOOLEAN
    BY DEF StagingTyped, StagingTypeOK
  <1>1. ASSUME NEW t \in Terminal, Becomes(t, command'[t]),
               command'[t].at = "rows" => command'[t].op # "export"
        PROVE  command' \in [Terminal -> Command] /\ Ready'
    BY <1>1 DEF Becomes, StagingTyped, Ready
  <1>2. ASSUME NEW t \in Terminal, NEW step, NEW op, Begins(t, step, op),
               step = "rows" => op # "export"
        PROVE  command' \in [Terminal -> Command] /\ Ready'
    <2> QED
      BY <1>0, <1>2 DEF Begins, Ready, StagingTyped
  <1>3. ASSUME NEW t \in Terminal, StartExport(t) PROVE StagingTyped'
    BY <1>0, <1>2, <1>3, StartExportStep DEF StagingTyped, StagingTypeOK
  <1>4. ASSUME NEW t \in Terminal, Drop(t) PROVE StagingTyped'
    BY <1>0, <1>1, <1>4, DropStep DEF StagingTyped, StagingTypeOK, Proceeds
  <1>5. ASSUME NEW t \in Terminal, Create(t) PROVE StagingTyped'
    BY <1>0, <1>1, <1>5, CreateStep DEF StagingTyped, StagingTypeOK, Proceeds
  <1>6. ASSUME NEW t \in Terminal, Becomes(t, NoCommand)
        PROVE  command' \in [Terminal -> Command] /\ Ready'
    BY <1>1, <1>6, NoCommandTyped DEF Becomes
  <1>7. ASSUME NEW t \in Terminal, Fill(t) PROVE StagingTyped'
    BY <1>0, <1>6, <1>7, FillStep DEF StagingTyped, StagingTypeOK
  <1>8. ASSUME NEW t \in Terminal, NEW op \in {"resolve", "parse"}, Connect(t, op)
        PROVE  StagingTyped'
    BY <1>0, <1>2, <1>8, ConnectStep DEF StagingTyped, StagingTypeOK, Ready
  <1>9. ASSUME NEW t \in Terminal, ReadRows(t) PROVE StagingTyped'
    BY <1>0, <1>1, <1>6, <1>9, ReadRowsStep DEF StagingTyped, StagingTypeOK
  <1>10. ASSUME NEW t \in Terminal, WriteResolution(t) PROVE StagingTyped'
    BY <1>0, <1>6, <1>10, WriteResolutionStep DEF StagingTyped, StagingTypeOK
  <1>11. ASSUME NEW t \in Terminal, WriteParse(t) PROVE StagingTyped'
    BY <1>0, <1>6, <1>11, WriteParseStep DEF StagingTyped, StagingTypeOK
  <1>12. ASSUME NEW t \in Terminal, Kill(t) PROVE StagingTyped'
    BY <1>0, <1>6, <1>12, KillStep DEF StagingTyped, StagingTypeOK
  <1>13. CASE Reload
    BY <1>0, <1>13, ReloadStep DEF StagingTyped, StagingTypeOK, Ready
  <1>14. CASE UNCHANGED stagingVars
    BY <1>0, <1>14 DEF StagingTyped, StagingTypeOK, Ready, stagingVars
  <1> QED
    BY <1>3, <1>4, <1>5, <1>7, <1>8, <1>9, <1>10, <1>11, <1>12, <1>13, <1>14 DEF StagingNext

LEMMA StagingTypedInit ==
    StagingInit => StagingTyped
  <1> SUFFICES ASSUME StagingInit PROVE StagingTyped
    OBVIOUS
  <1>1. NoText \in Line
    BY DEF Line
  <1>2. jobs \in Tables(StagedJob, Line)
    <2>1. [j \in StagedJob |-> NoText] \in [StagedJob -> Line]
      BY <1>1
    <2> QED
      BY <2>1, BuildsTable DEF StagingInit
  <1>3. db \in Store
    BY NothingIsATable DEF StagingInit, Store
  <1>4. command \in [Terminal -> Command] /\ Ready
    BY NoCommandTyped DEF StagingInit, Ready
  <1>5. reloads \in 0 .. MaxReloads
    BY StagingAssumption DEF StagingInit
  <1> QED
    BY <1>2, <1>3, <1>4, <1>5 DEF StagingInit, StagingTyped, StagingTypeOK

----------------------------------------------------------------------------
(* Staging: the inductive invariant. *)

\* A command that still counts as alone has nobody beside it.
LoneIsAlone == \A t \in Terminal : Running(t) /\ command[t].lone => Alone(t)

\* Since the last export that ran alone no two commands have met.
UnmixedIsLone == ~mixed => \A t \in Terminal : Running(t) => command[t].lone

\* What a command that runs alone has done to the store, or read of it, so far.
OnItsWay(t) ==
    LET at == command[t].at IN
    /\ at \in {"verdicts", "detail", "meta", "create", "fill"} => db.parses = Nothing
    /\ at \in {"detail", "meta", "create", "fill"} => db.verdicts = Nothing
    /\ at \in {"meta", "create", "fill"} => db.detail = Nothing
    /\ at \in {"create", "fill"} => ~db.stamp
    /\ at \in {"resolve", "parse"} => command[t].rows = db.detail

Progress == \A t \in Terminal : Running(t) /\ command[t].lone => OnItsWay(t)

StagingInv ==
    StagingTyped /\ LoneIsAlone /\ UnmixedIsLone /\ Progress /\ StampMeansWhole /\ VerdictsMatchRows

\* How the set of running commands may change.
LEMMA AloneStep ==
    StagingTyped /\ LoneIsAlone /\ UnmixedIsLone /\ [StagingNext]_stagingVars
    => LoneIsAlone' /\ UnmixedIsLone'
  <1> SUFFICES ASSUME StagingTyped, LoneIsAlone, UnmixedIsLone, [StagingNext]_stagingVars
               PROVE  LoneIsAlone' /\ UnmixedIsLone'
    OBVIOUS
  <1>0. StagingTypeOK
    BY DEF StagingTyped
  <1>1. ASSUME NEW t \in Terminal, Running(t), Becomes(t, command'[t]), mixed' = mixed,
               Running(t)' => command'[t].lone = command[t].lone
        PROVE  LoneIsAlone' /\ UnmixedIsLone'
    BY <1>1 DEF LoneIsAlone, UnmixedIsLone, Becomes, Running, Alone
  <1>2. ASSUME NEW t \in Terminal, NEW step, NEW op, Begins(t, step, op), step # "idle"
        PROVE  LoneIsAlone' /\ UnmixedIsLone'
    <2>1. \A u \in Terminal \ {t} : Running(u)' => ~command'[u].lone
      BY <1>2 DEF Begins, Running
    <2>2. command'[t].lone => Alone(t)'
      BY <1>2 DEF Begins, Alone
    <2>3. ~mixed' => \A u \in Terminal \ {t} : ~Running(u)'
      BY <1>2 DEF Begins, Alone, Running
    <2>4. ~mixed' => command'[t].lone
      BY <1>2 DEF Begins
    <2> QED
      BY <2>1, <2>2, <2>3, <2>4 DEF LoneIsAlone, UnmixedIsLone
  <1>3. ASSUME NEW t \in Terminal, StartExport(t) PROVE LoneIsAlone' /\ UnmixedIsLone'
    BY <1>0, <1>2, <1>3, StartExportStep
  <1>4. ASSUME NEW t \in Terminal, Drop(t) PROVE LoneIsAlone' /\ UnmixedIsLone'
    BY <1>0, <1>1, <1>4, DropStep DEF Proceeds, Running
  <1>5. ASSUME NEW t \in Terminal, Create(t) PROVE LoneIsAlone' /\ UnmixedIsLone'
    BY <1>0, <1>1, <1>5, CreateStep DEF Proceeds, Running
  <1>6. ASSUME NEW t \in Terminal, Running(t), Becomes(t, NoCommand), mixed' = mixed
        PROVE  LoneIsAlone' /\ UnmixedIsLone'
    BY <1>1, <1>6, NoCommandTyped DEF Becomes, Running
  <1>7. ASSUME NEW t \in Terminal, Fill(t) PROVE LoneIsAlone' /\ UnmixedIsLone'
    <2>1. Running(t) /\ Becomes(t, NoCommand)
      BY <1>0, <1>7, FillStep DEF Running
    <2>2. CASE mixed' = mixed
      BY <1>6, <2>1, <2>2
    <2>3. CASE mixed' = (mixed /\ ~command[t].lone)
      <3>1. CASE command[t].lone
        <4>1. \A u \in Terminal : ~Running(u)'
          BY <2>1, <3>1, NoCommandTyped DEF Becomes, LoneIsAlone, Alone, Running
        <4> QED
          BY <4>1 DEF LoneIsAlone, UnmixedIsLone
      <3>2. CASE ~command[t].lone
        BY <1>0, <1>6, <2>1, <2>3, <3>2 DEF StagingTypeOK
      <3> QED
        BY <3>1, <3>2
    <2> QED
      BY <1>0, <1>7, <2>2, <2>3, FillStep
  <1>8. ASSUME NEW t \in Terminal, NEW op \in {"resolve", "parse"}, Connect(t, op)
        PROVE  LoneIsAlone' /\ UnmixedIsLone'
    <2>1. CASE UNCHANGED <<command, mixed>>
      BY <2>1 DEF LoneIsAlone, UnmixedIsLone, Running, Alone
    <2> QED
      BY <1>0, <1>2, <1>8, <2>1, ConnectStep
  <1>9. ASSUME NEW t \in Terminal, ReadRows(t) PROVE LoneIsAlone' /\ UnmixedIsLone'
    BY <1>1, <1>6, <1>9, ReadRowsStep DEF Running
  <1>10. ASSUME NEW t \in Terminal, WriteResolution(t) PROVE LoneIsAlone' /\ UnmixedIsLone'
    BY <1>0, <1>6, <1>10, WriteResolutionStep DEF Running
  <1>11. ASSUME NEW t \in Terminal, WriteParse(t) PROVE LoneIsAlone' /\ UnmixedIsLone'
    BY <1>0, <1>6, <1>11, WriteParseStep DEF Running
  <1>12. ASSUME NEW t \in Terminal, Kill(t) PROVE LoneIsAlone' /\ UnmixedIsLone'
    BY <1>0, <1>6, <1>12, KillStep DEF Running, Kill
  <1>13. CASE Reload \/ UNCHANGED stagingVars
    <2>1. UNCHANGED <<command, mixed>>
      BY <1>0, <1>13, ReloadStep DEF stagingVars
    <2> QED
      BY <2>1 DEF LoneIsAlone, UnmixedIsLone, Running, Alone
  <1> QED
    BY <1>3, <1>4, <1>5, <1>7, <1>8, <1>9, <1>10, <1>11, <1>12, <1>13 DEF StagingNext

\* The rows stay as they are, and who runs.
SameRows == UNCHANGED <<db.stamp, db.exported, db.detail, db.verdicts, db.parses>>

LEMMA ProgressStep ==
    StagingTyped /\ LoneIsAlone /\ Progress /\ [StagingNext]_stagingVars => Progress'
  <1> SUFFICES ASSUME StagingTyped, LoneIsAlone, Progress, [StagingNext]_stagingVars
               PROVE  Progress'
    OBVIOUS
  <1>0. StagingTypeOK
    BY DEF StagingTyped
  <1>1. ASSUME NEW t \in Terminal, Running(t), Becomes(t, command'[t]),
               Running(t)' /\ command'[t].lone => OnItsWay(t)'
        PROVE  Progress'
    <2>1. ASSUME NEW u \in Terminal \ {t} PROVE ~(Running(u)' /\ command'[u].lone)
      BY <1>1 DEF Becomes, Running, LoneIsAlone, Alone
    <2> QED
      BY <1>1, <2>1 DEF Progress
  <1>2. ASSUME NEW t \in Terminal, NEW step \in {"parsed", "rows"}, NEW op, Begins(t, step, op)
        PROVE  Progress'
    <2>1. OnItsWay(t)'
      BY <1>2 DEF Begins, OnItsWay
    <2>2. ASSUME NEW u \in Terminal \ {t} PROVE ~(Running(u)' /\ command'[u].lone)
      BY <1>2 DEF Begins, Running
    <2> QED
      BY <2>1, <2>2 DEF Progress
  <1>3. ASSUME UNCHANGED command, SameRows PROVE Progress'
    BY <1>3 DEF SameRows, Progress, OnItsWay, Running
  <1>4. ASSUME NEW t \in Terminal, Running(t), Becomes(t, NoCommand) PROVE Progress'
    BY <1>1, <1>4, NoCommandTyped DEF Becomes, Running
  <1>5. ASSUME NEW t \in Terminal, Running(t), command[t].lone PROVE OnItsWay(t)
    BY <1>5 DEF Progress
  <1>6. ASSUME NEW t \in Terminal, StartExport(t) PROVE Progress'
    BY <1>0, <1>2, <1>6, StartExportStep
  <1>7. ASSUME NEW t \in Terminal, Drop(t) PROVE Progress'
    <2>1. ASSUME NEW step, Proceeds(t, step),
                 command[t].lone => OnItsWay(t)'
          PROVE  Progress'
      BY <1>1, <1>7, <2>1 DEF Proceeds, Drop, Running
    <2>2. command[t].lone => OnItsWay(t)
      BY <1>5, <1>7 DEF Drop, Running
    <2>7. CASE /\ command[t].at = "parsed" /\ Proceeds(t, "parses")
               /\ UNCHANGED <<db.stamp, db.detail, db.verdicts, db.parses>>
      BY <2>1, <2>7 DEF OnItsWay, Proceeds
    <2>3. CASE /\ command[t].at = "parses" /\ Proceeds(t, "verdicts")
               /\ db'.parses = Nothing
               /\ UNCHANGED <<db.stamp, db.detail, db.verdicts>>
      BY <2>1, <2>3 DEF OnItsWay, Proceeds
    <2>4. CASE /\ command[t].at = "verdicts" /\ Proceeds(t, "detail")
               /\ db'.verdicts = Nothing
               /\ UNCHANGED <<db.stamp, db.detail, db.parses>>
      BY <2>1, <2>2, <2>4 DEF OnItsWay, Proceeds
    <2>5. CASE /\ command[t].at = "detail" /\ Proceeds(t, "meta")
               /\ db'.detail = Nothing
               /\ UNCHANGED <<db.stamp, db.verdicts, db.parses>>
      BY <2>1, <2>2, <2>5 DEF OnItsWay, Proceeds
    <2>6. CASE /\ command[t].at = "meta" /\ Proceeds(t, "create")
               /\ db'.stamp = FALSE
               /\ UNCHANGED <<db.detail, db.verdicts, db.parses>>
      BY <2>1, <2>2, <2>6 DEF OnItsWay, Proceeds
    <2> QED
      BY <1>0, <1>7, <2>3, <2>4, <2>5, <2>6, <2>7, DropStep
  <1>8. ASSUME NEW t \in Terminal, Create(t) PROVE Progress'
    <2>1. command[t].at = "create" /\ Proceeds(t, "fill") /\ SameRows
      BY <1>0, <1>8, CreateStep DEF SameRows
    <2>2. command[t].lone => OnItsWay(t)'
      BY <1>5, <2>1 DEF OnItsWay, Proceeds, SameRows, Running
    <2> QED
      BY <1>1, <2>1, <2>2 DEF Proceeds, Running
  <1>9. ASSUME NEW t \in Terminal, Fill(t) PROVE Progress'
    BY <1>0, <1>4, <1>9, FillStep DEF Running
  <1>10. ASSUME NEW t \in Terminal, NEW op \in {"resolve", "parse"}, Connect(t, op) PROVE Progress'
    BY <1>0, <1>2, <1>3, <1>10, ConnectStep DEF SameRows
  <1>11. ASSUME NEW t \in Terminal, ReadRows(t) PROVE Progress'
    <2>1. command[t].at = "rows" /\ db' = db
      BY <1>11, ReadRowsStep
    <2>2. CASE Becomes(t, NoCommand)
      BY <1>4, <2>1, <2>2 DEF Running
    <2>3. CASE /\ Becomes(t, command'[t]) /\ command'[t].at \in {"resolve", "parse"}
               /\ command'[t].rows = db.detail
      <3>1. OnItsWay(t)'
        BY <2>1, <2>3 DEF OnItsWay
      <3> QED
        BY <1>1, <2>1, <2>3, <3>1 DEF Running
    <2> QED
      BY <1>11, <2>2, <2>3, ReadRowsStep
  <1>12. ASSUME NEW t \in Terminal, WriteResolution(t) PROVE Progress'
    BY <1>0, <1>4, <1>12, WriteResolutionStep DEF Running
  <1>13. ASSUME NEW t \in Terminal, WriteParse(t) PROVE Progress'
    BY <1>0, <1>4, <1>13, WriteParseStep DEF Running
  <1>14. ASSUME NEW t \in Terminal, Kill(t) PROVE Progress'
    BY <1>0, <1>4, <1>14, KillStep DEF Running, Kill
  <1>15. CASE Reload \/ UNCHANGED stagingVars
    <2>1. UNCHANGED <<command, db>>
      BY <1>0, <1>15, ReloadStep DEF stagingVars
    <2> QED
      BY <1>3, <2>1 DEF SameRows
  <1> QED
    BY <1>6, <1>7, <1>8, <1>9, <1>10, <1>11, <1>12, <1>13, <1>14, <1>15 DEF StagingNext

Whole ==
    /\ DOMAIN db.detail = DOMAIN db.exported
    /\ \A j \in DOMAIN db.detail : db.detail[j].cmd = db.exported[j]

LEMMA WholeStep ==
    StagingInv /\ [StagingNext]_stagingVars => StampMeansWhole'
  <1> SUFFICES ASSUME StagingInv, [StagingNext]_stagingVars,
                      db'.stamp, ~Dropping', ~halfDropped', ~mixed'
               PROVE  Whole'
    BY DEF StampMeansWhole, Whole
  <1>0. /\ StagingTypeOK /\ StagingTyped
        /\ db.stamp /\ ~Dropping /\ ~halfDropped /\ ~mixed => Whole
    BY DEF StagingInv, StagingTyped, StampMeansWhole, Whole
  <1>1. ASSUME UNCHANGED <<db.detail, db.exported, db.stamp>>, ~Dropping, ~halfDropped, ~mixed
        PROVE  Whole'
    BY <1>0, <1>1 DEF Whole
  <1>2. ASSUME NEW t \in Terminal, Becomes(t, command'[t]), command[t].at # "meta" PROVE ~Dropping
    BY <1>2 DEF Becomes, Dropping
  <1>3. ASSUME NEW t \in Terminal, StartExport(t) PROVE Whole'
    <2>1. ~Dropping
      BY <1>0, <1>3, StartExportStep DEF Begins, Dropping, Running
    <2>2. ~mixed
      BY <1>0, <1>3, StartExportStep DEF Begins
    <2> QED
      BY <1>0, <1>1, <1>3, <2>1, <2>2, StartExportStep
  <1>4. ASSUME NEW t \in Terminal, Drop(t) PROVE Whole'
    <2>1. /\ ~mixed /\ ~halfDropped /\ db'.exported = db.exported
      BY <1>0, <1>4, DropStep
    <2>2. CASE /\ command[t].at \in {"parsed", "parses", "verdicts"} /\ Becomes(t, command'[t])
               /\ UNCHANGED <<db.stamp, db.detail>>
      BY <1>1, <1>2, <2>1, <2>2
    <2>3. CASE command[t].at = "detail" /\ Proceeds(t, "meta")
      BY <2>3 DEF Proceeds, Dropping
    <2>4. CASE db'.stamp = FALSE
      BY <2>4
    <2> QED
      BY <1>0, <1>4, <2>2, <2>3, <2>4, DropStep DEF Proceeds
  <1>5. ASSUME NEW t \in Terminal, Create(t) PROVE Whole'
    BY <1>0, <1>1, <1>2, <1>5, CreateStep DEF Proceeds
  <1>6. ASSUME NEW t \in Terminal, Fill(t) PROVE Whole'
    <2>1. command[t].at = "fill" /\ Becomes(t, NoCommand)
      BY <1>0, <1>6, FillStep
    <2>2. ~Dropping
      BY <1>2, <2>1 DEF Becomes
    <2>3. CASE UNCHANGED <<db, mixed, halfDropped>>
      BY <1>1, <2>2, <2>3
    <2>4. CASE /\ db'.exported = command[t].read
               /\ db'.detail = Inserted(db.detail, Exported(command[t].read))
               /\ mixed' = (mixed /\ ~command[t].lone)
      <3>1. command[t].lone
        BY <2>1, <2>4 DEF StagingInv, UnmixedIsLone, Running
      <3>2. db.detail = Nothing
        BY <2>1, <3>1 DEF StagingInv, Progress, Running, OnItsWay
      <3> DEFINE r == command[t].read
      <3>3. r \in Tables(StagedJob, Line)
        BY <1>0 DEF StagingTypeOK, Command
      <3> HIDE DEF r
      <3>4. Inserted(Nothing, Exported(r)) = Exported(r)
        BY <3>3, ExportedTyped, InsertedIntoNothing
      <3>5. db'.detail = Exported(r) /\ db'.exported = r
        BY <2>4, <3>2, <3>4 DEF r
      <3> QED
        BY <3>3, <3>5, ExportedTyped DEF Whole
    <2> QED
      BY <1>0, <1>6, <2>3, <2>4, FillStep
  <1>7. ASSUME NEW t \in Terminal, NEW op \in {"resolve", "parse"}, Connect(t, op) PROVE Whole'
    <2>1. /\ UNCHANGED <<db.detail, db.exported, db.stamp, halfDropped>>
          /\ Begins(t, "rows", op) \/ UNCHANGED <<command, mixed>>
      BY <1>0, <1>7, ConnectStep
    <2>2. CASE Begins(t, "rows", op)
      BY <1>1, <2>1, <2>2 DEF Begins, Dropping, Running
    <2>3. CASE UNCHANGED <<command, mixed>>
      BY <1>1, <2>1, <2>3 DEF Dropping
    <2> QED
      BY <2>1, <2>2, <2>3
  <1>8. ASSUME NEW t \in Terminal, ReadRows(t) PROVE Whole'
    <2>1. command[t].at = "rows" /\ Becomes(t, command'[t]) /\ UNCHANGED <<db, mixed, halfDropped>>
      BY <1>0, <1>8, ReadRowsStep DEF Becomes
    <2> QED
      BY <1>1, <1>2, <2>1
  <1>9. ASSUME NEW t \in Terminal, WriteResolution(t) PROVE Whole'
    <2>1. /\ command[t].at = "resolve" /\ Becomes(t, NoCommand)
          /\ UNCHANGED <<mixed, halfDropped, db.stamp, db.exported>>
      BY <1>0, <1>9, WriteResolutionStep
    <2>2. ~Dropping
      BY <1>2, <2>1 DEF Becomes
    <2>3. Whole
      BY <1>0, <2>1, <2>2
    <2> DEFINE rows == command[t].rows
    <2>4. PICK changed \in SUBSET DOMAIN rows : db'.detail = Resolution(db.detail, rows, changed)
      BY <1>0, <1>9, WriteResolutionStep
    <2>5. rows \in Tables(StagedJob, DetailRow) /\ db.detail \in Tables(StagedJob, DetailRow)
      BY <1>0, StoreTyped DEF StagingTypeOK, Command
    <2> HIDE DEF rows
    <2>6. /\ DOMAIN db'.detail = DOMAIN db.detail
          /\ \A j \in DOMAIN db.detail : db'.detail[j].cmd = db.detail[j].cmd
      BY <2>4, <2>5, ResolutionTyped
    <2> QED
      BY <2>1, <2>3, <2>6 DEF Whole
  <1>10. ASSUME NEW t \in Terminal, WriteParse(t) PROVE Whole'
    <2>1. /\ command[t].at = "parse" /\ Becomes(t, NoCommand)
          /\ UNCHANGED <<mixed, halfDropped, db.stamp, db.exported, db.detail>>
      BY <1>0, <1>10, WriteParseStep
    <2> QED
      BY <1>1, <1>2, <2>1 DEF Becomes
  <1>11. ASSUME NEW t \in Terminal, Kill(t) PROVE Whole'
    <2>1. /\ Becomes(t, NoCommand) /\ UNCHANGED <<db, mixed>>
          /\ halfDropped' = (halfDropped \/ command[t].at = "meta")
      BY <1>0, <1>11, KillStep
    <2>2. command[t].at # "meta" /\ ~halfDropped
      BY <2>1
    <2> QED
      BY <1>1, <1>2, <2>1, <2>2 DEF Becomes
  <1>12. CASE Reload \/ UNCHANGED stagingVars
    <2>1. UNCHANGED <<command, db, mixed, halfDropped>>
      BY <1>0, <1>12, ReloadStep DEF stagingVars
    <2> QED
      BY <1>1, <2>1 DEF Dropping
  <1> QED
    BY <1>3, <1>4, <1>5, <1>6, <1>7, <1>8, <1>9, <1>10, <1>11, <1>12 DEF StagingNext

Covers(table, rows) == DOMAIN table # {} => DOMAIN table = DOMAIN rows

\* The verdict of a row and its resolved text agree.
Agrees(row, verdicts, j) ==
    /\ row.resolved \in {NoText, row.cmd}
    /\ row.resolved # NoText /\ DOMAIN verdicts # {} =>
           j \in DOMAIN verdicts /\ verdicts[j] \in {"resolved", "residue"}
    /\ j \in DOMAIN verdicts /\ verdicts[j] = "resolved" => row.resolved # NoText

Accounted ==
    /\ Covers(db.verdicts, db.detail) /\ Covers(db.parses, db.detail)
    /\ \A j \in DOMAIN db.detail : Agrees(db.detail[j], db.verdicts, j)

LEMMA AccountedIs ==
    VerdictsMatchRows <=> mixed \/ Accounted
  BY DEF VerdictsMatchRows, Accounted, Covers, Agrees

\* A resolution of the rows the table still holds.
LEMMA ResolutionAgrees ==
    ASSUME NEW table \in Tables(StagedJob, DetailRow), NEW verdict \in [DOMAIN table -> Verdict],
           NEW changed \in SUBSET DOMAIN table,
           \A j \in DOMAIN table :
              /\ verdict[j] \in Outcomes(table[j])
              /\ verdict[j] = "resolved" => j \in changed
              /\ verdict[j] \in {"left", "no_cmd_line"} => j \notin changed
    PROVE  \A j \in DOMAIN table : Agrees(Resolution(table, table, changed)[j], verdict, j)
  <1> SUFFICES ASSUME NEW j \in DOMAIN table
               PROVE  Agrees(Resolution(table, table, changed)[j], verdict, j)
    OBVIOUS
  <1> DEFINE row == Resolution(table, table, changed)[j]
  <1>1. row.cmd = table[j].cmd /\ row.resolved = IF j \in changed THEN table[j].cmd ELSE NoText
    BY ResolutionTyped
  <1>2. DOMAIN verdict = DOMAIN table /\ verdict[j] \in Verdict
    OBVIOUS
  <1> HIDE DEF row
  <1>3. row.resolved \in {NoText, row.cmd}
    BY <1>1
  <1>4. row.resolved # NoText => verdict[j] \in {"resolved", "residue"}
    BY <1>1, <1>2 DEF Verdict
  <1>5. verdict[j] = "resolved" => row.resolved # NoText
    BY <1>1 DEF Outcomes
  <1> QED
    BY <1>2, <1>3, <1>4, <1>5 DEF Agrees, row

LEMMA AccountedStep ==
    StagingInv /\ [StagingNext]_stagingVars => VerdictsMatchRows'
  <1> SUFFICES ASSUME StagingInv, [StagingNext]_stagingVars, ~mixed' PROVE Accounted'
    BY DEF VerdictsMatchRows, Accounted, Covers, Agrees
  <1>0. StagingTypeOK /\ StagingTyped /\ (~mixed => Accounted)
    BY AccountedIs DEF StagingInv, StagingTyped
  <1>1. ASSUME UNCHANGED <<db.detail, db.verdicts, db.parses>>, ~mixed PROVE Accounted'
    BY <1>0, <1>1 DEF Accounted, Covers, Agrees
  <1>2. ASSUME NEW t \in Terminal, Running(t), ~mixed PROVE command[t].lone /\ OnItsWay(t)
    BY <1>2 DEF StagingInv, UnmixedIsLone, Progress
  <1>3. DOMAIN Nothing = {}
    BY DEF Nothing
  <1>4. ASSUME NEW t \in Terminal, StartExport(t) PROVE Accounted'
    BY <1>0, <1>1, <1>4, StartExportStep DEF Begins
  <1>5. ASSUME NEW t \in Terminal, Drop(t) PROVE Accounted'
    <2>1. ~mixed /\ Running(t)
      BY <1>0, <1>5, DropStep DEF Running, Drop
    <2>2. Accounted /\ OnItsWay(t)
      BY <1>0, <1>2, <2>1
    <2>3. CASE db'.parses = Nothing /\ UNCHANGED <<db.detail, db.verdicts>>
      BY <1>3, <2>2, <2>3 DEF Accounted, Covers, Agrees
    <2>4. CASE db'.verdicts = Nothing /\ UNCHANGED <<db.detail, db.parses>>
      BY <1>3, <2>2, <2>4 DEF Accounted, Covers, Agrees
    <2>5. CASE /\ command[t].at = "detail" /\ db'.detail = Nothing
               /\ UNCHANGED <<db.verdicts, db.parses>>
      BY <1>3, <2>2, <2>5 DEF Accounted, Covers, Agrees, OnItsWay
    <2>6. CASE UNCHANGED <<db.detail, db.verdicts, db.parses>>
      BY <1>1, <2>1, <2>6
    <2> QED
      BY <1>0, <1>5, <2>3, <2>4, <2>5, <2>6, DropStep
  <1>6. ASSUME NEW t \in Terminal, Create(t) PROVE Accounted'
    BY <1>0, <1>1, <1>6, CreateStep
  <1>7. ASSUME NEW t \in Terminal, Fill(t) PROVE Accounted'
    <2>1. command[t].at = "fill" /\ Running(t)
      BY <1>0, <1>7, FillStep DEF Running
    <2>2. CASE UNCHANGED <<db, mixed>>
      BY <1>1, <2>2
    <2>3. CASE /\ db'.detail = Inserted(db.detail, Exported(command[t].read))
               /\ UNCHANGED <<db.verdicts, db.parses>>
               /\ mixed' = (mixed /\ ~command[t].lone)
      <3>1. command[t].lone
        BY <2>1, <2>3 DEF StagingInv, UnmixedIsLone
      <3>2. db.detail = Nothing /\ db.verdicts = Nothing /\ db.parses = Nothing
        BY <2>1, <3>1 DEF StagingInv, Progress, OnItsWay
      <3> DEFINE r == command[t].read
      <3>3. r \in Tables(StagedJob, Line)
        BY <1>0 DEF StagingTypeOK, Command
      <3> HIDE DEF r
      <3>4. Inserted(Nothing, Exported(r)) = Exported(r)
        BY <3>3, ExportedTyped, InsertedIntoNothing
      <3>5. db'.detail = Exported(r) /\ db'.verdicts = Nothing /\ db'.parses = Nothing
        BY <2>3, <3>2, <3>4 DEF r
      <3>6. \A j \in DOMAIN Exported(r) : Exported(r)[j].resolved = NoText
        BY <3>3, ExportedTyped
      <3> QED
        BY <1>3, <3>5, <3>6 DEF Accounted, Covers, Agrees
    <2> QED
      BY <1>0, <1>7, <2>2, <2>3, FillStep
  <1>8. ASSUME NEW t \in Terminal, NEW op \in {"resolve", "parse"}, Connect(t, op) PROVE Accounted'
    <2>1. ~mixed
      BY <1>0, <1>8, ConnectStep DEF Begins
    <2> QED
      BY <1>0, <1>1, <1>8, <2>1, ConnectStep
  <1>9. ASSUME NEW t \in Terminal, ReadRows(t) PROVE Accounted'
    BY <1>0, <1>1, <1>9, ReadRowsStep
  <1>10. ASSUME NEW t \in Terminal, WriteResolution(t) PROVE Accounted'
    <2>1. command[t].at = "resolve" /\ mixed' = mixed /\ db'.parses = db.parses
      BY <1>0, <1>10, WriteResolutionStep
    <2>2. command[t].rows = db.detail /\ Accounted
      BY <1>0, <1>2, <2>1 DEF OnItsWay, Running
    <2> DEFINE table == db.detail
    <2>3. PICK verdict \in [DOMAIN table -> Verdict], changed \in SUBSET DOMAIN table :
             /\ db'.verdicts = verdict
             /\ \A j \in DOMAIN table :
                   /\ verdict[j] \in Outcomes(table[j])
                   /\ verdict[j] = "resolved" => j \in changed
                   /\ verdict[j] \in {"left", "no_cmd_line"} => j \notin changed
             /\ db'.detail = Resolution(table, table, changed)
      BY <1>0, <1>10, <2>2, WriteResolutionStep
    <2>4. table \in Tables(StagedJob, DetailRow)
      BY <1>0, StoreTyped
    <2>5. Covers(db.parses, table)
      BY <2>2 DEF Accounted
    <2> HIDE DEF table
    <2>6. \A j \in DOMAIN table : Agrees(Resolution(table, table, changed)[j], verdict, j)
      BY <2>3, <2>4, ResolutionAgrees
    <2>7. DOMAIN Resolution(table, table, changed) = DOMAIN table
      BY <2>4, ResolutionTyped
    <2>8. DOMAIN verdict = DOMAIN table
      OBVIOUS
    <2> DEFINE f == Resolution(table, table, changed)
    <2> HIDE DEF f
    <2>9. /\ db'.detail = f /\ db'.verdicts = verdict /\ DOMAIN f = DOMAIN table
          /\ \A j \in DOMAIN table : Agrees(f[j], verdict, j)
      BY <2>3, <2>6, <2>7 DEF f
    <2>10. Covers(db'.verdicts, db'.detail) /\ Covers(db'.parses, db'.detail)
      BY <2>1, <2>5, <2>8, <2>9 DEF Covers
    <2> QED
      BY <2>9, <2>10 DEF Accounted
  <1>11. ASSUME NEW t \in Terminal, WriteParse(t) PROVE Accounted'
    <2>1. /\ command[t].at = "parse" /\ mixed' = mixed /\ UNCHANGED <<db.detail, db.verdicts>>
          /\ DOMAIN db'.parses = DOMAIN command[t].rows
      BY <1>0, <1>11, WriteParseStep
    <2>2. command[t].rows = db.detail /\ Accounted
      BY <1>0, <1>2, <2>1 DEF OnItsWay, Running
    <2> QED
      BY <2>1, <2>2 DEF Accounted, Covers, Agrees
  <1>12. ASSUME NEW t \in Terminal, Kill(t) PROVE Accounted'
    BY <1>0, <1>1, <1>12, KillStep
  <1>13. CASE Reload \/ UNCHANGED stagingVars
    BY <1>0, <1>1, <1>13, ReloadStep DEF stagingVars
  <1> QED
    BY <1>4, <1>5, <1>6, <1>7, <1>8, <1>9, <1>10, <1>11, <1>12, <1>13 DEF StagingNext

LEMMA StagingInvHolds ==
    StagingSpec => []StagingInv
  <1>1. StagingInit => StagingInv
    <2> SUFFICES ASSUME StagingInit PROVE StagingInv
      OBVIOUS
    <2>1. StagingTyped /\ \A t \in Terminal : ~Running(t)
      BY StagingTypedInit, NoCommandTyped DEF StagingInit, Running
    <2>2. LoneIsAlone /\ UnmixedIsLone /\ Progress
      BY <2>1 DEF LoneIsAlone, UnmixedIsLone, Progress
    <2>3. StampMeansWhole
      BY DEF StagingInit, StampMeansWhole
    <2>4. VerdictsMatchRows
      BY DEF StagingInit, VerdictsMatchRows, Nothing
    <2> QED
      BY <2>1, <2>2, <2>3, <2>4 DEF StagingInv
  <1>2. StagingInv /\ [StagingNext]_stagingVars => StagingInv'
    BY StagingTypedStep, AloneStep, ProgressStep, WholeStep, AccountedStep DEF StagingInv
  <1> QED
    BY <1>1, <1>2, PTL DEF StagingSpec

(***************************************************************************)
(* The staging store's tables and the commands that run on it stay well    *)
(* formed, for any jobs, command lines and number of commands.             *)
(***************************************************************************)
THEOREM StagingTypeCorrect ==
    StagingSpec => []StagingTypeOK
  BY StagingInvHolds, PTL DEF StagingInv, StagingTyped

(***************************************************************************)
(* A stamped store holds exactly the rows of the export that stamped it,   *)
(* wherever commands were killed, except in the window between dropping    *)
(* job_detail and dropping meta, and after two commands have met.          *)
(***************************************************************************)
THEOREM StampIsWhole ==
    StagingSpec => []StampMeansWhole
  BY StagingInvHolds, PTL DEF StagingInv

(***************************************************************************)
(* Verdicts and parses cover exactly the rows of the store, and a resolved *)
(* text is its own row's and there exactly when its verdict says so.       *)
(***************************************************************************)
THEOREM EveryRowIsAccounted ==
    StagingSpec => []VerdictsMatchRows
  BY StagingInvHolds, PTL DEF StagingInv
===============================================================================
