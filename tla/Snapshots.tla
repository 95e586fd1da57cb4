------------------------------ MODULE Snapshots ------------------------------
(***************************************************************************)
(* SnapshotWriter (drydocs/snapshots/writer.py): the versions of an        *)
(* application, product or line of business.  A writer goes over the       *)
(* entities, compares the digest of each one's state with its latest       *)
(* version, and where they differ closes the open version and creates a    *)
(* new one - four statements that commit one by one, with no transaction   *)
(* around them.  A version is dated by the day; a nightly prune deletes    *)
(* those past retention, all but the latest.                               *)
(*                                                                         *)
(* A digest stands for the state it is taken of; the three kinds of entity *)
(* differ in their queries alone.  Entities are not deleted.               *)
(***************************************************************************)
EXTENDS Integers, FiniteSets

CONSTANTS
    Entity,         \* keys of the entities
    EntityState,    \* what their relationships may come to
    SnapshotJob,    \* writers that may run at once
    Retention,      \* days a superseded version is kept
    MaxDay,         \* bound: days
    MaxVersions     \* bound: versions ever created

ASSUME SnapshotAssumption ==
    /\ Retention \in Nat /\ MaxDay \in Nat /\ MaxVersions \in Nat
    /\ Entity # {} /\ EntityState # {}

VARIABLES
    today,      \* the database's date()
    state,      \* entity -> the state its relationships amount to
    versions,   \* the snapshots in the graph
    created,    \* how many there have ever been
    writer,     \* job -> where it is
    recorded,   \* history: entity -> the states its version was last found or made to be
    crowded,    \* history: entities with two versions from one day
    halfWritten,       \* history: entities a writer died on between closing and creating
    contended   \* history: two writers have run at once

snapshotVars ==
    <<today, state, versions, created, writer, recorded, crowded, halfWritten, contended>>

\* id is snapshot_id; open is valid_to IS NULL.
Version == [id: 1 .. MaxVersions, entity: Entity, hash: EntityState, from: 0 .. MaxDay,
            open: BOOLEAN]

\* digest is the state the writer has read of entity; todo are the keys to come.
SnapshotWriter ==
    [at: {"idle", "entity", "latest", "close", "create"}, todo: SUBSET Entity,
     entity: Entity, digest: EntityState]

Resting == [at |-> "idle", todo |-> {}, entity |-> CHOOSE e \in Entity : TRUE,
            digest |-> CHOOSE s \in EntityState : TRUE]

Of(e) == {v \in versions : v.entity = e}

\* ORDER BY valid_from DESC: which of two versions from one day comes first is not said.
Newest(S) == {v \in S : \A u \in S : u.from <= v.from}

----------------------------------------------------------------------------
(* Days go by, and the entities change. *)

Midnight ==
    /\ today < MaxDay
    /\ today' = today + 1
    /\ UNCHANGED <<state, versions, created, writer, recorded, crowded, halfWritten, contended>>

ChangeState(e) ==
    /\ \E s \in EntityState \ {state[e]} : state' = [state EXCEPT ![e] = s]
    /\ UNCHANGED <<today, versions, created, writer, recorded, crowded, halfWritten, contended>>

----------------------------------------------------------------------------
(* _write_snapshots. *)

BeginWriter(j) ==
    /\ writer[j].at = "idle"
    /\ writer' = [writer EXCEPT ![j] = [Resting EXCEPT !.at = "entity", !.todo = Entity]]
    /\ contended' = (contended \/ \E i \in SnapshotJob \ {j} : writer[i].at # "idle")
    /\ UNCHANGED <<today, state, versions, created, recorded, crowded, halfWritten>>

\* The next key and its state, or the end.
ReadState(j) ==
    /\ writer[j].at = "entity"
    /\ IF writer[j].todo = {}
       THEN writer' = [writer EXCEPT ![j] = Resting]
       ELSE \E e \in writer[j].todo :
               writer' = [writer EXCEPT ![j] =
                   [at |-> "latest", todo |-> @.todo \ {e}, entity |-> e, digest |-> state[e]]]
    /\ UNCHANGED <<today, state, versions, created, recorded, crowded, halfWritten, contended>>

NextEntity(j) ==
    writer' = [writer EXCEPT ![j].at = "entity",
                             ![j].entity = Resting.entity, ![j].digest = Resting.digest]

Record(j) == recorded' = [recorded EXCEPT ![writer[j].entity] = {writer[j].digest}]

\* The version a digest is compared with.
Latest(e) == Newest(Of(e))

CompareLatest(j) ==
    /\ writer[j].at = "latest"
    /\ \/ /\ \E v \in Latest(writer[j].entity) : v.hash = writer[j].digest
          /\ NextEntity(j)
          /\ Record(j)
       \/ /\ \/ Latest(writer[j].entity) = {}
             \/ \E v \in Latest(writer[j].entity) : v.hash # writer[j].digest
          /\ writer' = [writer EXCEPT ![j].at = "close"]
          /\ UNCHANGED recorded
    /\ UNCHANGED <<today, state, versions, created, crowded, halfWritten, contended>>

\* Mutant: versions of an earlier day alone are closed.
ClosesEarlier(v, e) == v.entity = e /\ v.open /\ v.from < today

\* Every open version, not only the one that was compared.
Closes(v, e) == v.entity = e /\ v.open

CloseVersion(j) ==
    /\ writer[j].at = "close"
    /\ versions' = {IF Closes(v, writer[j].entity) THEN [v EXCEPT !.open = FALSE] ELSE v :
                       v \in versions}
    /\ writer' = [writer EXCEPT ![j].at = "create"]
    /\ UNCHANGED <<today, state, created, recorded, crowded, halfWritten, contended>>

CreateVersion(j) ==
    /\ writer[j].at = "create"
    /\ created < MaxVersions
    /\ LET e == writer[j].entity IN
          /\ versions' = versions \union
                 {[id |-> created + 1, entity |-> e, hash |-> writer[j].digest,
                   from |-> today, open |-> TRUE]}
          /\ crowded' = crowded \union {c \in {e} : \E v \in Of(c) : v.from = today}
          /\ halfWritten' = halfWritten \ {e}
    /\ created' = created + 1
    /\ NextEntity(j)
    /\ Record(j)
    /\ UNCHANGED <<today, state, contended>>

\* The job dies; what it has committed stays.
KillWriter(j) ==
    /\ writer[j].at # "idle"
    /\ halfWritten' = halfWritten \union {e \in {writer[j].entity} : writer[j].at = "create"}
    /\ writer' = [writer EXCEPT ![j] = Resting]
    /\ UNCHANGED <<today, state, versions, created, recorded, crowded, contended>>

----------------------------------------------------------------------------
(* prune_older_than: the first of each entity's versions, newest first, is *)
(* kept whatever its age.                                                  *)

\* Mutant: age alone decides.
SparedByAge(v, Kept) == v.from >= today - Retention

\* What a prune keeps of the versions: Kept is one of the newest of each entity.
Spared(v, Kept) == v \in Kept \/ v.from >= today - Retention

Prune ==
    /\ \E Kept \in SUBSET UNION {Newest(Of(e)) : e \in Entity} :
          /\ \A e \in Entity : Cardinality(Kept \intersect Of(e)) = (IF Of(e) = {} THEN 0 ELSE 1)
          /\ versions' = {v \in versions : Spared(v, Kept)}
    /\ versions' # versions
    /\ UNCHANGED <<today, state, created, writer, recorded, crowded, halfWritten, contended>>

----------------------------------------------------------------------------
SnapshotInit ==
    /\ today = 0
    /\ state = [e \in Entity |-> CHOOSE s \in EntityState : TRUE]
    /\ versions = {} /\ created = 0
    /\ writer = [j \in SnapshotJob |-> Resting]
    /\ recorded = [e \in Entity |-> {}]
    /\ crowded = {} /\ halfWritten = {} /\ contended = FALSE

SnapshotNext ==
    \/ Midnight
    \/ \E e \in Entity : ChangeState(e)
    \/ \E j \in SnapshotJob :
          \/ BeginWriter(j) \/ ReadState(j) \/ CompareLatest(j)
          \/ CloseVersion(j) \/ CreateVersion(j) \/ KillWriter(j)
    \/ Prune

SnapshotSpec == SnapshotInit /\ [][SnapshotNext]_snapshotVars

----------------------------------------------------------------------------
(* Properties. *)

SnapshotTypeOK ==
    /\ today \in 0 .. MaxDay
    /\ state \in [Entity -> EntityState]
    /\ versions \subseteq Version /\ created \in 0 .. MaxVersions
    /\ writer \in [SnapshotJob -> SnapshotWriter]
    /\ recorded \in [Entity -> SUBSET EntityState]
    /\ crowded \subseteq Entity /\ halfWritten \subseteq Entity /\ contended \in BOOLEAN

(***************************************************************************)
(* An entity never has two versions that both claim to be valid now,       *)
(* whatever writers died on it and however many versions a day has seen,   *)
(* as long as no two writers run at once: nothing in the code, and no      *)
(* constraint of the graph, keeps those apart.                             *)
(***************************************************************************)
OneOpenVersion ==
    contended \/ \A e \in Entity : Cardinality({v \in Of(e) : v.open}) <= 1

(***************************************************************************)
(* prune: the latest version is kept, so the current state never           *)
(* disappears.  An entity whose state has been recorded has one open       *)
(* version, its newest, and it holds the state that was last recorded.     *)
(* Not so once two versions are dated the same day (which of them is the   *)
(* latest is then an accident), or a writer died between closing and       *)
(* creating (the next writer, finding the closed version's state, is       *)
(* content with it).                                                       *)
(***************************************************************************)
CurrentStateStays ==
    contended \/
    \A e \in Entity :
        \/ e \in crowded \/ e \in halfWritten \/ recorded[e] = {}
        \/ \E j \in SnapshotJob : writer[j].at = "create" /\ writer[j].entity = e
        \/ \E v \in Newest(Of(e)) : v.open /\ recorded[e] = {v.hash}
=============================================================================
