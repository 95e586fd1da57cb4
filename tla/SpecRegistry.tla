----------------------------- MODULE SpecRegistry -----------------------------
(***************************************************************************)
(* EphemeralSpecStore (drydocs_api/ephemeral_specs.py): the agent registers *)
(* the Cypher it ran for a console session and hands the ref to the user,  *)
(* whose run or export resolves it.  The store is one OrderedDict with no  *)
(* lock, and both routes run on the threadpool: a purge lists the expired  *)
(* keys and then deletes them one by one, a registration assigns, moves    *)
(* the key to the end and evicts while the store is too long, and any of   *)
(* these steps of two requests may interleave.                             *)
(*                                                                         *)
(* Validation of the Cypher happens before the store is touched and is     *)
(* left out; a ref is the digest of a query and stands for it.  Reading    *)
(* the clock and inserting the spec built from it is one step: a tick is a *)
(* good part of the TTL of half an hour.                                   *)
(***************************************************************************)
EXTENDS Integers, SequencesExt

CONSTANTS
    Owner,      \* console sessions, by public handle
    Ref,        \* queries the agent may register
    Server,     \* threads that serve requests
    Term,       \* TTL of a spec, in ticks
    Capacity,   \* specs the store keeps
    MaxNow      \* bound: ticks of the clock

ASSUME KeyAssumption      == Owner # {} /\ Ref # {}
ASSUME TermAssumption     == Term \in Nat \ {0} /\ MaxNow \in Nat
ASSUME CapacityAssumption == Capacity \in Nat \ {0}

VARIABLES
    now,        \* the store's clock
    live,       \* the sessions that have not ended
    specs,      \* the OrderedDict, oldest first
    serving,    \* server -> the request it is inside the store for
    promised,   \* history: key -> the expiry it was last registered with, while not evicted
    crossed     \* history: two requests have been inside the store at once

specVars == <<now, live, specs, serving, promised, crossed>>

Key == Owner \X Ref

EphemeralSpec == [key: Key, expires: 0 .. MaxNow + Term]

SpecKeys == {specs[i].key : i \in DOMAIN specs}

At(key) == CHOOSE i \in DOMAIN specs : specs[i].key = key

Serving ==
    [at: {"idle", "purge", "delete", "insert", "move", "measure", "evict", "find", "fault"},
     op: {"register", "resolve"}, key: Key, listed: SUBSET Key, read: 0 .. MaxNow]

Away == [at |-> "idle", op |-> "resolve", key |-> CHOOSE k \in Key : TRUE, listed |-> {},
         read |-> 0]

Turn(s, r) == serving' = [serving EXCEPT ![s] = r]

GoOn(s, step) == Turn(s, [serving[s] EXCEPT !.at = step])

\* An error no route expects: the request fails with a 500.
Fault(s) == Turn(s, [Away EXCEPT !.at = "fault"])

----------------------------------------------------------------------------
(* Sessions and time. *)

Tick ==
    /\ now < MaxNow
    /\ now' = now + 1
    /\ UNCHANGED <<live, specs, serving, promised, crossed>>

\* A session ends; the specs registered for it stay until they expire.
SessionEnds ==
    /\ \E o \in live : live' = live \ {o}
    /\ UNCHANGED <<now, specs, serving, promised, crossed>>

----------------------------------------------------------------------------
(* Requests enter: registration needs a live owner, a run or an export is  *)
(* authenticated by its own session.                                       *)

Enter(s, op, key) ==
    /\ serving[s].at \in {"idle", "fault"}
    /\ key[1] \in live
    /\ Turn(s, [Away EXCEPT !.at = "purge", !.op = op, !.key = key])
    /\ UNCHANGED <<now, live, specs, promised, crossed>>

\* Mutant: a spec lives through the tick it expires at.
ExpiredLate(spec) == spec.expires < now

Expired(spec) == spec.expires <= now

\* The list comprehension of _purge_expired.
ListExpired(s) ==
    /\ serving[s].at = "purge"
    /\ Turn(s, [serving[s] EXCEPT
                   !.at = "delete", !.read = now,
                   !.listed = {specs[i].key : i \in {j \in DOMAIN specs : Expired(specs[j])}}])
    /\ crossed' = (crossed \/ \E t \in Server \ {s} :
                                  serving[t].at \notin {"idle", "purge", "fault"})
    /\ UNCHANGED <<now, live, specs, promised>>

\* The statement t stands before changes which keys the dict has, or their order.
Changing(t) ==
    LET r == serving[t] IN
    \/ r.at = "delete" /\ r.listed \cap SpecKeys # {}
    \/ r.at = "insert" /\ r.key \notin SpecKeys
    \/ r.at = "move" /\ r.key \in SpecKeys /\ At(r.key) # Len(specs)
    \/ r.at = "evict" /\ specs # <<>>

\* The comprehension raises if the dict is changed while it runs.
ListFails(s) ==
    /\ serving[s].at = "purge"
    /\ \E t \in Server \ {s} : Changing(t)
    /\ Fault(s)
    /\ crossed' = TRUE
    /\ UNCHANGED <<now, live, specs, promised>>

\* Its loop: del raises if another purge has been there first.
Delete(s) ==
    /\ serving[s].at = "delete"
    /\ IF serving[s].listed = {}
       THEN /\ GoOn(s, IF serving[s].op = "register" THEN "insert" ELSE "find")
            /\ UNCHANGED specs
       ELSE \E k \in serving[s].listed :
               IF k \in SpecKeys
               THEN /\ specs' = RemoveAt(specs, At(k))
                    /\ Turn(s, [serving[s] EXCEPT !.listed = @ \ {k}])
               ELSE Fault(s) /\ UNCHANGED specs
    /\ UNCHANGED <<now, live, promised, crossed>>

\* Mutant: a ref that is registered again is kept twice.
InsertBeside(s) ==
    /\ serving[s].at = "insert"
    /\ specs' = Append(specs, [key |-> serving[s].key, expires |-> now + Term])
    /\ promised' = [promised EXCEPT ![serving[s].key] = now + Term]
    /\ Turn(s, [serving[s] EXCEPT !.at = "move", !.read = 0])
    /\ UNCHANGED <<now, live, crossed>>

\* Assigning a key the dict has keeps its place.
Insert(s) ==
    /\ serving[s].at = "insert"
    /\ LET k == serving[s].key
           spec == [key |-> k, expires |-> now + Term]
       IN  /\ specs' = IF k \in SpecKeys THEN [specs EXCEPT ![At(k)] = spec] ELSE Append(specs, spec)
           /\ promised' = [promised EXCEPT ![k] = now + Term]
    /\ Turn(s, [serving[s] EXCEPT !.at = "move", !.read = 0])
    /\ UNCHANGED <<now, live, crossed>>

MoveToEnd(s) ==
    /\ serving[s].at = "move"
    /\ LET k == serving[s].key
       IN  IF k \in SpecKeys
           THEN /\ specs' = Append(RemoveAt(specs, At(k)), specs[At(k)])
                /\ GoOn(s, "measure")
           ELSE Fault(s) /\ UNCHANGED specs
    /\ UNCHANGED <<now, live, promised, crossed>>

\* Mutant: one spec too many is kept.
TooLongByTwo == Len(specs) > Capacity + 1

TooLong == Len(specs) > Capacity

Measure(s) ==
    /\ serving[s].at = "measure"
    /\ IF TooLong THEN GoOn(s, "evict") ELSE Turn(s, Away)
    /\ UNCHANGED <<now, live, specs, promised, crossed>>

\* Mutant: popitem() takes the youngest.
Youngest == Len(specs)

\* popitem(last=False): the oldest spec, whoever owns it.
Evicted == 1

Evict(s) ==
    /\ serving[s].at = "evict"
    /\ IF specs = <<>>
       THEN Fault(s) /\ UNCHANGED <<specs, promised>>
       ELSE /\ specs' = RemoveAt(specs, Evicted)
            /\ promised' = [promised EXCEPT ![Head(specs).key] = 0]
            /\ GoOn(s, "measure")
    /\ UNCHANGED <<now, live, crossed>>

\* resolve: the spec, or a 404.
Find(s) ==
    /\ serving[s].at = "find"
    /\ Turn(s, Away)
    /\ UNCHANGED <<now, live, specs, promised, crossed>>

----------------------------------------------------------------------------
SpecInit ==
    /\ now = 0
    /\ live = Owner
    /\ specs = <<>>
    /\ serving = [s \in Server |-> Away]
    /\ promised = [k \in Key |-> 0]
    /\ crossed = FALSE

SpecNext ==
    \/ Tick
    \/ SessionEnds
    \/ \E s \in Server :
          \/ \E op \in {"register", "resolve"}, k \in Key : Enter(s, op, k)
          \/ ListExpired(s) \/ ListFails(s) \/ Delete(s) \/ Insert(s) \/ MoveToEnd(s)
          \/ Measure(s) \/ Evict(s) \/ Find(s)

SpecSpec == SpecInit /\ [][SpecNext]_specVars

----------------------------------------------------------------------------
(* Properties. *)

SpecTypeOK ==
    /\ now \in 0 .. MaxNow
    /\ live \subseteq Owner
    /\ specs \in Seq(EphemeralSpec) /\ IsInjective([i \in DOMAIN specs |-> specs[i].key])
    /\ serving \in [Server -> Serving]
    /\ promised \in [Key -> 0 .. MaxNow + Term]
    /\ crossed \in BOOLEAN

(***************************************************************************)
(* A ref the agent has handed out resolves until its term is over or the   *)
(* store is full of younger ones, and no request fails inside the store,   *)
(* as long as requests do not meet there.  When they do, a purge may       *)
(* delete a spec that has been registered afresh since it was listed, or   *)
(* find the dict changed under it.                                         *)
(***************************************************************************)
RefLivesItsTerm ==
    \/ crossed
    \/ /\ \A k \in Key : promised[k] > now => k \in SpecKeys
       /\ \A s \in Server : serving[s].at # "fault"

(***************************************************************************)
(* resolve never serves a spec that had expired when the request came,     *)
(* even among requests that purge, insert and evict at the same time.      *)
(***************************************************************************)
ServedWhileGood ==
    \A s \in Server :
        serving[s].at = "find" /\ serving[s].key \in SpecKeys =>
            specs[At(serving[s].key)].expires > serving[s].read

(***************************************************************************)
(* register: the store is over its capacity only while a registration is   *)
(* still evicting, however many of them evict at once.                     *)
(***************************************************************************)
CapacityHolds ==
    \/ \E s \in Server : serving[s].at \in {"move", "measure", "evict"}
    \/ Len(specs) <= Capacity
=============================================================================
