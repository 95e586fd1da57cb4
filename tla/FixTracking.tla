------------------------------ MODULE FixTracking ------------------------------
(***************************************************************************)
(* FixTrackingLoader (drydocs/loaders/fix_tracking.py): a change-set of    *)
(* the remediation marks its targets, jobs and folders of the graph, with  *)
(* a fix, or takes that fix's marks away.  All targets are resolved before *)
(* the run opens and matched again by the statement that writes; other     *)
(* change-sets, sweeps and ingests may come in between.                    *)
(*                                                                         *)
(* The three remediation_* properties move together and are the fix.  A    *)
(* change-set fits one batch (a thousand targets): it is one statement.    *)
(***************************************************************************)
EXTENDS Integers

CONSTANTS
    Target,         \* jobs and folders a fix may name
    Fix,            \* remediation_fix_id
    NoFix,          \* a node without the properties
    Applier,        \* commands that may run at once
    MaxChangeSets,  \* bound: change-sets handed in
    MaxLosses       \* bound: nodes swept

ASSUME FixAssumption ==
    NoFix \notin Fix /\ Fix # {} /\ MaxChangeSets \in Nat /\ MaxLosses \in Nat

VARIABLES
    inGraph,    \* the targets that are nodes of the graph
    fixOf,      \* node -> the fix it is marked with
    changeSet,  \* applier -> the change-set it is at
    handedIn,   \* how many there have been
    losses      \* how many nodes have been swept

fixVars == <<inGraph, fixOf, changeSet, handedIn, losses>>

\* lost is history: targets swept since they were resolved.
ChangeSet ==
    [at: {"none", "preflight", "write"}, mode: {"apply", "reject"}, fix: Fix,
     targets: SUBSET Target, lost: SUBSET Target]

NoChangeSet == [at |-> "none", mode |-> "apply", fix |-> CHOOSE x \in Fix : TRUE,
                targets |-> {}, lost |-> {}]

----------------------------------------------------------------------------
(* sweep_removed, and an ingest that loads the node again, unmarked. *)

LoseNode(n) ==
    /\ n \in inGraph
    /\ losses < MaxLosses
    /\ losses' = losses + 1
    /\ inGraph' = inGraph \ {n}
    /\ fixOf' = [fixOf EXCEPT ![n] = NoFix]
    /\ changeSet' = [o \in Applier |->
          IF changeSet[o].at = "write"
          THEN [changeSet[o] EXCEPT !.lost = @ \union {n}]
          ELSE changeSet[o]]
    /\ UNCHANGED handedIn

LoadNode(n) ==
    /\ n \notin inGraph
    /\ inGraph' = inGraph \union {n}
    /\ UNCHANGED <<fixOf, changeSet, handedIn, losses>>

----------------------------------------------------------------------------
(* The loader. *)

HandIn(o) ==
    /\ changeSet[o].at = "none"
    /\ handedIn < MaxChangeSets
    /\ handedIn' = handedIn + 1
    /\ \E mode \in {"apply", "reject"}, x \in Fix, targets \in SUBSET Target :
          changeSet' = [changeSet EXCEPT ![o] =
              [NoChangeSet EXCEPT !.at = "preflight", !.mode = mode, !.fix = x,
                                  !.targets = targets]]
    /\ UNCHANGED <<inGraph, fixOf, losses>>

\* Mutant: the change-set is refused only if none of its targets is there.
MissingAltogether(targets) == IF targets \intersect inGraph = {} THEN targets ELSE {}

\* _RESOLVE_TARGETS
Missing(targets) == targets \ inGraph

\* An empty change-set, or one missing target, refuses the whole.
PreflightTargets(o) ==
    /\ changeSet[o].at = "preflight"
    /\ LET c == changeSet[o] IN
          changeSet' = [changeSet EXCEPT ![o] =
              IF c.targets = {} \/ Missing(c.targets) # {} THEN NoChangeSet
              ELSE [c EXCEPT !.at = "write"]]
    /\ UNCHANGED <<inGraph, fixOf, handedIn, losses>>

\* The rejection is fenced on the fix id.
Strips(c, n) == c.mode = "reject" /\ fixOf[n] = c.fix

\* The template: MATCH, never MERGE; a target no longer there is passed over.
WriteFix(o) ==
    /\ changeSet[o].at = "write"
    /\ LET c == changeSet[o] IN
          fixOf' = [n \in Target |->
              CASE n \in c.targets \intersect inGraph /\ c.mode = "apply" -> c.fix
                [] n \in c.targets \intersect inGraph /\ Strips(c, n) -> NoFix
                [] OTHER -> fixOf[n]]
    /\ changeSet' = [changeSet EXCEPT ![o] = NoChangeSet]
    /\ UNCHANGED <<inGraph, handedIn, losses>>

\* The run fails or dies: the one statement that writes has not run.
FailFix(o) ==
    /\ changeSet[o].at # "none"
    /\ changeSet' = [changeSet EXCEPT ![o] = NoChangeSet]
    /\ UNCHANGED <<inGraph, fixOf, handedIn, losses>>

----------------------------------------------------------------------------
FixInit ==
    /\ inGraph = Target
    /\ fixOf = [n \in Target |-> NoFix]
    /\ changeSet = [o \in Applier |-> NoChangeSet]
    /\ handedIn = 0 /\ losses = 0

FixNext ==
    \/ \E n \in Target : LoseNode(n) \/ LoadNode(n)
    \/ \E o \in Applier : HandIn(o) \/ PreflightTargets(o) \/ WriteFix(o) \/ FailFix(o)

FixSpec == FixInit /\ [][FixNext]_fixVars

----------------------------------------------------------------------------
(* Properties. *)

FixTypeOK ==
    /\ inGraph \subseteq Target
    /\ fixOf \in [Target -> Fix \union {NoFix}]
    /\ changeSet \in [Applier -> ChangeSet]
    /\ handedIn \in 0 .. MaxChangeSets /\ losses \in 0 .. MaxLosses

(***************************************************************************)
(* A change-set is applied or rejected as a whole: when a run has written, *)
(* every target it had resolved, and that no sweep has taken since, bears  *)
(* the fix (applied) or does not (rejected), although the statement passes *)
(* over what it cannot match; and of what other fixes have marked, only    *)
(* the targets of an applied change-set change.                            *)
(***************************************************************************)
ChangeSetIsWhole ==
    [][\A o \in Applier :
          LET c == changeSet[o] IN
          (c.at = "write" /\ changeSet'[o].at = "none" /\ fixOf' # fixOf) =>
              /\ \A n \in c.targets \ c.lost :
                    n \in inGraph /\ (c.mode = "apply" <=> fixOf'[n] = c.fix)
              /\ \A n \in Target :
                    fixOf'[n] # fixOf[n] =>
                        n \in c.targets /\ c.fix \in {fixOf[n], fixOf'[n]}]_fixVars
=============================================================================
