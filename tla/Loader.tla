------------------------------- MODULE Loader -------------------------------
(***************************************************************************)
(* The life of a load: `drydocs ingest-controlm` runs the folders loader   *)
(* and then the jobs loader, each of them drydocs/loaders/base.py over its *)
(* own template, against one Neo4j graph that other ingests and the        *)
(* retention sweep write to as well.  Every client.run is one transaction, *)
(* so it is one step.                                                      *)
(*                                                                         *)
(* A node's last_run_id is only ever compared with the id of a run in      *)
(* service, so the runs that have ended are one value, Earlier.  A mark is *)
(* fresh until it has outlived the retention window.  The stages behind    *)
(* jobs write other labels; they, the contents of rows, checksums, edges,  *)
(* the count of orphans and the status of the :JobRun, which no load reads *)
(* back, change none of this and are left out.                             *)
(***************************************************************************)
EXTENDS Integers, FiniteSets

CONSTANTS
    Folders,    \* folder ids of the source
    Jobs,       \* its jobs
    FolderOf,   \* FolderOf[j]: the folder of job j
    Chains,     \* ingests that may be in service at once
    Earlier,    \* a run that has ended
    Scopes,     \* how the operator narrows an ingest, see Narrowings
    BatchSize,  \* rows of one flush
    Rejects     \* whether the source has rows that fail validation

Nodes == Folders \union Jobs

\* --folder or --data-center; --row-cap, --developer-sid or --run-as; or neither.
Narrowings == {"all", "folder", "sample"}

ASSUME NodesAssumption   == Folders \intersect Jobs = {} /\ FolderOf \in [Jobs -> Folders]
ASSUME EarlierAssumption == Earlier \notin Chains
ASSUME ScopesAssumption  == Scopes \subseteq Narrowings
ASSUME BatchAssumption   == BatchSize \in Nat \ {0} /\ Rejects \in BOOLEAN

VARIABLES
    source,     \* the folders and jobs of psgmgr now
    graph,      \* the ControlMFolder and ControlMJob nodes
    chain       \* the ingests in service

vars == <<source, graph, chain>>

----------------------------------------------------------------------------
(* Rows, nodes and runs. *)

Node == [present: BOOLEAN, last: Chains \union {Earlier}, mark: {"none", "fresh", "old"}]

Absent == [present |-> FALSE, last |-> Earlier, mark |-> "none"]

Live(node) == node.present /\ node.mark = "none"

Folder(n) == IF n \in Jobs THEN FolderOf[n] ELSE n

\* The nodes a stage's sweep_label names.
Labelled(stage) == IF stage = "folders" THEN Folders ELSE Jobs

\* extract, refused and snapshot are history: the rows the run accepted and
\* refused, and the source it read them from, until its mark pass.  alone: no
\* other ingest and no sweep has worked on the graph since the run was opened.
Ingest ==
    [pc: {"idle", "open", "stream", "clear", "close"}, stage: {"folders", "jobs"},
     scope: Narrowings, pick: SUBSET Folders, rows: SUBSET Nodes,
     extract: SUBSET Nodes, refused: SUBSET Nodes, snapshot: SUBSET Nodes,
     alone: BOOLEAN]

Idle ==
    [pc |-> "idle", stage |-> "folders", scope |-> "all", pick |-> {}, rows |-> {},
     extract |-> {}, refused |-> {}, snapshot |-> {}, alone |-> FALSE]

Fresh(stage, scope, pick) ==
    [Idle EXCEPT !.pc = "open", !.stage = stage, !.scope = scope, !.pick = pick]

Busy == {c \in Chains : chain[c].pc # "idle"}

\* Everyone but c works on a graph that c is about to work on too.
Disturb(c, row) ==
    [d \in Chains |-> IF d = c THEN row ELSE [chain[d] EXCEPT !.alone = FALSE]]

\* The nodes that ended runs have stamped are told apart no more.
Retire(c) ==
    graph' = [n \in Nodes |->
                 IF graph[n].last = c THEN [graph[n] EXCEPT !.last = Earlier] ELSE graph[n]]

Init ==
    /\ source \in {s \in SUBSET Nodes : \A j \in s \intersect Jobs : FolderOf[j] \in s}
    /\ graph = [n \in Nodes |-> Absent]
    /\ chain = [c \in Chains |-> Idle]

----------------------------------------------------------------------------
(* The command. *)

\* ingest-controlm: the options that narrow every extract of the chain.
Start(c, scope, pick) ==
    /\ chain[c].pc = "idle"
    /\ scope # "folder" => pick = Folders
    /\ chain' = Disturb(c, Fresh("folders", scope, pick))
    /\ UNCHANGED <<source, graph>>

\* full_extract as the command passes it: no folder and no data center given.
FullExtract(c) == chain[c].scope # "folder"

\* The rows a stage's statement may return: those of the folders picked, or under
\* a sample cap any of them.
Extracts(c) ==
    LET asked == {n \in source \intersect Labelled(chain[c].stage) : Folder(n) \in chain[c].pick}
    IN  IF chain[c].scope = "sample" THEN SUBSET asked ELSE {asked}

\* Mutant: a row that fails validation is counted and then batched all the same.
OpenKeepsRefused(c) ==
    /\ chain[c].pc = "open"
    /\ \E rows \in Extracts(c) : \E refused \in SUBSET rows :
          /\ ~Rejects => refused = {}
          /\ chain' = [chain EXCEPT ![c] =
                [chain[c] EXCEPT
                    !.pc = "stream", !.alone = (Busy = {c}),
                    !.rows = rows, !.extract = rows \ refused,
                    !.refused = refused, !.snapshot = source]]
    /\ UNCHANGED <<source, graph>>

\* _open_run with its fresh run id, and the extract's statement executed.
Open(c) ==
    /\ chain[c].pc = "open"
    /\ \E rows \in Extracts(c) : \E refused \in SUBSET rows :
          /\ ~Rejects => refused = {}
          /\ chain' = [chain EXCEPT ![c] =
                [chain[c] EXCEPT
                    !.pc = "stream", !.alone = (Busy = {c}),
                    !.rows = rows \ refused, !.extract = rows \ refused,
                    !.refused = refused, !.snapshot = source]]
    /\ UNCHANGED <<source, graph>>

----------------------------------------------------------------------------
(* _load. *)

\* The jobs template MATCHes the parent folder: a row without one is dropped.
Lands(n) == n \in Jobs => graph[FolderOf[n]].present

Touched(c, node) == [node EXCEPT !.present = TRUE, !.last = c]

\* Mutant: the stamp is set ON CREATE only, so a known node keeps its old run id.
FlushUnstamped(c) ==
    \E batch \in SUBSET chain[c].rows :
        /\ chain[c].pc = "stream"
        /\ Cardinality(batch) \in 1..BatchSize
        /\ Cardinality(batch) < BatchSize => batch = chain[c].rows
        /\ graph' = [n \in Nodes |->
                        IF n \in batch /\ Lands(n) /\ ~graph[n].present
                        THEN Touched(c, graph[n]) ELSE graph[n]]
        /\ chain' = [chain EXCEPT ![c].rows = @ \ batch]
        /\ UNCHANGED source

\* _flush: one batch, full or the last one, is MERGEd in one transaction and
\* stamped with the run's id.  A mark stays where it is.
Flush(c) ==
    \E batch \in SUBSET chain[c].rows :
        /\ chain[c].pc = "stream"
        /\ Cardinality(batch) \in 1..BatchSize
        /\ Cardinality(batch) < BatchSize => batch = chain[c].rows
        /\ graph' = [n \in Nodes |->
                        IF n \in batch /\ Lands(n) THEN Touched(c, graph[n]) ELSE graph[n]]
        /\ chain' = [chain EXCEPT ![c].rows = @ \ batch]
        /\ UNCHANGED source

\* Whether the run declares a population at all: the jobs loader the folders its
\* rows carried, the folders loader everything if the caller vouches for it.
Declares(c) == IF chain[c].stage = "jobs" THEN chain[c].extract # {} ELSE FullExtract(c)

InScope(c) ==
    IF chain[c].stage = "folders" THEN Folders
    ELSE {j \in Jobs : \E n \in chain[c].extract : FolderOf[n] = FolderOf[j]}

\* Mutant: the mark pass runs before the last batch, short of a full one, is flushed.
MarkEarly(c) ==
    /\ chain[c].pc = "stream" /\ Cardinality(chain[c].rows) <= BatchSize
    /\ graph' = [n \in Nodes |->
                    IF Declares(c) /\ n \in InScope(c) /\ Live(graph[n]) /\ graph[n].last # c
                    THEN [graph[n] EXCEPT !.mark = "fresh"] ELSE graph[n]]
    /\ chain' = [chain EXCEPT ![c].pc = IF Declares(c) THEN "clear" ELSE "close",
                              ![c].refused = {}, ![c].snapshot = {}]
    /\ UNCHANGED source

\* _mark_removed, first statement: whatever in the scope this run did not stamp.
Mark(c) ==
    /\ chain[c].pc = "stream" /\ chain[c].rows = {}
    /\ graph' = [n \in Nodes |->
                    IF Declares(c) /\ n \in InScope(c) /\ Live(graph[n]) /\ graph[n].last # c
                    THEN [graph[n] EXCEPT !.mark = "fresh"] ELSE graph[n]]
    /\ chain' = [chain EXCEPT ![c].pc = IF Declares(c) THEN "clear" ELSE "close",
                              ![c].refused = {}, ![c].snapshot = {}]
    /\ UNCHANGED source

\* Second statement: what it did stamp is not removed.
Clear(c) ==
    /\ chain[c].pc = "clear"
    /\ graph' = [n \in Nodes |-> IF n \in Labelled(chain[c].stage) /\ graph[n].last = c
                                 THEN [graph[n] EXCEPT !.mark = "none"] ELSE graph[n]]
    /\ chain' = [chain EXCEPT ![c].pc = "close"]
    /\ UNCHANGED source

\* _close_run: OK, and the chain goes on to the jobs.
Close(c) ==
    /\ chain[c].pc = "close"
    /\ chain' = [chain EXCEPT ![c] =
                    IF chain[c].stage = "folders"
                    THEN Fresh("jobs", chain[c].scope, chain[c].pick) ELSE Idle]
    /\ Retire(c)
    /\ UNCHANGED source

\* A statement or the stream raises, which ends the command, or the process dies.
Stop(c) ==
    /\ chain[c].pc # "idle"
    /\ chain' = [chain EXCEPT ![c] = Idle]
    /\ Retire(c)
    /\ UNCHANGED source

----------------------------------------------------------------------------
(* The retention sweep, time, and the source. *)

\* sweep_removed: one label per statement, the marks past the window.
Sweep(stage) ==
    /\ graph' = [n \in Nodes |-> IF n \in Labelled(stage) /\ graph[n].mark = "old"
                                 THEN Absent ELSE graph[n]]
    /\ chain' = [c \in Chains |-> [chain[c] EXCEPT !.alone = FALSE]]
    /\ UNCHANGED source

\* The retention window passes.
Age ==
    /\ graph' = [n \in Nodes |-> IF graph[n].mark = "fresh"
                                 THEN [graph[n] EXCEPT !.mark = "old"] ELSE graph[n]]
    /\ UNCHANGED <<source, chain>>

\* A folder leaves with its jobs; a job arrives in a folder that is there.
Change(n) ==
    /\ source' = IF n \in source
                 THEN {m \in source : m # n /\ Folder(m) # n}
                 ELSE source \union {n}
    /\ n \in Jobs => FolderOf[n] \in source
    /\ UNCHANGED <<graph, chain>>

Step(c) == Open(c) \/ Flush(c) \/ Mark(c) \/ Clear(c) \/ Close(c) \/ Stop(c)

Next ==
    \/ \E c \in Chains, scope \in Scopes, pick \in SUBSET Folders : Start(c, scope, pick)
    \/ \E c \in Chains : Step(c)
    \/ \E stage \in {"folders", "jobs"} : Sweep(stage)
    \/ Age
    \/ \E n \in Nodes : Change(n)

Spec == Init /\ [][Next]_vars

----------------------------------------------------------------------------
(* Properties. *)

\* State has its type; a node that is not there carries nothing, and no run has a
\* row left to write that it did not accept.
TypeOK ==
    /\ source \subseteq Nodes
    /\ graph \in [Nodes -> Node]
    /\ chain \in [Chains -> Ingest]
    /\ \A n \in Nodes : ~graph[n].present => graph[n] = Absent
    /\ \A c \in Chains : chain[c].rows \subseteq chain[c].extract

\* A run that had the graph to itself comes to its end with exactly the rows it
\* accepted alive in the scope that it declared, whatever failed, overlapping or
\* killed runs had left there before it: stale nodes marked, returned ones not.
LoneRunSettles ==
    \A c \in Chains :
        chain[c].pc = "close" /\ chain[c].alone /\ Declares(c) =>
            \A n \in InScope(c) :
                Live(graph[n]) <=> n \in chain[c].extract /\ Lands(n)

\* A lone run takes nothing for removed that is there: what it marks is gone from
\* the source it read, or its row was refused, or it is a job that its template
\* found no folder for.
MarksAreTrue ==
    [][\A c \in Chains :
          chain[c].pc = "stream" /\ chain[c].alone =>
              \A n \in Nodes :
                  graph[n].mark = "none" /\ graph'[n].mark = "fresh" =>
                      n \notin chain[c].snapshot \/ n \in chain[c].refused \/ ~Lands(n)]_vars

\* "A filtered extract must not mark": an ingest narrowed by any option marks no
\* folder as removed.
FilteredMarksNoFolder ==
    [][\A c \in Chains :
          chain[c].pc = "stream" /\ Busy = {c} /\ chain[c].scope # "all" =>
              \A n \in Folders : graph[n].mark = "none" => graph'[n].mark = "none"]_vars
=============================================================================
