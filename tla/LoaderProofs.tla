---------------------------- MODULE LoaderProofs ----------------------------
(***************************************************************************)
(* Proofs about Loader, for any folders, jobs and number of ingests.       *)
(***************************************************************************)
EXTENDS Loader, TLAPS

----------------------------------------------------------------------------
(* The invariant. *)

\* A run counts as alone only while it is under way and every other one is idle.
LoneRuns ==
    \A c \in Chains :
        chain[c].alone =>
            /\ chain[c].pc \in {"stream", "clear", "close"}
            /\ \A d \in Chains : d # c => chain[d].pc = "idle"

\* A run's rows are rows of its stage.
Carried ==
    \A c \in Chains : chain[c].extract \subseteq Labelled(chain[c].stage)

\* A run that has not begun has stamped nothing: its id is fresh.
Unstamped ==
    \A c \in Chains :
        chain[c].pc \in {"idle", "open"} => \A n \in Nodes : graph[n].last # c

\* Until it ends, a lone run has stamped what it has flushed and what landed.
Stamped ==
    \A c \in Chains :
        chain[c].alone /\ chain[c].pc \in {"stream", "clear"} =>
            \A n \in Nodes :
                graph[n].last = c <=> n \in chain[c].extract \ chain[c].rows /\ Lands(n)

\* Between the two statements of the mark pass, nothing that is alive in the scope
\* lacks the run's stamp.
Passed ==
    \A c \in Chains :
        chain[c].alone /\ chain[c].pc = "clear" =>
            /\ chain[c].rows = {}
            /\ \A n \in InScope(c) : graph[n].last # c => ~Live(graph[n])

IInv == /\ TypeOK
        /\ LoneRuns /\ Carried /\ Unstamped /\ Stamped /\ Passed
        /\ LoneRunSettles

----------------------------------------------------------------------------
(* Records. *)

\* The fields of a node, and of a node rewritten in one of them.
LEMMA NodeFields ==
    ASSUME NEW node \in Node
    PROVE  /\ node.present \in BOOLEAN
           /\ node.last \in Chains \union {Earlier}
           /\ node.mark \in {"none", "fresh", "old"}
           /\ \A m \in {"none", "fresh", "old"} :
                 LET marked == [node EXCEPT !.mark = m]
                 IN  /\ marked \in Node
                     /\ marked.present = node.present /\ marked.last = node.last
                     /\ marked.mark = m
           /\ LET retired == [node EXCEPT !.last = Earlier]
              IN  /\ retired \in Node /\ retired.last = Earlier
                  /\ retired.present = node.present /\ retired.mark = node.mark
           /\ \A c \in Chains :
                 /\ Touched(c, node) \in Node
                 /\ Touched(c, node).present /\ Touched(c, node).last = c
                 /\ Touched(c, node).mark = node.mark
  BY DEF Node, Touched

\* Absent is a node, on no run's id.
LEMMA AbsentNode == Absent \in Node /\ ~Absent.present /\ Absent.last \notin Chains
  BY EarlierAssumption DEF Absent, Node

\* The fields of an ingest.
LEMMA IngestFields ==
    ASSUME NEW row \in Ingest
    PROVE  /\ row.pc \in {"idle", "open", "stream", "clear", "close"}
           /\ row.stage \in {"folders", "jobs"}
           /\ row.scope \in Narrowings /\ row.pick \subseteq Folders
           /\ row.rows \subseteq Nodes /\ row.extract \subseteq Nodes
           /\ row.refused \subseteq Nodes /\ row.snapshot \subseteq Nodes
           /\ row.alone \in BOOLEAN
  BY DEF Ingest

\* An ingest that has ended.
LEMMA IdleIngest ==
    /\ Idle \in Ingest /\ Idle.pc = "idle" /\ ~Idle.alone
    /\ Idle.rows = {} /\ Idle.extract = {}
  BY DEF Idle, Ingest, Narrowings

\* An ingest about to open a run.
LEMMA FreshIngest ==
    ASSUME NEW stage \in {"folders", "jobs"}, NEW scope \in Narrowings,
           NEW pick \in SUBSET Folders
    PROVE  /\ Fresh(stage, scope, pick) \in Ingest
           /\ Fresh(stage, scope, pick).pc = "open" /\ ~Fresh(stage, scope, pick).alone
           /\ Fresh(stage, scope, pick).stage = stage
           /\ Fresh(stage, scope, pick).scope = scope
           /\ Fresh(stage, scope, pick).pick = pick
           /\ Fresh(stage, scope, pick).rows = {}
           /\ Fresh(stage, scope, pick).extract = {}
  BY DEF Fresh, Idle, Ingest

\* An ingest that is disturbed is otherwise what it was.
Disturbed(row, row2) ==
    /\ row2 \in Ingest /\ ~row2.alone
    /\ row2.pc = row.pc /\ row2.stage = row.stage
    /\ row2.scope = row.scope /\ row2.pick = row.pick
    /\ row2.rows = row.rows /\ row2.extract = row.extract
    /\ row2.refused = row.refused /\ row2.snapshot = row.snapshot

LEMMA DisturbedIngest ==
    ASSUME NEW row \in Ingest
    PROVE  Disturbed(row, [row EXCEPT !.alone = FALSE])
  BY DEF Ingest, Disturbed

\* A run's scope lies within the label of its stage.
LEMMA ScopeNodes ==
    ASSUME NEW c \in Chains
    PROVE  /\ InScope(c) \subseteq Labelled(chain[c].stage)
           /\ Labelled(chain[c].stage) \subseteq Nodes
  BY DEF InScope, Labelled, Nodes

----------------------------------------------------------------------------
(* What each action does to the ingests and to the nodes. *)

\* Start: the ingest is open, every other one disturbed.
LEMMA StartDoes ==
    ASSUME TypeOK, NEW c \in Chains, NEW scope \in Scopes, NEW pick \in SUBSET Folders,
           Start(c, scope, pick)
    PROVE  /\ chain' \in [Chains -> Ingest] /\ graph' = graph /\ source' = source
           /\ chain[c].pc = "idle" /\ chain'[c].pc = "open" /\ chain'[c].scope = scope
           /\ chain'[c].pick = pick /\ (scope # "folder" => pick = Folders)
           /\ chain'[c].rows = {} /\ chain'[c].extract = {}
           /\ \A d \in Chains : ~chain'[d].alone
           /\ \A d \in Chains : d # c => Disturbed(chain[d], chain'[d])
<1>1. scope \in Narrowings
  BY ScopesAssumption
<1>2. \A d \in Chains : chain[d] \in Ingest
  BY DEF TypeOK
<1> DEFINE still(d) == [chain[d] EXCEPT !.alone = FALSE]
<1>3. chain' = [d \in Chains |-> IF d = c THEN Fresh("folders", scope, pick)
                                         ELSE still(d)]
  BY DEF Start, Disturb
<1>4. \A d \in Chains : Disturbed(chain[d], still(d))
  BY <1>2, DisturbedIngest
<1>5. /\ Fresh("folders", scope, pick) \in Ingest
      /\ Fresh("folders", scope, pick).pc = "open"
      /\ Fresh("folders", scope, pick).scope = scope
      /\ Fresh("folders", scope, pick).pick = pick
      /\ Fresh("folders", scope, pick).rows = {}
      /\ Fresh("folders", scope, pick).extract = {}
      /\ ~Fresh("folders", scope, pick).alone
  BY <1>1, FreshIngest
<1> HIDE DEF still
<1>6. chain' \in [Chains -> Ingest]
  BY <1>3, <1>4, <1>5 DEF Disturbed
<1>7. chain'[c] = Fresh("folders", scope, pick)
  BY <1>3
<1>8. \A d \in Chains : d # c => Disturbed(chain[d], chain'[d])
  BY <1>3, <1>4
<1>9. \A d \in Chains : ~chain'[d].alone
  BY <1>5, <1>7, <1>8 DEF Disturbed
<1> QED
  BY <1>5, <1>6, <1>7, <1>8, <1>9 DEF Start

\* Open: the run has its rows, all of them unwritten.
LEMMA OpenDoes ==
    ASSUME TypeOK, NEW c \in Chains, Open(c)
    PROVE  /\ chain' \in [Chains -> Ingest] /\ graph' = graph /\ source' = source
           /\ chain[c].pc = "open" /\ chain'[c].pc = "stream"
           /\ chain'[c].stage = chain[c].stage /\ chain'[c].scope = chain[c].scope
           /\ chain'[c].pick = chain[c].pick
           /\ chain'[c].rows = chain'[c].extract
           /\ chain'[c].alone => \A d \in Chains : d # c => chain[d].pc = "idle"
           /\ chain'[c].snapshot = source
           /\ chain'[c].extract \union chain'[c].refused \in Extracts(c)
           /\ \A d \in Chains : d # c => chain'[d] = chain[d]
<1>0. PICK rows \in Extracts(c) : \E refused \in SUBSET rows :
        chain' = [chain EXCEPT ![c] =
                    [chain[c] EXCEPT
                        !.pc = "stream", !.alone = (Busy = {c}),
                        !.rows = rows \ refused, !.extract = rows \ refused,
                        !.refused = refused, !.snapshot = source]]
  BY DEF Open
<1>1. PICK refused \in SUBSET rows :
        chain' = [chain EXCEPT ![c] =
                    [chain[c] EXCEPT
                        !.pc = "stream", !.alone = (Busy = {c}),
                        !.rows = rows \ refused, !.extract = rows \ refused,
                        !.refused = refused, !.snapshot = source]]
  BY <1>0
<1> DEFINE row == [chain[c] EXCEPT
                        !.pc = "stream", !.alone = (Busy = {c}),
                        !.rows = rows \ refused, !.extract = rows \ refused,
                        !.refused = refused, !.snapshot = source]
<1>2. rows \subseteq Nodes
  BY DEF Extracts, TypeOK
<1>3. chain[c] \in Ingest /\ source \subseteq Nodes
  BY DEF TypeOK
<1>4. /\ row \in Ingest /\ row.pc = "stream" /\ row.stage = chain[c].stage
      /\ row.scope = chain[c].scope /\ row.pick = chain[c].pick
      /\ row.rows = rows \ refused /\ row.extract = rows \ refused
      /\ row.refused = refused /\ row.snapshot = source /\ row.alone = (Busy = {c})
  BY <1>2, <1>3 DEF Ingest
<1> HIDE DEF row
<1>5. chain' = [chain EXCEPT ![c] = row]
  BY <1>1 DEF row
<1>6. chain' \in [Chains -> Ingest] /\ chain'[c] = row
  BY <1>4, <1>5 DEF TypeOK
<1>7. \A d \in Chains : d # c => chain'[d] = chain[d]
  BY <1>5 DEF TypeOK
<1>8. Busy = {c} => \A d \in Chains : d # c => chain[d].pc = "idle"
  BY DEF Busy
<1>9. chain'[c].extract \union chain'[c].refused = rows
  BY <1>4, <1>6
<1>10. chain[c].pc = "open" /\ graph' = graph /\ source' = source
  BY DEF Open
<1>11. chain'[c].alone => \A d \in Chains : d # c => chain[d].pc = "idle"
  BY <1>4, <1>6, <1>8
<1> QED
  BY <1>4, <1>6, <1>7, <1>9, <1>10, <1>11

\* Flush: a batch is off the buffer, and what of it lands carries the stamp.
LEMMA FlushDoes ==
    ASSUME TypeOK, NEW c \in Chains, Flush(c)
    PROVE  \E batch \in SUBSET chain[c].rows :
              /\ chain[c].pc = "stream" /\ source' = source
              /\ chain' \in [Chains -> Ingest]
              /\ chain'[c].rows = chain[c].rows \ batch
              /\ chain'[c].pc = "stream" /\ chain'[c].stage = chain[c].stage
              /\ chain'[c].scope = chain[c].scope /\ chain'[c].pick = chain[c].pick
              /\ chain'[c].extract = chain[c].extract /\ chain'[c].alone = chain[c].alone
              /\ chain'[c].refused = chain[c].refused
              /\ chain'[c].snapshot = chain[c].snapshot
              /\ \A d \in Chains : d # c => chain'[d] = chain[d]
              /\ graph' \in [Nodes -> Node]
              /\ \A n \in Nodes : /\ graph'[n].mark = graph[n].mark
                                  /\ n \in batch /\ Lands(n) =>
                                        graph'[n].present /\ graph'[n].last = c
                                  /\ ~(n \in batch /\ Lands(n)) => graph'[n] = graph[n]
<1>1. PICK batch \in SUBSET chain[c].rows :
        /\ chain[c].pc = "stream"
        /\ graph' = [n \in Nodes |->
                        IF n \in batch /\ Lands(n) THEN Touched(c, graph[n]) ELSE graph[n]]
        /\ chain' = [chain EXCEPT ![c].rows = @ \ batch]
        /\ UNCHANGED source
  BY DEF Flush
<1>2. chain[c] \in Ingest /\ chain[c].rows \subseteq Nodes
  BY IngestFields DEF TypeOK
<1> DEFINE row == [chain[c] EXCEPT !.rows = chain[c].rows \ batch]
<1>3. /\ row \in Ingest /\ row.rows = chain[c].rows \ batch
      /\ row.pc = chain[c].pc /\ row.stage = chain[c].stage
      /\ row.scope = chain[c].scope /\ row.pick = chain[c].pick
      /\ row.extract = chain[c].extract /\ row.alone = chain[c].alone
      /\ row.refused = chain[c].refused /\ row.snapshot = chain[c].snapshot
  BY <1>2 DEF Ingest
<1>4. chain' = [chain EXCEPT ![c] = row]
  BY <1>1
<1> HIDE DEF row
<1>5. /\ chain' \in [Chains -> Ingest] /\ chain'[c] = row
      /\ \A d \in Chains : d # c => chain'[d] = chain[d]
  BY <1>3, <1>4 DEF TypeOK
<1>6. \A n \in Nodes : graph[n] \in Node
  BY DEF TypeOK
<1>7. \A n \in Nodes :
         /\ Touched(c, graph[n]) \in Node
         /\ Touched(c, graph[n]).present /\ Touched(c, graph[n]).last = c
         /\ Touched(c, graph[n]).mark = graph[n].mark
  BY <1>6, NodeFields
<1>8. graph' \in [Nodes -> Node]
  BY <1>1, <1>6, <1>7
<1>9. \A n \in Nodes : graph'[n] = IF n \in batch /\ Lands(n)
                                   THEN Touched(c, graph[n]) ELSE graph[n]
  BY <1>1
<1> QED
  BY <1>1, <1>3, <1>5, <1>7, <1>8, <1>9

\* Mark: what is alive in a declared scope without the stamp has a fresh mark, the
\* rest is as it was.
LEMMA MarkDoes ==
    ASSUME TypeOK, NEW c \in Chains, Mark(c)
    PROVE  /\ chain[c].pc = "stream" /\ chain[c].rows = {} /\ source' = source
           /\ chain' \in [Chains -> Ingest]
           /\ chain'[c].pc = IF Declares(c) THEN "clear" ELSE "close"
           /\ chain'[c].rows = {} /\ chain'[c].stage = chain[c].stage
           /\ chain'[c].scope = chain[c].scope /\ chain'[c].pick = chain[c].pick
           /\ chain'[c].extract = chain[c].extract /\ chain'[c].alone = chain[c].alone
           /\ \A d \in Chains : d # c => chain'[d] = chain[d]
           /\ graph' \in [Nodes -> Node]
           /\ \A n \in Nodes :
                /\ graph'[n].present = graph[n].present /\ graph'[n].last = graph[n].last
                /\ Declares(c) /\ n \in InScope(c) /\ Live(graph[n]) /\ graph[n].last # c =>
                      graph'[n].mark = "fresh"
                /\ ~(Declares(c) /\ n \in InScope(c) /\ Live(graph[n]) /\ graph[n].last # c) =>
                      graph'[n] = graph[n]
<1> DEFINE row == [chain[c] EXCEPT !.pc = IF Declares(c) THEN "clear" ELSE "close",
                                   !.refused = {}, !.snapshot = {}]
<1>1. chain[c] \in Ingest
  BY DEF TypeOK
<1>2. /\ row \in Ingest /\ row.pc = IF Declares(c) THEN "clear" ELSE "close"
      /\ row.rows = chain[c].rows /\ row.stage = chain[c].stage
      /\ row.scope = chain[c].scope /\ row.pick = chain[c].pick
      /\ row.extract = chain[c].extract /\ row.alone = chain[c].alone
  BY <1>1 DEF Ingest
<1>3. chain' = [chain EXCEPT ![c] = row]
  BY DEF Mark, TypeOK
<1> HIDE DEF row
<1>4. /\ chain' \in [Chains -> Ingest] /\ chain'[c] = row
      /\ \A d \in Chains : d # c => chain'[d] = chain[d]
  BY <1>2, <1>3 DEF TypeOK
<1>5. \A n \in Nodes : graph[n] \in Node
  BY DEF TypeOK
<1>6. \A n \in Nodes : LET marked == [graph[n] EXCEPT !.mark = "fresh"]
                       IN  /\ marked \in Node /\ marked.mark = "fresh"
                           /\ marked.present = graph[n].present
                           /\ marked.last = graph[n].last
  BY <1>5, NodeFields
<1> DEFINE hit(n) == Declares(c) /\ n \in InScope(c) /\ Live(graph[n]) /\ graph[n].last # c
<1>7. graph' = [n \in Nodes |-> IF hit(n) THEN [graph[n] EXCEPT !.mark = "fresh"] ELSE graph[n]]
  BY DEF Mark
<1> HIDE DEF hit
<1>8. graph' \in [Nodes -> Node]
  BY <1>5, <1>6, <1>7
<1>9. \A n \in Nodes :
         /\ graph'[n].present = graph[n].present /\ graph'[n].last = graph[n].last
         /\ hit(n) => graph'[n].mark = "fresh"
         /\ ~hit(n) => graph'[n] = graph[n]
  BY <1>6, <1>7
<1>10. chain[c].pc = "stream" /\ chain[c].rows = {} /\ source' = source
  BY DEF Mark
<1> QED
  BY <1>2, <1>4, <1>8, <1>9, <1>10 DEF hit

\* Clear: the nodes of the label that carry the stamp are unmarked.
LEMMA ClearDoes ==
    ASSUME TypeOK, NEW c \in Chains, Clear(c)
    PROVE  /\ chain[c].pc = "clear" /\ source' = source
           /\ chain' \in [Chains -> Ingest] /\ chain'[c].pc = "close"
           /\ chain'[c].rows = chain[c].rows /\ chain'[c].stage = chain[c].stage
           /\ chain'[c].scope = chain[c].scope /\ chain'[c].pick = chain[c].pick
           /\ chain'[c].extract = chain[c].extract /\ chain'[c].alone = chain[c].alone
           /\ \A d \in Chains : d # c => chain'[d] = chain[d]
           /\ graph' \in [Nodes -> Node]
           /\ \A n \in Nodes :
                /\ graph'[n].present = graph[n].present /\ graph'[n].last = graph[n].last
                /\ n \in Labelled(chain[c].stage) /\ graph[n].last = c =>
                      graph'[n].mark = "none"
                /\ ~(n \in Labelled(chain[c].stage) /\ graph[n].last = c) =>
                      graph'[n] = graph[n]
<1> DEFINE row == [chain[c] EXCEPT !.pc = "close"]
<1>1. chain[c] \in Ingest
  BY DEF TypeOK
<1>2. /\ row \in Ingest /\ row.pc = "close"
      /\ row.rows = chain[c].rows /\ row.stage = chain[c].stage
      /\ row.scope = chain[c].scope /\ row.pick = chain[c].pick
      /\ row.extract = chain[c].extract /\ row.alone = chain[c].alone
  BY <1>1 DEF Ingest
<1>3. chain' = [chain EXCEPT ![c] = row]
  BY DEF Clear, TypeOK
<1> HIDE DEF row
<1>4. /\ chain' \in [Chains -> Ingest] /\ chain'[c] = row
      /\ \A d \in Chains : d # c => chain'[d] = chain[d]
  BY <1>2, <1>3 DEF TypeOK
<1>5. \A n \in Nodes : graph[n] \in Node
  BY DEF TypeOK
<1>6. \A n \in Nodes : LET bare == [graph[n] EXCEPT !.mark = "none"]
                       IN  /\ bare \in Node /\ bare.mark = "none"
                           /\ bare.present = graph[n].present /\ bare.last = graph[n].last
  BY <1>5, NodeFields
<1> DEFINE hit(n) == n \in Labelled(chain[c].stage) /\ graph[n].last = c
<1>7. graph' = [n \in Nodes |-> IF hit(n) THEN [graph[n] EXCEPT !.mark = "none"] ELSE graph[n]]
  BY DEF Clear
<1> HIDE DEF hit
<1>8. graph' \in [Nodes -> Node]
  BY <1>5, <1>6, <1>7
<1>9. \A n \in Nodes :
         /\ graph'[n].present = graph[n].present /\ graph'[n].last = graph[n].last
         /\ hit(n) => graph'[n].mark = "none"
         /\ ~hit(n) => graph'[n] = graph[n]
  BY <1>6, <1>7
<1>10. chain[c].pc = "clear" /\ source' = source
  BY DEF Clear
<1> QED
  BY <1>2, <1>4, <1>8, <1>9, <1>10 DEF hit

\* Retire: no node carries the run's id any more; present and mark are kept.
LEMMA RetireDoes ==
    ASSUME TypeOK, NEW c \in Chains, Retire(c)
    PROVE  /\ graph' \in [Nodes -> Node]
           /\ \A n \in Nodes :
                /\ graph'[n].present = graph[n].present /\ graph'[n].mark = graph[n].mark
                /\ graph'[n].last # c
                /\ graph'[n].last \in {graph[n].last, Earlier}
                /\ ~graph[n].present => graph'[n] = graph[n]
<1>1. \A n \in Nodes : graph[n] \in Node /\ (~graph[n].present => graph[n].last # c)
  BY AbsentNode DEF TypeOK
<1>2. \A n \in Nodes : LET retired == [graph[n] EXCEPT !.last = Earlier]
                       IN  /\ retired \in Node /\ retired.last = Earlier
                           /\ retired.present = graph[n].present
                           /\ retired.mark = graph[n].mark
  BY <1>1, NodeFields
<1>3. graph' = [n \in Nodes |->
                   IF graph[n].last = c THEN [graph[n] EXCEPT !.last = Earlier] ELSE graph[n]]
  BY DEF Retire
<1>4. graph' \in [Nodes -> Node]
  BY <1>1, <1>2, <1>3
<1>5. \A n \in Nodes : graph[n].last = c =>
         /\ graph'[n].last = Earlier /\ graph'[n].present = graph[n].present
         /\ graph'[n].mark = graph[n].mark
  BY <1>2, <1>3
<1>6. \A n \in Nodes : graph[n].last # c => graph'[n] = graph[n]
  BY <1>3
<1> QED
  BY <1>1, <1>4, <1>5, <1>6, EarlierAssumption

\* Close and Stop: the run is over and its stamps are retired.
LEMMA EndDoes ==
    ASSUME TypeOK, NEW c \in Chains, Close(c) \/ Stop(c)
    PROVE  /\ chain' \in [Chains -> Ingest] /\ source' = source /\ Retire(c)
           /\ chain[c].pc # "idle" /\ chain'[c].pc \in {"idle", "open"}
           /\ chain'[c].rows = {} /\ chain'[c].extract = {} /\ ~chain'[c].alone
           /\ chain'[c].pc = "open" =>
                 chain'[c].scope = chain[c].scope /\ chain'[c].pick = chain[c].pick
           /\ \A d \in Chains : d # c => chain'[d] = chain[d]
<1>1. chain[c].scope \in Narrowings /\ chain[c].pick \in SUBSET Folders
  BY IngestFields DEF TypeOK
<1> DEFINE jobs == Fresh("jobs", chain[c].scope, chain[c].pick)
<1>2. /\ jobs \in Ingest /\ jobs.pc = "open" /\ ~jobs.alone
      /\ jobs.scope = chain[c].scope /\ jobs.pick = chain[c].pick
      /\ jobs.rows = {} /\ jobs.extract = {}
  BY <1>1, FreshIngest
<1>3. PICK row \in {jobs, Idle} : chain' = [chain EXCEPT ![c] = row]
  BY DEF Close, Stop
<1> HIDE DEF jobs
<1>4. /\ chain' \in [Chains -> Ingest] /\ chain'[c] = row
      /\ \A d \in Chains : d # c => chain'[d] = chain[d]
  BY <1>2, <1>3, IdleIngest DEF TypeOK
<1>5. chain[c].pc # "idle" /\ source' = source /\ Retire(c)
  BY DEF Close, Stop
<1> QED
  BY <1>2, <1>4, <1>5, IdleIngest

\* Sweep: a node is gone with all it carried, or as it was; nobody is alone.
LEMMA SweepDoes ==
    ASSUME TypeOK, NEW stage \in {"folders", "jobs"}, Sweep(stage)
    PROVE  /\ chain' \in [Chains -> Ingest] /\ source' = source
           /\ graph' \in [Nodes -> Node]
           /\ \A n \in Nodes : graph'[n] \in {graph[n], Absent}
           /\ \A n \in Nodes : graph'[n] # graph[n] => graph[n].mark = "old"
           /\ \A c \in Chains : Disturbed(chain[c], chain'[c])
<1>1. \A n \in Nodes : graph[n] \in Node
  BY DEF TypeOK
<1>2. graph' = [n \in Nodes |-> IF n \in Labelled(stage) /\ graph[n].mark = "old"
                                THEN Absent ELSE graph[n]]
  BY DEF Sweep
<1>3. /\ graph' \in [Nodes -> Node] /\ \A n \in Nodes : graph'[n] \in {graph[n], Absent}
      /\ \A n \in Nodes : graph'[n] # graph[n] => graph[n].mark = "old"
  BY <1>1, <1>2, AbsentNode
<1> DEFINE still(c) == [chain[c] EXCEPT !.alone = FALSE]
<1>4. \A c \in Chains : Disturbed(chain[c], still(c))
  BY DisturbedIngest DEF TypeOK
<1>5. chain' = [c \in Chains |-> still(c)] /\ source' = source
  BY DEF Sweep
<1> HIDE DEF still
<1>6. \A c \in Chains : Disturbed(chain[c], chain'[c])
  BY <1>4, <1>5
<1>7. chain' \in [Chains -> Ingest]
  BY <1>4, <1>5 DEF Disturbed
<1> QED
  BY <1>3, <1>5, <1>6, <1>7

\* Age: a mark that was fresh is old.
LEMMA AgeDoes ==
    ASSUME TypeOK, Age
    PROVE  /\ chain' = chain /\ source' = source /\ graph' \in [Nodes -> Node]
           /\ \A n \in Nodes :
                /\ graph'[n].present = graph[n].present /\ graph'[n].last = graph[n].last
                /\ graph'[n].mark = "none" <=> graph[n].mark = "none"
                /\ graph'[n].mark # "fresh"
                /\ graph[n].mark = "none" => graph'[n] = graph[n]
<1>1. \A n \in Nodes : graph[n] \in Node
  BY DEF TypeOK
<1>2. \A n \in Nodes : LET aged == [graph[n] EXCEPT !.mark = "old"]
                       IN  /\ aged \in Node /\ aged.mark = "old"
                           /\ aged.present = graph[n].present /\ aged.last = graph[n].last
  BY <1>1, NodeFields
<1>3. graph' = [n \in Nodes |-> IF graph[n].mark = "fresh"
                                THEN [graph[n] EXCEPT !.mark = "old"] ELSE graph[n]]
  BY DEF Age
<1>4. graph' \in [Nodes -> Node]
  BY <1>1, <1>2, <1>3
<1>5. \A n \in Nodes : IF graph[n].mark = "fresh"
                       THEN /\ graph'[n].mark = "old" /\ graph'[n].present = graph[n].present
                            /\ graph'[n].last = graph[n].last
                       ELSE graph'[n] = graph[n]
  BY <1>2, <1>3
<1> QED
  BY <1>4, <1>5 DEF Age

----------------------------------------------------------------------------
(* Types. *)

LEMMA TypesInitially == Init => TypeOK
<1>1. [n \in Nodes |-> Absent] \in [Nodes -> Node] /\ [c \in Chains |-> Idle] \in [Chains -> Ingest]
  BY AbsentNode, IdleIngest
<1> QED
  BY <1>1, IdleIngest DEF Init, TypeOK

LEMMA TypesKept == TypeOK /\ [Next]_vars => TypeOK'
<1> SUFFICES ASSUME TypeOK, [Next]_vars PROVE TypeOK'
  OBVIOUS
<1>0. /\ source \subseteq Nodes /\ graph \in [Nodes -> Node] /\ chain \in [Chains -> Ingest]
      /\ \A n \in Nodes : graph[n] \in Node /\ (~graph[n].present => graph[n] = Absent)
      /\ \A c \in Chains : chain[c] \in Ingest /\ chain[c].rows \subseteq chain[c].extract
  BY DEF TypeOK
<1>1. ASSUME NEW c \in Chains, NEW scope \in Scopes, NEW pick \in SUBSET Folders,
             Start(c, scope, pick)
      PROVE  TypeOK'
  <2>1. \A d \in Chains : chain'[d].rows \subseteq chain'[d].extract
    BY <1>0, <1>1, StartDoes DEF Disturbed
  <2> QED
    BY <1>0, <1>1, <2>1, StartDoes DEF TypeOK
<1>2. ASSUME NEW c \in Chains, Open(c) PROVE TypeOK'
  <2>1. \A d \in Chains : chain'[d].rows \subseteq chain'[d].extract
    BY <1>0, <1>2, OpenDoes
  <2> QED
    BY <1>0, <1>2, <2>1, OpenDoes DEF TypeOK
<1>3. ASSUME NEW c \in Chains, Flush(c) PROVE TypeOK'
  <2>1. PICK batch \in SUBSET chain[c].rows :
           /\ source' = source /\ chain' \in [Chains -> Ingest]
           /\ graph' \in [Nodes -> Node]
           /\ chain'[c].rows = chain[c].rows \ batch /\ chain'[c].extract = chain[c].extract
           /\ \A d \in Chains : d # c => chain'[d] = chain[d]
           /\ \A n \in Nodes :
                 /\ n \in batch /\ Lands(n) => graph'[n].present
                 /\ ~(n \in batch /\ Lands(n)) => graph'[n] = graph[n]
    BY <1>3, FlushDoes
  <2>2. \A d \in Chains : chain'[d].rows \subseteq chain'[d].extract
    BY <1>0, <2>1
  <2>3. \A n \in Nodes : ~graph'[n].present => graph'[n] = Absent
    BY <1>0, <2>1
  <2> QED
    BY <1>0, <2>1, <2>2, <2>3 DEF TypeOK
<1>4. ASSUME NEW c \in Chains, Mark(c) PROVE TypeOK'
  <2>1. \A d \in Chains : chain'[d].rows \subseteq chain'[d].extract
    BY <1>0, <1>4, MarkDoes
  <2>2. \A n \in Nodes : ~graph'[n].present => graph'[n] = Absent
    BY <1>0, <1>4, MarkDoes DEF Live
  <2> QED
    BY <1>0, <1>4, <2>1, <2>2, MarkDoes DEF TypeOK
<1>5. ASSUME NEW c \in Chains, Clear(c) PROVE TypeOK'
  <2>1. \A d \in Chains : chain'[d].rows \subseteq chain'[d].extract
    BY <1>0, <1>5, ClearDoes
  <2>2. \A n \in Nodes : ~graph'[n].present => graph'[n] = Absent
    BY <1>0, <1>5, ClearDoes, AbsentNode
  <2> QED
    BY <1>0, <1>5, <2>1, <2>2, ClearDoes DEF TypeOK
<1>6. ASSUME NEW c \in Chains, Close(c) \/ Stop(c) PROVE TypeOK'
  <2>1. \A d \in Chains : chain'[d].rows \subseteq chain'[d].extract
    BY <1>0, <1>6, EndDoes
  <2>2. Retire(c) /\ chain' \in [Chains -> Ingest] /\ source' = source
    BY <1>6, EndDoes
  <2> QED
    BY <1>0, <2>1, <2>2, RetireDoes DEF TypeOK
<1>7. ASSUME NEW stage \in {"folders", "jobs"}, Sweep(stage) PROVE TypeOK'
  <2>1. \A d \in Chains : chain'[d].rows \subseteq chain'[d].extract
    BY <1>0, <1>7, SweepDoes DEF Disturbed
  <2> QED
    BY <1>0, <1>7, <2>1, SweepDoes DEF TypeOK
<1>8. CASE Age
  <2>1. \A n \in Nodes : ~graph[n].present => graph'[n] = graph[n]
    BY <1>0, <1>8, AgeDoes DEF Absent
  <2> QED
    BY <1>0, <1>8, <2>1, AgeDoes DEF TypeOK
<1>9. ASSUME NEW n \in Nodes, Change(n) PROVE TypeOK'
  BY <1>0, <1>9 DEF TypeOK, Change
<1>10. CASE UNCHANGED vars
  BY <1>10 DEF TypeOK, vars
<1> QED
  BY <1>1, <1>2, <1>3, <1>4, <1>5, <1>6, <1>7, <1>8, <1>9, <1>10 DEF Next, Step

\* State keeps its type, what is not in the graph carries nothing, and no run has a
\* row to write that it did not accept.
THEOREM LoaderTypeCorrect == Spec => []TypeOK
  BY TypesInitially, TypesKept, PTL DEF Spec

----------------------------------------------------------------------------
(* The invariant is kept. *)

LEMMA InvInitially == Init => IInv
<1> SUFFICES ASSUME Init PROVE IInv
  OBVIOUS
<1>1. /\ \A c \in Chains : chain[c] = Idle
      /\ \A n \in Nodes : graph[n] = Absent
  BY DEF Init
<1>2. TypeOK
  BY TypesInitially
<1>3. LoneRuns /\ Stamped /\ Passed /\ LoneRunSettles
  BY <1>1, IdleIngest DEF LoneRuns, Stamped, Passed, LoneRunSettles
<1>4. Carried /\ Unstamped
  BY <1>1, IdleIngest, AbsentNode DEF Carried, Unstamped
<1> QED
  BY <1>2, <1>3, <1>4 DEF IInv

\* When one run takes a step, the others are not alone, whatever it does, and the
\* stamps of runs to come are not in use.
LEMMA ActorSuffices ==
    ASSUME IInv, TypeOK', NEW c \in Chains, chain[c].pc # "idle",
           \A d \in Chains : d # c => chain'[d] = chain[d],
           \A n \in Nodes : graph'[n].last \in {graph[n].last, c, Earlier},
           chain'[c].alone => /\ chain'[c].pc \in {"stream", "clear", "close"}
                              /\ \A d \in Chains : d # c => chain[d].pc = "idle",
           chain'[c].extract \subseteq Labelled(chain'[c].stage),
           chain'[c].pc \in {"idle", "open"} => \A n \in Nodes : graph'[n].last # c,
           chain'[c].alone /\ chain'[c].pc \in {"stream", "clear"} =>
              \A n \in Nodes :
                 graph'[n].last = c <=> n \in chain'[c].extract \ chain'[c].rows /\ Lands(n)',
           chain'[c].alone /\ chain'[c].pc = "clear" =>
              /\ chain'[c].rows = {}
              /\ \A n \in InScope(c)' : graph'[n].last # c => ~Live(graph'[n]),
           chain'[c].alone /\ chain'[c].pc = "close" /\ Declares(c)' =>
              \A n \in InScope(c)' :
                 Live(graph'[n]) <=> n \in chain'[c].extract /\ Lands(n)'
    PROVE  IInv'
<1>1. \A d \in Chains : d # c => ~chain'[d].alone
  BY DEF IInv, LoneRuns
<1>2. LoneRuns'
  BY <1>1 DEF LoneRuns
<1>3. Carried'
  BY DEF IInv, Carried
<1>4. Unstamped'
  <2> SUFFICES ASSUME NEW d \in Chains, chain'[d].pc \in {"idle", "open"}, NEW n \in Nodes
               PROVE  graph'[n].last # d
    BY DEF Unstamped
  <2>1. CASE d = c
    BY <2>1
  <2>2. CASE d # c
    <3>1. graph[n].last # d
      BY <2>2 DEF IInv, Unstamped
    <3> QED
      BY <2>2, <3>1, EarlierAssumption
  <2> QED
    BY <2>1, <2>2
<1>5. Stamped'
  BY <1>1 DEF Stamped
<1>6. Passed'
  BY <1>1 DEF Passed
<1>7. LoneRunSettles'
  BY <1>1 DEF LoneRunSettles
<1> QED
  BY <1>2, <1>3, <1>4, <1>5, <1>6, <1>7 DEF IInv

\* While nobody is alone, only stamps and scopes can go wrong.
LEMMA NobodyAlone ==
    ASSUME IInv, TypeOK', \A c \in Chains : ~chain'[c].alone, Carried', Unstamped'
    PROVE  IInv'
  BY DEF IInv, LoneRuns, Stamped, Passed, LoneRunSettles

LEMMA StartKeeps ==
    ASSUME IInv, TypeOK', NEW c \in Chains, NEW scope \in Scopes,
           NEW pick \in SUBSET Folders, Start(c, scope, pick)
    PROVE  IInv'
<1>1. TypeOK /\ Carried /\ Unstamped
  BY DEF IInv
<1>2. /\ graph' = graph /\ chain[c].pc = "idle" /\ chain'[c].extract = {}
      /\ \A d \in Chains : ~chain'[d].alone
      /\ \A d \in Chains : d # c => Disturbed(chain[d], chain'[d])
  BY <1>1, StartDoes
<1>3. Carried'
  BY <1>1, <1>2 DEF Carried, Disturbed
<1>4. Unstamped'
  <2> SUFFICES ASSUME NEW d \in Chains, chain'[d].pc \in {"idle", "open"}, NEW n \in Nodes
               PROVE  graph[n].last # d
    BY <1>2 DEF Unstamped
  <2>1. chain[d].pc \in {"idle", "open"}
    BY <1>2 DEF Disturbed
  <2> QED
    BY <1>1, <2>1 DEF Unstamped
<1> QED
  BY <1>2, <1>3, <1>4, NobodyAlone

LEMMA OpenKeeps ==
    ASSUME IInv, TypeOK', NEW c \in Chains, Open(c)
    PROVE  IInv'
<1>1. TypeOK
  BY DEF IInv
<1>2. /\ graph' = graph /\ chain[c].pc = "open" /\ chain'[c].pc = "stream"
      /\ chain'[c].rows = chain'[c].extract /\ chain'[c].stage = chain[c].stage
      /\ chain'[c].alone => \A d \in Chains : d # c => chain[d].pc = "idle"
      /\ chain'[c].extract \union chain'[c].refused \in Extracts(c)
      /\ \A d \in Chains : d # c => chain'[d] = chain[d]
  BY <1>1, OpenDoes
<1>3. chain'[c].extract \subseteq Labelled(chain'[c].stage)
  BY <1>2 DEF Extracts
<1>4. \A n \in Nodes : graph'[n].last # c
  BY <1>2 DEF IInv, Unstamped
<1> QED
  BY <1>2, <1>3, <1>4, ActorSuffices

\* What a run flushes is not a folder in the stage that looks folders up.
LEMMA FlushLandsTheSame ==
    ASSUME IInv, NEW c \in Chains, NEW batch \in SUBSET chain[c].rows,
           \A n \in Nodes : ~(n \in batch /\ Lands(n)) => graph'[n] = graph[n],
           NEW n \in chain[c].extract
    PROVE  Lands(n)' <=> Lands(n)
<1>1. chain[c].rows \subseteq chain[c].extract
      /\ chain[c].extract \subseteq Labelled(chain[c].stage)
  BY DEF IInv, TypeOK, Carried
<1>2. CASE n \in Jobs
  <2>1. chain[c].stage # "folders"
    BY <1>1, <1>2, NodesAssumption DEF Labelled
  <2>2. FolderOf[n] \in Nodes /\ FolderOf[n] \notin batch
    BY <1>1, <1>2, <2>1, NodesAssumption DEF Labelled, Nodes
  <2> QED
    BY <1>2, <2>2 DEF Lands
<1>3. CASE n \notin Jobs
  BY <1>3 DEF Lands
<1> QED
  BY <1>2, <1>3

LEMMA FlushKeeps ==
    ASSUME IInv, TypeOK', NEW c \in Chains, Flush(c)
    PROVE  IInv'
<1>1. TypeOK
  BY DEF IInv
<1>2. PICK batch \in SUBSET chain[c].rows :
        /\ chain[c].pc = "stream"
        /\ chain'[c].rows = chain[c].rows \ batch
        /\ chain'[c].pc = "stream" /\ chain'[c].stage = chain[c].stage
        /\ chain'[c].extract = chain[c].extract /\ chain'[c].alone = chain[c].alone
        /\ \A d \in Chains : d # c => chain'[d] = chain[d]
        /\ \A n \in Nodes : /\ n \in batch /\ Lands(n) => graph'[n].last = c
                            /\ ~(n \in batch /\ Lands(n)) => graph'[n] = graph[n]
  BY <1>1, FlushDoes
<1>3. \A n \in chain[c].extract : Lands(n)' <=> Lands(n)
  BY <1>2, FlushLandsTheSame
<1>4. chain[c].rows \subseteq chain[c].extract /\ chain[c].extract \subseteq Nodes
  BY <1>1, IngestFields DEF TypeOK
<1>5. ASSUME chain[c].alone, NEW n \in Nodes
      PROVE  graph'[n].last = c <=> n \in chain'[c].extract \ chain'[c].rows /\ Lands(n)'
  <2>1. graph[n].last = c <=> n \in chain[c].extract \ chain[c].rows /\ Lands(n)
    BY <1>2, <1>5 DEF IInv, Stamped
  <2>2. CASE n \in batch
    <3>1. n \in chain[c].extract /\ n \in chain[c].rows /\ n \notin chain'[c].rows
      BY <1>2, <1>4, <2>2
    <3> QED
      BY <1>2, <1>3, <2>1, <2>2, <3>1
  <2>3. CASE n \notin batch
    <3>1. n \in chain[c].rows <=> n \in chain'[c].rows
      BY <1>2, <2>3
    <3> QED
      BY <1>2, <1>3, <2>1, <2>3, <3>1
  <2> QED
    BY <2>2, <2>3
<1>6. \A n \in Nodes : graph'[n].last \in {graph[n].last, c, Earlier}
  BY <1>2
<1>7. chain'[c].alone => \A d \in Chains : d # c => chain[d].pc = "idle"
  BY <1>2 DEF IInv, LoneRuns
<1>8. chain'[c].extract \subseteq Labelled(chain'[c].stage)
  BY <1>2 DEF IInv, Carried
<1> QED
  BY <1>2, <1>5, <1>6, <1>7, <1>8, ActorSuffices

LEMMA MarkKeeps ==
    ASSUME IInv, TypeOK', NEW c \in Chains, Mark(c)
    PROVE  IInv'
<1>1. TypeOK
  BY DEF IInv
<1>2. /\ chain[c].pc = "stream" /\ chain[c].rows = {} /\ chain'[c].rows = {}
      /\ chain'[c].pc = IF Declares(c) THEN "clear" ELSE "close"
      /\ chain'[c].stage = chain[c].stage /\ chain'[c].scope = chain[c].scope
      /\ chain'[c].extract = chain[c].extract /\ chain'[c].alone = chain[c].alone
      /\ \A d \in Chains : d # c => chain'[d] = chain[d]
  BY <1>1, MarkDoes
<1>3. \A n \in Nodes :
         /\ graph'[n].present = graph[n].present /\ graph'[n].last = graph[n].last
         /\ Declares(c) /\ n \in InScope(c) /\ Live(graph[n]) /\ graph[n].last # c =>
               graph'[n].mark = "fresh"
         /\ ~(Declares(c) /\ n \in InScope(c) /\ Live(graph[n]) /\ graph[n].last # c) =>
               graph'[n] = graph[n]
  BY <1>1, MarkDoes
<1>4. /\ InScope(c)' = InScope(c) /\ (Declares(c)' <=> Declares(c))
      /\ InScope(c) \subseteq Nodes
  BY <1>2, ScopeNodes DEF InScope, Declares, FullExtract
<1>5. \A n \in Nodes : Lands(n)' <=> Lands(n)
  BY <1>3, NodesAssumption DEF Lands, Nodes
<1>6. chain[c].alone => \A n \in Nodes :
         graph'[n].last = c <=> n \in chain'[c].extract \ chain'[c].rows /\ Lands(n)'
  BY <1>2, <1>3, <1>5 DEF IInv, Stamped
<1>7. ASSUME chain'[c].pc = "clear", NEW n \in InScope(c)', graph'[n].last # c
      PROVE  ~Live(graph'[n])
  <2>1. Declares(c) /\ n \in InScope(c) /\ n \in Nodes
    BY <1>2, <1>4, <1>7
  <2> QED
    BY <1>3, <1>7, <2>1 DEF Live
<1>8. chain'[c].pc = "close" => ~Declares(c)'
  BY <1>2, <1>4
<1>9. chain'[c].alone => \A d \in Chains : d # c => chain[d].pc = "idle"
  BY <1>2 DEF IInv, LoneRuns
<1>10. chain'[c].extract \subseteq Labelled(chain'[c].stage)
  BY <1>2 DEF IInv, Carried
<1>11. chain'[c].pc \in {"clear", "close"} /\ chain[c].pc # "idle"
  BY <1>2
<1> QED
  BY <1>2, <1>3, <1>6, <1>7, <1>8, <1>9, <1>10, <1>11, ActorSuffices

LEMMA ClearKeeps ==
    ASSUME IInv, TypeOK', NEW c \in Chains, Clear(c)
    PROVE  IInv'
<1>1. TypeOK
  BY DEF IInv
<1>2. /\ chain[c].pc = "clear" /\ chain'[c].pc = "close"
      /\ chain'[c].stage = chain[c].stage
      /\ chain'[c].extract = chain[c].extract /\ chain'[c].alone = chain[c].alone
      /\ \A d \in Chains : d # c => chain'[d] = chain[d]
      /\ \A n \in Nodes :
           /\ graph'[n].present = graph[n].present /\ graph'[n].last = graph[n].last
           /\ n \in Labelled(chain[c].stage) /\ graph[n].last = c => graph'[n].mark = "none"
           /\ ~(n \in Labelled(chain[c].stage) /\ graph[n].last = c) => graph'[n] = graph[n]
  BY <1>1, ClearDoes
<1>3. /\ InScope(c)' = InScope(c) /\ InScope(c) \subseteq Nodes
      /\ InScope(c) \subseteq Labelled(chain[c].stage)
  BY <1>2, ScopeNodes DEF InScope
<1>4. \A n \in Nodes : Lands(n)' <=> Lands(n)
  BY <1>2, NodesAssumption DEF Lands, Nodes
<1>5. ASSUME chain[c].alone, NEW n \in InScope(c)
      PROVE  Live(graph'[n]) <=> n \in chain'[c].extract /\ Lands(n)'
  <2>1. n \in Nodes /\ n \in Labelled(chain[c].stage) /\ chain[c].rows = {}
    BY <1>2, <1>3, <1>5 DEF IInv, Passed
  <2>2. graph[n].last = c <=> n \in chain'[c].extract /\ Lands(n)'
    BY <1>2, <1>4, <1>5, <2>1 DEF IInv, Stamped
  <2>3. CASE graph[n].last = c
    <3>1. graph[n].present
      BY <1>1, <2>1, <2>3, AbsentNode DEF TypeOK
    <3> QED
      BY <1>2, <2>1, <2>2, <2>3, <3>1 DEF Live
  <2>4. CASE graph[n].last # c
    <3>1. ~Live(graph[n])
      BY <1>2, <1>5, <2>4 DEF IInv, Passed
    <3> QED
      BY <1>2, <2>1, <2>2, <2>4, <3>1
  <2> QED
    BY <2>3, <2>4
<1>6. chain'[c].alone => \A d \in Chains : d # c => chain[d].pc = "idle"
  BY <1>2 DEF IInv, LoneRuns
<1>7. chain'[c].extract \subseteq Labelled(chain'[c].stage)
  BY <1>2 DEF IInv, Carried
<1>8. \A n \in Nodes : graph'[n].last \in {graph[n].last, c, Earlier}
  BY <1>2
<1> QED
  BY <1>2, <1>3, <1>5, <1>6, <1>7, <1>8, ActorSuffices

LEMMA EndKeeps ==
    ASSUME IInv, TypeOK', NEW c \in Chains, Close(c) \/ Stop(c)
    PROVE  IInv'
<1>1. TypeOK
  BY DEF IInv
<1>2. /\ Retire(c) /\ chain[c].pc # "idle" /\ chain'[c].pc \in {"idle", "open"}
      /\ chain'[c].extract = {} /\ ~chain'[c].alone
      /\ \A d \in Chains : d # c => chain'[d] = chain[d]
  BY <1>1, EndDoes
<1>3. \A n \in Nodes : graph'[n].last # c /\ graph'[n].last \in {graph[n].last, Earlier}
  BY <1>1, <1>2, RetireDoes
<1> QED
  BY <1>2, <1>3, ActorSuffices

LEMMA SweepKeeps ==
    ASSUME IInv, TypeOK', NEW stage \in {"folders", "jobs"}, Sweep(stage)
    PROVE  IInv'
<1>1. TypeOK /\ Carried /\ Unstamped
  BY DEF IInv
<1>2. /\ \A n \in Nodes : graph'[n] \in {graph[n], Absent}
      /\ \A c \in Chains : Disturbed(chain[c], chain'[c])
  BY <1>1, SweepDoes
<1>3. Carried'
  BY <1>1, <1>2 DEF Carried, Disturbed
<1>4. Unstamped'
  <2> SUFFICES ASSUME NEW c \in Chains, chain'[c].pc \in {"idle", "open"}, NEW n \in Nodes
               PROVE  graph'[n].last # c
    BY DEF Unstamped
  <2>1. graph[n].last # c
    BY <1>1, <1>2 DEF Unstamped, Disturbed
  <2> QED
    BY <1>2, <2>1, AbsentNode
<1> QED
  BY <1>2, <1>3, <1>4, NobodyAlone DEF Disturbed

\* With the ingests as they were, it is enough that no node is added, stamped,
\* marked for the first time or unmarked.
LEMMA SameIngests ==
    ASSUME IInv, TypeOK', chain' = chain,
           \A n \in Nodes : /\ graph'[n].present = graph[n].present
                            /\ graph'[n].last = graph[n].last
                            /\ graph'[n].mark = "none" <=> graph[n].mark = "none"
    PROVE  IInv'
<1>1. \A c \in Chains : /\ InScope(c)' = InScope(c) /\ InScope(c) \subseteq Nodes
                        /\ Declares(c)' <=> Declares(c)
                        /\ chain[c].extract \subseteq Nodes
  BY ScopeNodes, IngestFields DEF InScope, Declares, FullExtract, IInv, TypeOK
<1>2. \A n \in Nodes : /\ Lands(n)' <=> Lands(n)
                       /\ Live(graph'[n]) <=> Live(graph[n])
  BY NodesAssumption DEF Lands, Nodes, Live
<1>3. LoneRuns' /\ Carried' /\ Unstamped'
  BY DEF IInv, LoneRuns, Carried, Unstamped
<1>4. Stamped'
  BY <1>2 DEF IInv, Stamped
<1>5. Passed'
  BY <1>1, <1>2 DEF IInv, Passed
<1>6. LoneRunSettles'
  BY <1>1, <1>2 DEF IInv, LoneRunSettles
<1> QED
  BY <1>3, <1>4, <1>5, <1>6 DEF IInv

LEMMA InvKept == IInv /\ [Next]_vars => IInv'
<1> SUFFICES ASSUME IInv, [Next]_vars PROVE IInv'
  OBVIOUS
<1>1. TypeOK /\ TypeOK'
  BY TypesKept DEF IInv
<1>2. ASSUME NEW c \in Chains, Step(c) PROVE IInv'
  BY <1>1, <1>2, OpenKeeps, FlushKeeps, MarkKeeps, ClearKeeps, EndKeeps DEF Step
<1>3. CASE Age
  BY <1>1, <1>3, AgeDoes, SameIngests
<1>4. ASSUME NEW n \in Nodes, Change(n) PROVE IInv'
  BY <1>1, <1>4, SameIngests DEF Change
<1>5. CASE UNCHANGED vars
  BY <1>1, <1>5, SameIngests DEF vars
<1> QED
  BY <1>1, <1>2, <1>3, <1>4, <1>5, StartKeeps, SweepKeeps DEF Next

\* Whatever other runs, failures and sweeps have left in the graph, a run that had
\* it to itself ends with exactly its rows alive in its scope.
THEOREM LoneRunsSettle == Spec => []LoneRunSettles
<1>1. IInv => LoneRunSettles
  BY DEF IInv
<1> QED
  BY <1>1, InvInitially, InvKept, PTL DEF Spec

----------------------------------------------------------------------------
(* What is marked. *)

\* A run under way is narrowed by its options alone: its rows are of the folders
\* picked and, but for a sample, every row of theirs that the source held was
\* accepted or refused.
Whole ==
    \A c \in Chains :
        /\ chain[c].pc # "idle" =>
              /\ chain[c].scope \in Scopes
              /\ chain[c].scope # "folder" => chain[c].pick = Folders
        /\ chain[c].pc = "stream" =>
              /\ \A n \in chain[c].extract : Folder(n) \in chain[c].pick
              /\ chain[c].scope # "sample" =>
                    \A n \in chain[c].snapshot \intersect Labelled(chain[c].stage) :
                        Folder(n) \in chain[c].pick =>
                            n \in chain[c].extract \union chain[c].refused

LEMMA WholeInitially == Init => Whole
  BY IdleIngest DEF Init, Whole

LEMMA WholeKept == TypeOK /\ Whole /\ [Next]_vars => Whole'
<1> SUFFICES ASSUME TypeOK, Whole, [Next]_vars PROVE Whole'
  OBVIOUS
<1>1. ASSUME NEW c \in Chains, NEW scope \in Scopes, NEW pick \in SUBSET Folders,
             Start(c, scope, pick)
      PROVE  Whole'
  <2>1. /\ chain'[c].pc = "open" /\ chain'[c].scope = scope /\ chain'[c].pick = pick
        /\ scope # "folder" => pick = Folders
        /\ \A d \in Chains : d # c => Disturbed(chain[d], chain'[d])
    BY <1>1, StartDoes
  <2> QED
    BY <2>1 DEF Whole, Disturbed
<1>2. ASSUME NEW c \in Chains, Open(c) PROVE Whole'
  <2>1. /\ chain[c].pc = "open" /\ chain'[c].pc = "stream"
        /\ chain'[c].stage = chain[c].stage /\ chain'[c].scope = chain[c].scope
        /\ chain'[c].pick = chain[c].pick /\ chain'[c].snapshot = source
        /\ chain'[c].extract \union chain'[c].refused \in Extracts(c)
        /\ \A d \in Chains : d # c => chain'[d] = chain[d]
    BY <1>2, OpenDoes
  <2> DEFINE asked == {n \in source \intersect Labelled(chain[c].stage) :
                          Folder(n) \in chain[c].pick}
             rows == chain'[c].extract \union chain'[c].refused
  <2>2. rows \subseteq asked /\ (chain[c].scope # "sample" => rows = asked)
    BY <2>1 DEF Extracts
  <2>3. \A n \in chain'[c].extract : Folder(n) \in chain'[c].pick
    BY <2>1, <2>2
  <2>4. chain'[c].scope # "sample" =>
           \A n \in chain'[c].snapshot \intersect Labelled(chain'[c].stage) :
               Folder(n) \in chain'[c].pick => n \in rows
    BY <2>1, <2>2
  <2>5. /\ chain'[c].scope \in Scopes
        /\ chain'[c].scope # "folder" => chain'[c].pick = Folders
    BY <2>1 DEF Whole
  <2> QED
    BY <2>1, <2>3, <2>4, <2>5 DEF Whole
<1>3. ASSUME NEW c \in Chains, Flush(c) PROVE Whole'
  BY <1>3, FlushDoes DEF Whole
<1>4. ASSUME NEW c \in Chains, Mark(c) PROVE Whole'
  <2>1. chain'[c].pc \in {"clear", "close"}
    BY <1>4, MarkDoes
  <2> QED
    BY <1>4, <2>1, MarkDoes DEF Whole
<1>5. ASSUME NEW c \in Chains, Clear(c) PROVE Whole'
  BY <1>5, ClearDoes DEF Whole
<1>6. ASSUME NEW c \in Chains, Close(c) \/ Stop(c) PROVE Whole'
  BY <1>6, EndDoes DEF Whole
<1>7. ASSUME NEW stage \in {"folders", "jobs"}, Sweep(stage) PROVE Whole'
  BY <1>7, SweepDoes DEF Whole, Disturbed
<1>8. CASE UNCHANGED chain
  BY <1>8 DEF Whole
<1> QED
  BY <1>1, <1>2, <1>3, <1>4, <1>5, <1>6, <1>7, <1>8 DEF Next, Step, Age, Change, vars

\* Only a mark pass marks.
LEMMA OnlyMarkMarks ==
    ASSUME IInv, [Next]_vars, NEW c \in Chains, chain[c].alone,
           NEW n \in Nodes, graph[n].mark = "none", graph'[n].mark = "fresh"
    PROVE  Mark(c)
<1>1. TypeOK
  BY DEF IInv
<1>2. \A d \in Chains : d # c => chain[d].pc = "idle"
  BY DEF IInv, LoneRuns
<1>3. ASSUME NEW d \in Chains, Step(d) PROVE Mark(c)
  <2>1. CASE Open(d)
    BY <1>1, <2>1, OpenDoes
  <2>2. CASE Flush(d)
    BY <1>1, <2>2, FlushDoes
  <2>3. CASE Mark(d)
    <3>1. d = c
      BY <1>1, <1>2, <2>3, MarkDoes
    <3> QED
      BY <2>3, <3>1
  <2>4. CASE Clear(d)
    BY <1>1, <2>4, ClearDoes
  <2>5. CASE Close(d) \/ Stop(d)
    BY <1>1, <2>5, EndDoes, RetireDoes
  <2> QED
    BY <1>3, <2>1, <2>2, <2>3, <2>4, <2>5 DEF Step
<1>4. ASSUME NEW stage \in {"folders", "jobs"}, Sweep(stage) PROVE FALSE
  BY <1>1, <1>4, SweepDoes DEF Absent
<1>5. CASE Age
  BY <1>1, <1>5, AgeDoes
<1> QED
  BY <1>3, <1>4, <1>5 DEF Next, Start, Change, vars

\* No ingest is narrowed by a sample.
NoSamples == "sample" \notin Scopes

LEMMA MarkIsTrue ==
    ASSUME NoSamples, IInv, Whole, NEW c \in Chains, Mark(c), chain[c].alone,
           NEW n \in Nodes, graph[n].mark = "none", graph'[n].mark = "fresh"
    PROVE  n \notin chain[c].snapshot \/ n \in chain[c].refused \/ ~Lands(n)
<1>1. /\ chain[c].pc = "stream" /\ chain[c].rows = {}
      /\ Declares(c) /\ n \in InScope(c) /\ graph[n].last # c
  BY MarkDoes DEF IInv
<1>2. n \notin chain[c].extract \/ ~Lands(n)
  BY <1>1 DEF IInv, Stamped
<1>3. chain[c].scope \in {"all", "folder"} /\ chain[c].stage \in {"folders", "jobs"}
  BY <1>1, ScopesAssumption, IngestFields DEF NoSamples, Whole, Narrowings, IInv, TypeOK
<1>4. n \in Labelled(chain[c].stage)
  BY <1>1, ScopeNodes
<1>5. Folder(n) \in chain[c].pick
  <2>1. CASE chain[c].stage = "folders"
    <3>1. n \in Folders /\ n \notin Jobs
      BY <1>4, <2>1, NodesAssumption DEF Labelled
    <3>2. chain[c].pick = Folders
      BY <1>1, <2>1 DEF Declares, FullExtract, Whole
    <3> QED
      BY <3>1, <3>2 DEF Folder
  <2>2. CASE chain[c].stage = "jobs"
    <3>1. PICK m \in chain[c].extract : FolderOf[m] = FolderOf[n]
      BY <1>1, <2>2 DEF InScope
    <3>2. n \in Jobs /\ m \in Jobs
      BY <1>4, <2>2, <3>1 DEF Labelled, IInv, Carried
    <3>3. Folder(m) \in chain[c].pick
      BY <1>1, <3>1 DEF Whole
    <3> QED
      BY <3>1, <3>2, <3>3 DEF Folder
  <2> QED
    BY <1>3, <2>1, <2>2
<1>6. n \in chain[c].snapshot => n \in chain[c].extract \union chain[c].refused
  BY <1>1, <1>3, <1>4, <1>5 DEF Whole
<1> QED
  BY <1>2, <1>6

\* But for samples, a run that has the graph to itself marks nothing that the source
\* still held, unless its row was refused or its folder was missing.
THEOREM LoneMarksAreTrue == ASSUME NoSamples PROVE Spec => MarksAreTrue
<1>1. IInv /\ Whole /\ [Next]_vars =>
         [\A c \in Chains :
             chain[c].pc = "stream" /\ chain[c].alone =>
                 \A n \in Nodes :
                     graph[n].mark = "none" /\ graph'[n].mark = "fresh" =>
                         n \notin chain[c].snapshot \/ n \in chain[c].refused \/ ~Lands(n)]_vars
  BY OnlyMarkMarks, MarkIsTrue
<1>2. IInv /\ Whole /\ [Next]_vars => Whole'
  BY WholeKept DEF IInv
<1> QED
  BY <1>1, <1>2, InvInitially, InvKept, WholeInitially, PTL DEF Spec, MarksAreTrue
=============================================================================
