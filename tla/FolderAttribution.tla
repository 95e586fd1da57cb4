--------------------------- MODULE FolderAttribution ---------------------------
(***************************************************************************)
(* Which application a Control-M folder belongs to: the resolver of        *)
(* drydocs/loaders/folder_attribution.py, the automated loader around it,  *)
(* and the manual load that pins a folder.  A run reads the authored       *)
(* mappings, the pins and the graph's folders, resolves every folder, and  *)
(* writes its rows batch by batch; a mapping may be restated, a folder     *)
(* pinned and the run killed meanwhile.                                    *)
(*                                                                         *)
(* A decision of the older per-job matching is the application it names.   *)
(* Ports and applications are taken to exist; confirmation stamps,         *)
(* orchestrator edges and mapping-age suspects, which decide nothing, are  *)
(* left out.                                                               *)
(***************************************************************************)
EXTENDS Integers, FiniteSets

CONSTANTS
    Folder,         \* folders of the graph
    Code,           \* Control-M application codes
    NoCode,         \* a folder outside any grouping; a row for a whole code has no folder
    CodeOf,         \* folder -> its code
    PlatformCodes,  \* the codes whose name derives a platform (platform_prefix)
    App,            \* applications
    MaxRestated     \* bound: changes of the mappings, and manual loads

ASSUME AttributionAssumption ==
    /\ CodeOf \in [Folder -> Code \union {NoCode}]
    /\ NoCode \notin Code /\ NoCode \notin Folder
    /\ PlatformCodes \subseteq Code /\ MaxRestated \in Nat

VARIABLES
    authored,       \* the rows of the mapping store
    matched,        \* folder -> the applications its jobs' decisions name
    edges,          \* folder -> application -> the BELONGS_TO_APPLICATION edge between them
    attribution,    \* the run under way
    restated        \* how often mappings have changed and folders been pinned

attributionVars == <<authored, matched, edges, attribution, restated>>

Origin == {"defined", "override", "manual-pin"}

\* folder is NoCode in a row for a whole code; platform is row_kind.
AuthoredRow == [code: Code, folder: Folder \union {NoCode}, platform: BOOLEAN, app: App,
                origin: Origin]

\* An edge tells the origin it was created with; origin manual-pin is match_method
\* manual, the pin.
Edge == Origin \union {"none", "matched-fallback"}

AttributionRow == [folder: Folder, app: App, origin: Origin \union {"matched-fallback"}]

\* inputs is history: the rows and decisions that the run was resolved from.
Attribution ==
    [at: {"idle", "write"}, rows: SUBSET AttributionRow,
     inputs: [authored: SUBSET AuthoredRow, matched: [Folder -> SUBSET App]]]

NoMatches == [f \in Folder |-> {}]

NoRun == [at |-> "idle", rows |-> {}, inputs |-> [authored |-> {}, matched |-> NoMatches]]

----------------------------------------------------------------------------
(* resolve_folder_attributions. *)

\* ORIGIN_PRECEDENCE
Precedence(origin) ==
    CASE origin = "manual-pin" -> 3 [] origin = "override" -> 2 [] origin = "defined" -> 1

PerFolder(rows) == {r \in rows : r.folder # NoCode}

\* A code is a platform's by declaration, or because its name says so although a row
\* claims an application for it.
Declared(rows) ==
    {r.code : r \in {s \in rows \ PerFolder(rows) : s.platform \/ s.code \in PlatformCodes}}

\* Rows for a whole code fan out, but for those of a platform.
FansOut(rows) ==
    {r \in rows \ PerFolder(rows) : ~r.platform /\ r.code \notin PlatformCodes}

\* What speaks for a folder.
Candidates(rows, f) ==
    {r \in PerFolder(rows) : r.folder = f} \union {r \in FansOut(rows) : r.code = CodeOf[f]}

Winners(rows, f) ==
    {r \in Candidates(rows, f) :
        \A s \in Candidates(rows, f) : Precedence(s.origin) <= Precedence(r.origin)}

\* The rows a run writes: none for a tie, a disagreement, an unresolved platform
\* folder, a folder nothing speaks for, or a pinned one.
Resolved(rows, matches, pinned) ==
    {d \in AttributionRow :
        /\ d.folder \notin pinned
        /\ \/ /\ {r.app : r \in Winners(rows, d.folder)} = {d.app}
              /\ d.origin \in {r.origin : r \in Winners(rows, d.folder)}
           \/ /\ Candidates(rows, d.folder) = {}
              /\ CodeOf[d.folder] \notin Declared(rows)
              /\ matches[d.folder] = {d.app}
              /\ d.origin = "matched-fallback"}

\* fetch_pinned_folders; a pin is an edge, whoever wrote it.
Pinned == {f \in Folder : \E a \in App : edges[f][a] = "manual-pin"}

----------------------------------------------------------------------------
(* The mappings, the matches and the manual loads. *)

Restating ==
    /\ restated < MaxRestated
    /\ restated' = restated + 1

\* A steward's row is merged into the store, or withdrawn.
RestateMapping ==
    /\ Restating
    /\ \E r \in AuthoredRow :
          authored' = IF r \in authored THEN authored \ {r} ELSE authored \union {r}
    /\ UNCHANGED <<matched, edges, attribution>>

MatchJobs ==
    /\ Restating
    /\ \E f \in Folder, apps \in SUBSET App :
          matched[f] # apps /\ matched' = [matched EXCEPT ![f] = apps]
    /\ UNCHANGED <<authored, edges, attribution>>

\* MERGE ... ON CREATE: an edge that is there keeps the origin it has.
Merged(edge, origin) == IF edge = "none" THEN origin ELSE edge

\* manual_seal_attribution.cypher: one folder, or all those under its code.
PinFolders ==
    /\ Restating
    /\ \E c \in Code, a \in App, only \in Folder \union {NoCode} :
          LET covered == {f \in Folder : CodeOf[f] = c /\ only \in {f, NoCode}}
          IN  /\ covered # {}
              /\ edges' = [f \in Folder |->
                              IF f \in covered
                              THEN [edges[f] EXCEPT ![a] = Merged(@, "manual-pin")]
                              ELSE edges[f]]
    /\ UNCHANGED <<authored, matched, attribution>>

----------------------------------------------------------------------------
(* FolderAttributionLoader. *)

ResolveFolders ==
    /\ attribution.at = "idle"
    /\ LET rows == Resolved(authored, matched, Pinned) IN
          /\ rows # {}
          /\ attribution' = [at |-> "write", rows |-> rows,
                             inputs |-> [authored |-> authored, matched |-> matched]]
    /\ UNCHANGED <<authored, matched, edges, restated>>

\* Mutant: the pins read when the run began are trusted.
UntouchableNever(f) == FALSE

\* The template's WHERE NOT EXISTS: pins that came after the run read them.
Untouchable(f) == f \in Pinned

\* One batch, one transaction.
WriteAttributions ==
    /\ attribution.at = "write"
    /\ \E batch \in SUBSET attribution.rows :
          /\ batch # {}
          /\ edges' = [f \in Folder |-> [a \in App |->
                 IF \E d \in batch : d.folder = f /\ d.app = a /\ ~Untouchable(f)
                 THEN Merged(edges[f][a], (CHOOSE d \in batch : d.folder = f).origin)
                 ELSE edges[f][a]]]
          /\ attribution' = IF batch = attribution.rows THEN NoRun
                            ELSE [attribution EXCEPT !.rows = @ \ batch]
    /\ UNCHANGED <<authored, matched, restated>>

\* The run fails or dies between two batches.
StopAttribution ==
    /\ attribution.at = "write"
    /\ attribution' = NoRun
    /\ UNCHANGED <<authored, matched, edges, restated>>

----------------------------------------------------------------------------
AttributionInit ==
    /\ authored = {} /\ matched = NoMatches
    /\ edges = [f \in Folder |-> [a \in App |-> "none"]]
    /\ attribution = NoRun
    /\ restated = 0

AttributionNext ==
    \/ RestateMapping \/ MatchJobs \/ PinFolders
    \/ ResolveFolders \/ WriteAttributions \/ StopAttribution

AttributionSpec == AttributionInit /\ [][AttributionNext]_attributionVars

----------------------------------------------------------------------------
(* Properties. *)

AttributionTypeOK ==
    /\ authored \subseteq AuthoredRow
    /\ matched \in [Folder -> SUBSET App]
    /\ edges \in [Folder -> [App -> Edge]]
    /\ attribution \in Attribution
    /\ restated \in 0 .. MaxRestated

\* Whoever has a say in a folder's application, under the rules the gates fixed: a row
\* for this folder, a row for its code unless the code is a platform's.
Says(r, f) ==
    \/ r.folder = f
    \/ r.folder = NoCode /\ r.code = CodeOf[f] /\ ~r.platform /\ r.code \notin PlatformCodes

\* a is the only application that this folder can be given, from these inputs.
ClearOwner(inputs, f, a) ==
    LET say == {r \in inputs.authored : Says(r, f)}
        whole == {r \in inputs.authored : r.folder = NoCode /\ r.code = CodeOf[f]}
    IN  \/ \E r \in say : r.app = a /\ \A s \in say :
              s.app # a => Precedence(s.origin) < Precedence(r.origin)
        \/ say = {} /\ whole = {} /\ inputs.matched[f] = {a}

(***************************************************************************)
(* No owner is ever picked silently: an edge that a run adds names the one *)
(* application that its inputs give the folder - a platform's own          *)
(* application never reaches the folders of those it hosts, a tie reaches  *)
(* nobody - and never stands beside a pin, even one that was loaded after  *)
(* the run had read the pins.                                              *)
(***************************************************************************)
OnlyClearOwnersAreWritten ==
    [][\A f \in Folder, a \in App :
          (attribution.at = "write" /\ attribution' # attribution /\ edges'[f][a] # edges[f][a])
              => /\ \A b \in App : edges[f][b] # "manual-pin"
                 /\ ClearOwner(attribution.inputs, f, a)]_attributionVars
=============================================================================
