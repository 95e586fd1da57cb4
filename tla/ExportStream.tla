----------------------------- MODULE ExportStream -----------------------------
(***************************************************************************)
(* export_spec (drydocs_api/exports.py): a download is a generator that    *)
(* starlette drains after the route has returned.  The rows come from the  *)
(* driver as it fetches them, bounded by one row more than the ceiling;    *)
(* the generator's last act, when it is drained, is to file a manifest in  *)
(* the ledger, which keeps the newest.  Clients hang up, the database      *)
(* fails half way, and downloads run side by side, on the threadpool: the  *)
(* ledger's insertion, its length and its popitem have no lock over them.  *)
(*                                                                         *)
(* The authentication and the resolution of the spec are in Accounts and   *)
(* SpecRegistry; banner, header, trust tiers and row contents decide       *)
(* nothing here.  The read contract's own probe (execute_spec) is the      *)
(* same arithmetic on a buffered result.                                   *)
(***************************************************************************)
EXTENDS Integers, SequencesExt

CONSTANTS
    Export,         \* export ids
    MaxRows,        \* bound: rows a query may match
    LimitCeiling,   \* EXPORT_LIMIT_CEILING
    NoLimit,        \* None
    LedgerCapacity  \* manifests the ledger keeps

ASSUME ExportAssumption ==
    /\ MaxRows \in Nat /\ LimitCeiling \in Nat \ {0} /\ LedgerCapacity \in Nat \ {0}
    /\ NoLimit \notin Int

VARIABLES
    download,   \* export id -> its generator
    ledger      \* ExportLedger: the manifests, oldest first

exportVars == <<download, ledger>>

Limit == (0 .. MaxRows + 1) \union {NoLimit}

\* matched is history: the rows the query matches when the stream is opened.
\* sent is row_count, and what has left the building.
Download ==
    [at: {"none", "job", "rows", "drained", "filed", "evicting", "closed", "abandoned"},
     ceiling: Limit, matched: 0 .. MaxRows, left: 0 .. MaxRows, sent: 0 .. MaxRows,
     truncated: BOOLEAN]

Unborn == [at |-> "none", ceiling |-> NoLimit, matched |-> 0, left |-> 0, sent |-> 0,
           truncated |-> FALSE]

Manifest == [id: Export, row_count: 0 .. MaxRows, truncated: BOOLEAN, limit: Limit]

----------------------------------------------------------------------------
(* resolve_export_limit and _probe_params. *)

\* display is the limit the spec's Cypher binds, if any.  What a caller asks for
\* is refused rather than clamped.
Refused(ephemeral, display, requested) ==
    /\ requested # NoLimit
    /\ \/ ephemeral
       \/ display = NoLimit
       \/ requested \notin 1 .. LimitCeiling

Ceiling(display, requested) == IF requested = NoLimit THEN display ELSE requested

\* Mutant: the query is bound to the ceiling itself.
ProbedShort(matched, ceiling) ==
    IF ceiling # NoLimit /\ matched > ceiling THEN ceiling ELSE matched

\* The rows the driver hands over: LIMIT ceiling + 1.
Probed(matched, ceiling) ==
    IF ceiling # NoLimit /\ matched > ceiling THEN ceiling + 1 ELSE matched

----------------------------------------------------------------------------
(* The route makes a job; the generator has not started. *)
ExportSpec(e) ==
    /\ download[e].at = "none"
    /\ \E ephemeral \in BOOLEAN, display, requested \in Limit :
          /\ ~Refused(ephemeral, display, requested)
          /\ download' = [download EXCEPT ![e] =
                 [Unborn EXCEPT !.at = "job", !.ceiling = Ceiling(display, requested)]]
    /\ UNCHANGED ledger

\* The first chunk: the spec is graded and the query runs.
OpenStream(e) ==
    /\ download[e].at = "job"
    /\ \E matched \in 0 .. MaxRows :
          download' = [download EXCEPT ![e].at = "rows", ![e].matched = matched,
                                       ![e].left = Probed(matched, download[e].ceiling)]
    /\ UNCHANGED ledger

AtCeiling(d) == d.ceiling # NoLimit /\ d.sent >= d.ceiling

\* bounded(): a row under the ceiling goes out; the row past it only sets the flag.
NextRow(e) ==
    /\ download[e].at = "rows"
    /\ download[e].left > 0
    /\ LET d == download[e] IN
          download' = [download EXCEPT ![e] =
              IF AtCeiling(d)
              THEN [d EXCEPT !.at = "drained", !.truncated = TRUE]
              ELSE [d EXCEPT !.left = @ - 1, !.sent = @ + 1]]
    /\ UNCHANGED ledger

NoMoreRows(e) ==
    /\ download[e].at = "rows"
    /\ download[e].left = 0
    /\ download' = [download EXCEPT ![e].at = "drained"]
    /\ UNCHANGED ledger

\* ledger.complete: the manifest of an id the ledger does not have yet goes to its end.
Complete(e) ==
    /\ download[e].at = "drained"
    /\ LET d == download[e] IN
          ledger' = Append(ledger, [id |-> e, row_count |-> d.sent,
                                    truncated |-> d.truncated, limit |-> d.ceiling])
    /\ download' = [download EXCEPT ![e].at = "filed"]

\* Its loop: the length is looked at, and in another step the oldest is popped.
MeasureLedger(e) ==
    /\ download[e].at = "filed"
    /\ download' = [download EXCEPT ![e].at =
                       IF Len(ledger) > LedgerCapacity THEN "evicting" ELSE "closed"]
    /\ UNCHANGED ledger

\* popitem raises if others have emptied the ledger meanwhile: the download breaks off.
PopOldest(e) ==
    /\ download[e].at = "evicting"
    /\ IF ledger = <<>>
       THEN download' = [download EXCEPT ![e].at = "abandoned"] /\ UNCHANGED ledger
       ELSE download' = [download EXCEPT ![e].at = "filed"] /\ ledger' = Tail(ledger)

\* The client hangs up, or the driver fails: the generator is closed where it stands.
Abandon(e) ==
    /\ download[e].at \in {"job", "rows"}
    /\ download' = [download EXCEPT ![e].at = "abandoned"]
    /\ UNCHANGED ledger

ExportInit == download = [e \in Export |-> Unborn] /\ ledger = <<>>

ExportNext ==
    \E e \in Export :
        \/ ExportSpec(e) \/ OpenStream(e) \/ NextRow(e) \/ NoMoreRows(e)
        \/ Complete(e) \/ MeasureLedger(e) \/ PopOldest(e) \/ Abandon(e)

ExportStreamSpec == ExportInit /\ [][ExportNext]_exportVars

----------------------------------------------------------------------------
(* Properties. *)

ExportTypeOK ==
    /\ download \in [Export -> Download]
    /\ ledger \in Seq(Manifest)

(***************************************************************************)
(* ExportLedger: a manifest anyone can be served describes a file that     *)
(* went out whole: its row_count is what was sent, which is everything the *)
(* query matched up to the ceiling, and it says truncated exactly when the *)
(* query matched more.                                                     *)
(***************************************************************************)
ManifestTellsTheWholeStream ==
    \A i \in DOMAIN ledger :
        LET m == ledger[i]
            d == download[m.id]
        IN  /\ d.at \in {"filed", "evicting", "closed"} /\ m.row_count = d.sent
            /\ m.truncated = (m.limit # NoLimit /\ d.matched > m.limit)
            /\ m.row_count = IF m.truncated THEN m.limit ELSE d.matched
=============================================================================
