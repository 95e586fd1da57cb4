------------------------------- MODULE Staging -------------------------------
(***************************************************************************)
(* The command-line staging store (drydocs/cmdline_staging.py): a SQLite   *)
(* file that `export-cmdline-staging` rebuilds from the graph's jobs,      *)
(* `resolve-cmdline-staging` completes with resolved command lines, and    *)
(* `parse-cmdline-staging` decomposes.  Each command may be killed at any  *)
(* point and nothing keeps two of them apart; the graph is reloaded in     *)
(* between.                                                                *)
(*                                                                         *)
(* A step is one transaction, or one statement that commits by itself.     *)
(* What the resolver and the parser make of a command line is a choice; a  *)
(* resolved text is the text it was made from.                             *)
(***************************************************************************)
EXTENDS Integers

CONSTANTS
    StagedJob,  \* jobs of the graph
    Text,       \* command lines
    NoText,     \* a job without one, or a column that is NULL
    Terminal,   \* commands that may run at once
    MaxReloads  \* bound: how often the graph changes

ASSUME StagingAssumption == NoText \notin Text /\ MaxReloads \in Nat

VARIABLES
    jobs,       \* the graph: job -> command line, for the jobs it has
    reloads,    \* how often it has changed
    db,         \* the store's tables
    command,    \* terminal -> the command it runs
    mixed,      \* history: two commands have met since the last export that ran alone
    halfDropped \* history: an export was killed after job_detail and before meta was dropped

stagingVars == <<jobs, reloads, db, command, mixed, halfDropped>>

Line == Text \union {NoText}

Tables(S, T) == UNION {[D -> T] : D \in SUBSET S}

\* job_detail's two command-line columns.
DetailRow == [cmd: Line, resolved: Line]

\* residue: %%references are left; left: nothing to substitute, or no XML job matched.
Verdict == {"resolved", "residue", "left", "no_cmd_line"}

ParsedFrom == {"resolved", "raw", "no_cmd_line"}

\* stamp: meta holds this version of the schema.  missing: tables dropped and not yet
\* created again; of job_detail_parsed ("parsed"), which is written with parse_quality,
\* that is all that is kept.  exported is history: what the export that stamped the store has read.
Store ==
    [there: BOOLEAN, stamp: BOOLEAN, missing: SUBSET {"parsed", "parses", "verdicts", "detail"},
     detail: Tables(StagedJob, DetailRow), verdicts: Tables(StagedJob, Verdict),
     parses: Tables(StagedJob, ParsedFrom), exported: Tables(StagedJob, Line)]

Nothing == [j \in {} |-> NoText]

\* lone is history: no other command has run since this one was started.
Command ==
    [at: {"idle", "parsed", "parses", "verdicts", "detail", "meta", "create", "fill",
          "rows", "resolve", "parse"},
     op: {"export", "resolve", "parse"}, read: Tables(StagedJob, Line),
     rows: Tables(StagedJob, DetailRow), lone: BOOLEAN]

NoCommand == [at |-> "idle", op |-> "export", read |-> Nothing, rows |-> Nothing, lone |-> TRUE]

Runs(t, c) == command' = [command EXCEPT ![t] = c]

Alone(t) == \A u \in Terminal \ {t} : command[u].at = "idle"

\* A command is started, perhaps beside another.
Start(t, c) ==
    /\ command[t].at = "idle"
    /\ command' = [u \in Terminal |->
                      IF u = t THEN [c EXCEPT !.lone = Alone(t)]
                      ELSE [command[u] EXCEPT !.lone = command[u].at = "idle"]]
    /\ mixed' = (mixed \/ ~Alone(t))

\* A loader adds, drops or changes a job.
Reload ==
    /\ reloads < MaxReloads
    /\ \E graph \in Tables(StagedJob, Line) : graph # jobs /\ jobs' = graph
    /\ reloads' = reloads + 1
    /\ UNCHANGED <<db, command, mixed, halfDropped>>

----------------------------------------------------------------------------
(* export_job_detail. *)

StartExport(t) ==
    /\ Start(t, [NoCommand EXCEPT !.at = "parsed", !.op = "export", !.read = jobs])
    /\ db' = [db EXCEPT !.there = TRUE]
    /\ UNCHANGED <<jobs, reloads, halfDropped>>

\* Mutant: the rows go before what was made of them.
DropRowsFirst == <<"parsed", "parses", "detail", "verdicts", "meta", "create">>

\* The order in which the script drops the tables.
DropOrder == <<"parsed", "parses", "verdicts", "detail", "meta", "create">>

Following(step) == DropOrder[(CHOOSE i \in 1 .. 5 : DropOrder[i] = step) + 1]

Dropped(table) ==
    CASE table = "meta" -> [db EXCEPT !.stamp = FALSE]
      [] table = "detail" -> [db EXCEPT !.detail = Nothing, !.missing = @ \union {table}]
      [] table = "verdicts" -> [db EXCEPT !.verdicts = Nothing, !.missing = @ \union {table}]
      [] table = "parses" -> [db EXCEPT !.parses = Nothing, !.missing = @ \union {table}]
      [] table = "parsed" -> [db EXCEPT !.missing = @ \union {table}]

\* One DROP TABLE, which commits by itself.
Drop(t) ==
    /\ command[t].at \in {"parsed", "parses", "verdicts", "detail", "meta"}
    /\ db' = Dropped(command[t].at)
    /\ Runs(t, [command[t] EXCEPT !.at = Following(@)])
    /\ UNCHANGED <<jobs, reloads, mixed, halfDropped>>

\* The schema's CREATE TABLE IF NOT EXISTS, in the export and in _connect.
Created == [db EXCEPT !.missing = {}]

Create(t) ==
    /\ command[t].at = "create"
    /\ db' = Created
    /\ Runs(t, [command[t] EXCEPT !.at = "fill"])
    /\ UNCHANGED <<jobs, reloads, mixed, halfDropped>>

\* INSERT: the rows there are stay as they are.
Inserted(table, rows) ==
    [j \in DOMAIN table \union DOMAIN rows |-> IF j \in DOMAIN table THEN table[j] ELSE rows[j]]

\* One transaction: the rows and the stamp, or, where another export has been faster or
\* drops the tables again, nothing but an error.
Fill(t) ==
    /\ command[t].at = "fill"
    /\ LET c == command[t]
           fails == \/ db.stamp \/ "detail" \in db.missing
                    \/ DOMAIN db.detail \intersect DOMAIN c.read # {}
       IN  IF fails
           THEN UNCHANGED <<db, mixed, halfDropped>>
           ELSE /\ db' = [db EXCEPT
                             !.detail = Inserted(@, [j \in DOMAIN c.read |->
                                                         [cmd |-> c.read[j], resolved |-> NoText]]),
                             !.stamp = TRUE, !.exported = c.read]
                /\ mixed' = (mixed /\ ~c.lone)
                /\ halfDropped' = (halfDropped /\ ~c.lone)
    /\ Runs(t, NoCommand)
    /\ UNCHANGED <<jobs, reloads>>

----------------------------------------------------------------------------
(* resolve_job_detail and parse_job_detail. *)

\* Without this version's stamp the command is refused.
Connect(t, op) ==
    /\ db.there
    /\ db' = Created
    /\ IF db.stamp
       THEN Start(t, [NoCommand EXCEPT !.at = "rows", !.op = op])
       ELSE command[t].at = "idle" /\ UNCHANGED <<command, mixed>>
    /\ UNCHANGED <<jobs, reloads, halfDropped>>

\* The rows are read before the transaction that writes begins.
ReadRows(t) ==
    /\ command[t].at = "rows"
    /\ IF "detail" \in db.missing
       THEN Runs(t, NoCommand)
       ELSE Runs(t, [command[t] EXCEPT !.at = command[t].op, !.rows = db.detail])
    /\ UNCHANGED <<jobs, reloads, db, mixed, halfDropped>>

\* What a row may come to: the resolver sees rows that have a command line.
Outcomes(row) ==
    IF row.cmd = NoText THEN {"no_cmd_line"} ELSE {"resolved", "residue", "left"}

\* One transaction: the column and the verdicts are cleared, and each row that was read
\* gets a verdict, and its resolved text where substitution changed it.
WriteResolution(t) ==
    /\ command[t].at = "resolve"
    /\ db.missing \intersect {"detail", "verdicts"} = {}
    /\ LET rows == command[t].rows IN
       \E verdict \in [DOMAIN rows -> Verdict], changed \in SUBSET DOMAIN rows :
          /\ \A j \in DOMAIN rows :
                /\ verdict[j] \in Outcomes(rows[j])
                /\ verdict[j] = "resolved" => j \in changed
                /\ verdict[j] \in {"left", "no_cmd_line"} => j \notin changed
          /\ db' = [db EXCEPT
                       !.verdicts = verdict,
                       !.detail = [j \in DOMAIN @ |->
                           [@[j] EXCEPT !.resolved = IF j \in changed THEN rows[j].cmd
                                                     ELSE NoText]]]
    /\ Runs(t, NoCommand)
    /\ UNCHANGED <<jobs, reloads, mixed, halfDropped>>

\* parse_quality.parsed_from: the resolved text where there is one.
Source(row) ==
    CASE row.resolved # NoText -> "resolved"
      [] row.resolved = NoText /\ row.cmd # NoText -> "raw"
      [] OTHER -> "no_cmd_line"

WriteParse(t) ==
    /\ command[t].at = "parse"
    /\ db.missing \intersect {"parsed", "parses"} = {}
    /\ db' = [db EXCEPT !.parses = [j \in DOMAIN command[t].rows |-> Source(command[t].rows[j])]]
    /\ Runs(t, NoCommand)
    /\ UNCHANGED <<jobs, reloads, mixed, halfDropped>>

----------------------------------------------------------------------------
(* A command is killed or fails; what it has committed stays. *)
Kill(t) ==
    /\ command[t].at # "idle"
    /\ halfDropped' = (halfDropped \/ command[t].at = "meta")
    /\ Runs(t, NoCommand)
    /\ UNCHANGED <<jobs, reloads, db, mixed>>

StagingInit ==
    /\ jobs = [j \in StagedJob |-> NoText] /\ reloads = 0
    /\ db = [there |-> FALSE, stamp |-> FALSE, missing |-> {}, detail |-> Nothing,
             verdicts |-> Nothing, parses |-> Nothing, exported |-> Nothing]
    /\ command = [t \in Terminal |-> NoCommand]
    /\ mixed = FALSE /\ halfDropped = FALSE

StagingNext ==
    \/ Reload
    \/ \E t \in Terminal :
          \/ StartExport(t) \/ Drop(t) \/ Create(t) \/ Fill(t)
          \/ \E op \in {"resolve", "parse"} : Connect(t, op)
          \/ ReadRows(t) \/ WriteResolution(t) \/ WriteParse(t)
          \/ Kill(t)

StagingSpec == StagingInit /\ [][StagingNext]_stagingVars

----------------------------------------------------------------------------
(* Properties. *)

StagingTypeOK ==
    /\ jobs \in Tables(StagedJob, Line) /\ reloads \in 0 .. MaxReloads
    /\ db \in Store
    /\ command \in [Terminal -> Command]
    /\ mixed \in BOOLEAN /\ halfDropped \in BOOLEAN

Dropping == \E t \in Terminal : command[t].at = "meta"

(***************************************************************************)
(* resolve and parse refuse a store without the stamp, so a stamped store  *)
(* must hold a whole export, wherever an earlier command was killed.  It   *)
(* does, unless an export is killed between dropping job_detail and        *)
(* dropping meta: the stamp of the old store then passes an empty one.     *)
(***************************************************************************)
StampMeansWhole ==
    db.stamp /\ ~Dropping /\ ~halfDropped /\ ~mixed =>
        /\ DOMAIN db.detail = DOMAIN db.exported
        /\ \A j \in DOMAIN db.detail : db.detail[j].cmd = db.exported[j]

(***************************************************************************)
(* Every row accounted for, never silently dropped: the verdicts of a      *)
(* resolution and of a parse cover the jobs of the store and no others, a  *)
(* resolved text is the one of its own row's command line, and it is there *)
(* exactly when the verdict says so, however the commands follow one       *)
(* another and wherever they are killed.  Only an export that has dropped  *)
(* the verdicts leaves resolved texts without any.                         *)
(***************************************************************************)
VerdictsMatchRows ==
    mixed \/
    /\ \A D \in {DOMAIN db.verdicts, DOMAIN db.parses} : D # {} => D = DOMAIN db.detail
    /\ \A j \in DOMAIN db.detail :
          /\ db.detail[j].resolved \in {NoText, db.detail[j].cmd}
          /\ db.detail[j].resolved # NoText /\ DOMAIN db.verdicts # {} =>
                 j \in DOMAIN db.verdicts /\ db.verdicts[j] \in {"resolved", "residue"}
          /\ j \in DOMAIN db.verdicts /\ db.verdicts[j] = "resolved" =>
                 db.detail[j].resolved # NoText
=============================================================================
