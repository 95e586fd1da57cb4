# A verification development for DryDocs

DryDocs loads scheduler, application and documentation metadata into a Neo4j
graph, serves it through a console API, answers questions about it with an agent
pipeline, and lets subject-matter experts (SMEs) feed context and mapping
corrections back. This directory holds TLA+ modules of the parts that keep state,
the TLC configurations that check them, and TLAPS proofs about them.

Modelled are the SME **intake** workflow, the mapping **draft buffer**, the
**loader** life cycle with its soft deletes and two loaders with writers of their
own, console **authentication**, **ephemeral specs and exports**, the life of a
**question** to the graph agent, the command-line **staging** store and the
**snapshot** writer. The sections below give the inventory of the whole system,
then each model, what is checked and proved, what was found, and what is left out.

Paths are relative to the repository's source root.

## 1. Inventory

| component | state it keeps | operations | what is hard | what makes it correct |
|---|---|---|---|---|
| SME intake (`drydocs_api/intake.py`, routes in `drydocs_api/app.py`) | SQLite tables intake, evidence, persona_block, event; evidence files beside them | create, upload evidence, transition, thread decision, block/unblock a persona, reads | one shared connection for the event loop and the threadpool, no rollback; files written before rows; an eight-state review machine with three roles | the log agrees with the record; a ruling is final; one live version of a name; evidence never swapped under review; a blocked persona submits nothing |
| mapping draft buffer (`drydocs_core/mapping_store.py`, `drydocs_api/mappings.py`) | `var/mapping.db`, rebuilt from committed CSV/YAML sources whenever their hash differs; draft rows in the same file | draft an override or defined mapping, list, promote to a diff | every request, reads included, may rebuild the file; unlink-then-build; a connection per accessor call | a rebuild neither loses nor repeats a draft; each drafted row is proposed once; a current stamp means current rows |
| loader life cycle (`drydocs/loaders/base.py` and a loader per dataset; `drydocs/cli_ingest.py`, `cli_schema.py`) | nodes stamped with `last_run_id`, removed-marks, `:JobRun` nodes | load: open, batches, mark pass, close; chains of loaders; retention sweep | each statement is its own transaction; failure anywhere; several operators on one graph; partial extracts | a whole run leaves exactly its rows alive in its scope; a mark means that the source no longer has the row |
| console authentication (`sessions.py`, `credentials.py`, `handlers.py`, `scripts/set_console_credential.py`) | sessions in memory, the credential file and a cached copy of it | issue, resolve, revoke, expire, reload on a changed file stamp, rewrite | threadpool races on unlocked dicts; store and stamp assigned apart; accounts removed under live sessions | a revoked or expired token never resolves; the cache ends up with the newest file |
| ephemeral specs and exports (`ephemeral_specs.py`, `exports.py`) | bounded in-memory specs with a TTL; a ledger of completed exports | register, resolve, evict; stream, file a manifest | eviction at capacity, abandoned streams | only the owner resolves a spec; only finished exports are filed |
| named queries, guards, reports (`query_specs.py`, `guard.py`, ...) | none but an append-only audit log | run a listed query, lint Cypher | — | read-only statements only |
| question answering (`agents/graph_qa`) | none across questions | tier cascade, fix loop, vote, token budget, task graph | replies are arbitrary input; loops must end | rounds, votes and fixes bounded; budget respected |
| folder attribution (`drydocs/loaders/folder_attribution.py`) | BELONGS_TO_APPLICATION edges with an origin; pins | resolve all folders, write in batches; pin by hand | pins and mappings change between the resolve and a batch | an owner only where the inputs leave no doubt; never beside a pin |
| fix tracking (`drydocs/loaders/fix_tracking.py`) | fix marks on jobs and folders | apply or reject a change-set | targets resolved in one query and matched again in another | a change-set is whole, and touches no other fix's marks |
| staging store (`drydocs/cmdline_staging.py`) | a SQLite file of five tables with a schema stamp | export, resolve, parse | each DROP commits; commands are killed or overlap | a stamp means a whole export; a verdict for every row |
| snapshots (`drydocs/snapshots/writer.py`) | dated versions of applications, products, lines of business | write, prune | close and create are two transactions; a version is dated by day | one open version, which holds the current state and is never pruned |
| ledger, trace, promotion (`agents/common`) | append-only files | append, read | failures are swallowed | — |
| core stores and adapters (`drydocs_core`) | run logs, registries read from files | open a log, read declarations | the log's name is claimed with exists() | — |
| lineage, deepdoc, docmeta, remediation, review | batch output | parse, write idempotently, render | — | functional correctness of parsers |
| plan, port, docgen, libs, scripts, web console, configuration | — | developer tooling, browser, data | — | — |

The console API is one uvicorn process. Its `def` routes run on a threadpool and
its one `async def` route that writes (`POST` evidence, `drydocs_api/app.py:796`)
on the event loop. The browser (`web/`) and the agents reach the stores through
it; the loaders and the sweep are command lines that share only the graph with
it. `PROJECT.json` lists every component with its status, and every place where
the code is hard to test.

## 2. Modules

| module | what it is |
|---|---|
| `IntakeRules` | the rows, the transition table and the pure rules of the intake store |
| `Intake` | the intake store with one atomic step per handler |
| `IntakeThreads` | the same handlers statement by statement over one connection, with crashes and failing file I/O; refines `Intake` when serial |
| `IntakeProofs`, `ThreadProofs` | proofs about `Intake`; about `IntakeThreads` |
| `DraftRules` | rows, sources and the row operators of the draft buffer |
| `DraftBuffer` | the abstract buffer: drafts, committed files, diffs; draft, promote, apply and edit are single steps |
| `DraftStore` | the buffer as it runs: accessor calls, currency check, rebuild, queries; refines `DraftBuffer` when serial |
| `DraftProofs`, `DraftStoreProofs` | proofs about `DraftBuffer`; about `DraftStore` |
| `Loader` | ingests (folders, then jobs), the mark pass, the sweep and a changing source |
| `LoaderProofs` | proofs about `Loader` |
| `Accounts` | credential file, the operator's tool, the reloading copy, sessions and requests |
| `SpecRegistry` | the ephemeral spec store as concurrent requests see it |
| `ExportStream` | the export generator, its row ceiling and the ledger |
| `Question` | the tier cascade, the Tier 2 loop and the bridge to the console |
| `Staging` | the command-line staging store and its three commands |
| `Snapshots` | the snapshot writer and the prune |
| `FolderAttribution` | the resolver, the automated loader and the manual load |
| `FixTracking` | change-sets against sweeps and ingests |
| `MCComponents` | `Accounts` to `FixTracking`, each on a small instance, in one run |
| `ConsoleProofs` | proofs about `Question`, `ExportStream`, `Accounts`, `SpecRegistry` |
| `LoadProofs` | proofs about `Snapshots`, `FolderAttribution`, `FixTracking`, `Staging` |
| `ComponentProofs` | that `MCComponents` runs each component by its own specification |
| `MC*` | small constants and symmetry for TLC |

Definitions marked "Mutant" are deliberate mistakes (a dropped guard, a missing
reset, a batch forgotten) that the properties are shown to catch; no
specification uses them.

### Intake

`intake`, `evidence` and `block` are the tables of those names. Of the event
table only the newest row of an intake that states a status is kept (`audit`).
`CreateIntake` ... `UnblockPersona` are the handlers `create_intake` ...
`unblock_persona`: the guard is the conjunction of the checks the handler makes
before its first write, and a request that is refused changes nothing. `MayReach`
is `_authorize_record`, `TRANSITIONS` the table of that name, `PriorIntakes` the
matching of `_check_thread`: an upload is linked to other intakes holding the same
bytes, or a mail of the same thread (`Continues`). Contents are model values.
Notes, previews and file formats decide nothing and are left out.

`IntakeThreads` keeps what the connection sees (`db`) apart from what is
committed (`disk`). A worker reads its record and passes its checks in one step,
because they are one SELECT and Python on the row it returned; each later
statement is a step of its own that uses what was *read*, and `Commit` commits
everything pending, whoever executed it. Only `Loop` runs `add_evidence`, since a
coroutine without an `await` between its statements cannot interleave with
itself. `Crash` loses what is uncommitted and keeps the files. An `OSError` ends
an upload without a rollback, as in the code.

### Draft buffer

`DraftStore` has the file (`disk`), the committed sources, and one record per
request. `Check` is `is_current`, `Carry`/`Unlink`/`Create`/`Ingest`/`Publish` are
the stages of `build()`, and the remaining steps are the queries of the routes.
A route is its sequence of accessor calls, each of which opens the store anew and
so may rebuild it. `told` remembers which rows a receipt has confirmed to the
editor. `Apply` and `Edit` are the checkout around the server: merging a promoted
diff, and any other change of a source; they are external.

Choices: unlinking follows POSIX (an open file lives on for its holder; Windows
would raise instead). A builder holds the write lock from `Create` on, and other
writers wait; the busy timeout is not modelled. A request carries one row.
`Reviewed` says that nobody commits a file that the store refuses.

### Loader

`graph` maps each folder and job to its node: whether it is there, the run that
last stamped it, and its removed-mark (fresh, or past the retention window). An
ingest (`chain[c]`) goes through `open`, `stream`, `clear` and `close`, first for
folders, then for jobs. `client.run` is one transaction, so `Open`, `Flush`,
`Mark`, `Clear` and `Sweep` are single steps, and everything else may happen in
between: other ingests, sweeps, changes of the source, and `Stop` (an exception
or the death of the process). `Lands` is the `MATCH` on the parent folder that
silently drops a job. `Declares` and `InScope` are the early returns and the
scope clause of `_mark_removed`.

`scope` says how the operator narrowed the ingest: not at all, by folder or data
center, or by a sample (`--row-cap`, `--developer-sid`, `--run-as`). Run ids are
only ever compared with the current run's, so the ids of ended runs are one
value, `Earlier`. `extract`, `refused`, `snapshot` and `alone` are history
variables for the properties. The status of the `:JobRun`, which no load reads
back, is not modelled, so an orderly failure and a death are the same step; nor
are the part-2 stages, which write other labels.

### Accounts

A route runs on a threadpool worker. `_refresh` is four steps - stat, read, assign
the store, assign the stamp - and the operator's tool loads, prompts and saves in
between. `Accounts` has login, logout and the check at the door of every other
route; `lawful` remembers what the file has held since a request's refresh began,
which is what the request may be answered from. `overlapped` remembers the situation the
code does not handle: a second request consults the copy while a refresh is under
way whose file, or only whose stamp of it, is out of date (`Late`). A session's
term ends by an event of its own. Roles, key derivation, and `revoke_identity` and `purge_expired`, which
no route calls, are left out.

### SpecRegistry and ExportStream

A purge lists the expired keys and then deletes them one by one; a registration
inserts, moves the key to the end, measures and evicts. Each is a step, because no
lock covers them. An error that nothing catches - a `KeyError`, or the
`RuntimeError` of a dict that changes while a purge lists it (`ListFails`) - is
the step `fault`.
`ExportStream` takes a download from the route's answer (a job) through the first
chunk (the query runs, bounded by one row more than the ceiling) to the manifest,
which is filed after the last chunk (`Complete`); the loop that shrinks the ledger
to its capacity is `MeasureLedger` and `PopOldest`, with other downloads in between.
Hanging up and failing are `Abandon`.

### Question

`run` is the pipeline with its envelope, and each of its steps is an action: the
router, a declared spec, text2cypher with its fixes, the choice between the two
results, and the rounds of Tier 2 (`Round` is the head of the loop and the only
look at the budget). A model's reply is a choice of what can be made of it. Every
step that a question posts is counted, those of clarified terms and of a failing
spec included.
`stream` is the other side of the bridge, with the number of steps not yet relayed:
`AnswerDone` may come before the last steps do, which are then drained.

### Staging and Snapshots

In `Staging` a step is one transaction or one statement that commits by itself, so
the export drops its tables one by one; `stamp` is the schema version in `meta`.
Of `job_detail_parsed` it is kept only whether the table is there.
Commands may overlap and be killed. In `Snapshots` a writer reads an entity's
state, compares it with the newest version, closes and creates, and may die
anywhere. The histories `crowded`, `halfWritten` and `contended` mark the three
situations the code does not handle, so that the properties can say what holds
outside of them.

### FolderAttribution and FixTracking

`Resolved` is the whole resolver: precedence of origins, fan-out of rows for a
whole code except under a platform, ties, the fallback on the older matches, the
pins. `ClearOwner`, which the property uses, states the rule the other way round,
for one folder and one application, and the two are proved to agree. `inputs`
remembers what a run was resolved from. `FixTracking` resolves a change-set's
targets, then writes them in one statement that passes over what it cannot match;
`lost` remembers which targets a sweep has taken in between.

## 3. What is checked

| run | instance | shows |
|---|---|---|
| `Intake` | two personas (reviewer, admin), two intakes, one file name, two contents of one mail thread, two block ids | type, `AuditAgrees`, `MovesWereAuthorized`, `RulingIsFinal`, `OneLiveRowPerName`, `LinksResolve`, `OneOpenBlock`, `NoSilentSwap`, `BlockedDoNotSubmit` over every sequence of requests |
| `IntakeSerial` | one admin, two intakes, crashes, one request at a time | `CommitsAreHandlers`: every commit is one whole handler of `Intake`; a crash loses a handler or nothing |
| `IntakeThreads` | one reviewer; the loop and two workers, two requests in service at once, two seeded intakes (one open, one accepted), failing I/O, no blocks | `NeverTwoLiveRows`, `LiveRowsMatchFiles`, `EvidenceIsAppendOnly`, `FlagsAndRulingsStand`: what still holds when commits mix and rulings race |
| `DraftSerial` | three drafts, two keys of different domains, two rows a draft, one edit, one request at a time | `BehavesAsBuffer` (refinement), `PromotedOnce`, `StampIsTrue` |
| `Loader` | two folders with a job each, one ingest at a time, refused rows, failures, sweeps, a changing source | `LoneRunSettles`, `MarksAreTrue` |
| `Components` | the eight component modules, one at a time; see below | `StampMatchesStore`, `WithdrawnAccountIsRefused`, `LoginNeedsCurrentSecret` (accounts); `RefLivesItsTerm`, `ServedWhileGood`, `CapacityHolds` (specs); `ManifestTellsTheWholeStream` (exports); `CallsAreBounded`, `OverrunIsOneRound`, `AnswerFromRowsIfAny`, `AskedQuestionEnds` (question); `StampMeansWhole`, `VerdictsMatchRows` (staging); `OneOpenVersion`, `CurrentStateStays` (snapshots); `OnlyClearOwnersAreWritten`; `ChangeSetIsWhole` |
| `IntakeParked`, `IntakeHalfCommit`, `IntakeStaleStatus`, `DraftRace`, `DraftRefused`, `LoaderFiltered` | | the findings of section 5: each states what a comment or docstring says, and TLC finds the behaviour that breaks it |

Bounds and why they are enough:

- *Ids.* Two intakes are what a thread link needs; two contents of one thread
  cover the same bytes, changed bytes and a match; one name covers superseding,
  and names of an intake do not interact. `IntakeThreads` starts from a seeded
  state that `Intake` reaches, because reaching it through interleaved workers
  costs more than it shows. It has two workers, the least that lets two rulings
  race, and no block ids: block requests touch no table that its properties speak
  of, `IntakeSerial` has them, and the theorems are for any. Its one persona is the
  reviewer, who takes a record as far as `sme-confirmed`; an admin's acceptance
  beside an upload is the run `IntakeStaleStatus`.
- *Drafts.* `MaxRows` and `MaxEdits` bound the counters: two rows are needed for
  an order and for a mix of domains, one edit makes every later request rebuild.
  `EditsMidRequest` is FALSE in all runs: a source that changes inside a build is
  stamped with hashes of what was not ingested, which is listed as a hazard.
- *Loader.* Two folders are what it takes for a scope to leave something out.
  `BatchSize` 1 gives every order and every cut of a stream. Samples are kept out
  of the passing run, since `LoaderFiltered` shows that they mark falsely. The run
  has one ingest at a time, so that what else disturbs a run in it are sweeps;
  overlapping ingests are covered by the theorems, which are for any number.
- *Components.* The eight modules share no state with one another: a session's
  authority, a spec, a question and a graph property meet only in the requests
  that use them. So one run is enough, whose initial state picks the component,
  and the state space is the sum of eight and not their product.
  - Accounts: two workers are what two overlapping refreshes take, two writes of
    the file a write in the middle and one after; one account, two secrets.
  - Specs: capacity 1, so that every second key evicts; term 1 in three ticks.
  - Exports: two downloads for a ledger of one; up to two rows against ceilings
    from none to one past the maximum. That `popitem` finds a ledger which others
    have emptied takes three downloads over capacity at once; the run does not
    reach that branch of `PopOldest`, and the theorems cover it.
  - Question: the code's own limits (two fixes, two rounds, three votes); a budget
    of two against calls that cost nothing or one, so that it may be used up at any
    call or never; at most one clarified term (`MaxClarified`), which posts a step.
  - Staging: two commands at once and one change of the graph. Snapshots: one
    entity (entities interact in nothing but a writer's order), two states, three
    days and a retention of one, three versions, so that one is past retention.
  - Attribution: a folder under an ordinary code and one under a platform's, two
    applications, two changes: enough for a tie, a pin during a run, a mapping
    withdrawn during one. Fixes: two targets, two fixes, three change-sets, one
    loss.
- *Symmetry* is used for ids and for whole folders, which the modules only
  compare, and not in the run with the liveness property.

`CHECK_DEADLOCK FALSE` stands in the intake, draft and component runs: ids run
out, records close, bounded counters end, a question is answered, and then nothing
is left to ask for. The loader runs check deadlock.

Fairness is assumed in one place. `AskedQuestionEnds` says that a question whose
user stays is answered or reported as failed, and that the pipeline ends even when
the user has gone. It takes weak fairness of the pipeline - straight-line code on
a worker thread, whose every call returns or raises because provider and driver
have timeouts - and of the bridge, whose callbacks the event loop runs. Nothing is
assumed of the user or the model. Elsewhere the servers answer requests and the
commands are run by people; the code schedules nothing, retries nothing and
promises nothing that must eventually happen.

## 4. What is proved

TLAPS checks every step of the eight `*Proofs` modules, for all values of the
constants under the assumptions named in the modules: roles are roles and Nobody
is no persona (intake); the loop is no pool thread and somebody may be served
(intake threads); keys have domains (drafts); folders and jobs are different and
every job has a folder, no running ingest is `Earlier`, scopes are known (loader);
personas are accounts, there is a token and at least one write of the file
(accounts); there is an owner and a reference, terms and capacities are positive
(specs); None is no number (exports); no text is NoText (staging); there is an
entity, a state, a fix to name (snapshots, fixes); every folder has a code or none
(attribution); limits are numbers (question). Every safety invariant and every
action property of the passing runs is the statement of a theorem. Where a theorem
has a hypothesis besides, it is needed: TLC breaks the property without it, mostly
in the way a finding of section 5 shows.

- **Intake.** `TypeCorrect`; `SafeAlways`, of which `AuditTrailAgrees`,
  `MoversWereEntitled`, `RulingsStand` and `BlocksAreSingle` are the parts;
  `OneLiveRow`; `LinksSafe`; `ReviewedEvidenceStays` and `BlockHolds`, which are
  action properties. The invariants are inductive over type correctness, in three
  groups that share nothing: the status and its log; the evidence rows (an upload
  puts a live row where it takes one away, `LiveAfterUpload`); and the links, which
  therefore never come to point at an intake without live evidence (`LinksStep`).
  Each proof takes the handlers one by one.
- **Intake threads.** For any number of workers, with crashes and failing I/O:
  `ThreadsTypeCorrect`; `NoTwoLiveRows` and `EvidenceAppended`, because only the
  loop's uploads write the evidence table, so that the rows an upload read are the
  live ones until it supersedes them, and then there are none until it inserts its
  own (`UploadHolds`), while what is pending follows on what is committed
  (`Follows`); `FlagsAndSettledRulingsOutlive`, because what a commit would publish is
  never behind what is published (`PendingAhead`), whoever wrote it, and because a
  pending ruling that is not yet the committed one has its request in service
  (`RulingsInv`), so that once no ruling on an intake is in service the pending and
  the committed decision are one, and the check turns every later ruling away.
  `RowsDescribeFiles` is for
  behaviours without crashes: the one row that may describe bytes that are gone is
  the one an upload is about to supersede (`FilesInv`), and a crash would leave it
  so. `SerialRefinement` is the refinement of `Intake` with one request at a time
  (`MaxInFlight = 1`), crashes included, I/O errors not, since a failed upload
  leaves its statements to the next commit. Its invariant `SerialInv` says, of each
  point in each handler, what is pending by then: exactly the effect of the handler
  so far on what is committed. So a commit is a whole handler, and every other step
  a stutter.
- **Draft buffer.** `BufferTypeCorrect`, and `EachRowReachesOneDiff`: a promoted
  row stands in exactly one diff and an open one in none. By itself this is not
  inductive: it needs that diffs are only of drafted rows under the very key that
  they were drafted with (`DiffsAreDrafted`), so that a new row at the end of a
  draft is in no diff yet.
- **Draft store.** `StoreTypeCorrect` for any requests at once and edits anywhere
  between them; it rests on the shapes of requests (`RequestsOK`: which calls may be
  left at which stage) and on diffs being finite. `StampStaysTrue` for any requests
  at once while no source changes during one: a file about to be stamped holds
  the rows of the sources (`StampInv`). `StoreImplementsBuffer` is the refinement of
  `DraftBuffer`, one request at a time and with sources that the store accepts: at
  each stage the file is as the one request left it (`FileAt`) and what it has read
  of the drafts still holds at its next call (`ReadSo`); then `Add` is the abstract
  draft, `Mark` the promotion, and a rebuild, which takes the drafts out of the
  file and puts them back, a stutter.
  `StorePromotesOnce` needs one request at a time and nothing of the sources: they
  may change in the middle of a request, and if a rebuild refuses them, then the
  drafts are gone, and no file is built that could hold others under their numbers
  (`Lost`). The modelled sources only gain rows, so this says nothing of what
  follows once somebody repairs a refused one by hand. Its steps are those of
  `EachRowReachesOneDiff`, cited from `DraftProofs` for rows wherever they are.
- **Loader.** `LoaderTypeCorrect`, `LoneRunsSettle` and `LoneMarksAreTrue`. What
  a run settles at its end says nothing about its middle, so the invariant `IInv`
  follows the run: a fresh id is on no node (`Unstamped`); until the end of its
  mark pass a lone run has stamped exactly what it has flushed and what landed
  (`Stamped`, for which a stage must not write the nodes it looks up: `Carried`);
  between the two statements of the mark pass nothing alive in scope lacks the
  stamp (`Passed`). `LoneMarksAreTrue` needs besides that the extract was whole
  within its options (`Whole`) and assumes that no ingest is sampled
  (`NoSamples`); without that assumption it is false, as `LoaderFiltered` shows.
- **Accounts.** `AccountsTypeCorrect`, `StampIsHonest`, and the two action
  properties `WithdrawalIsSeen` and `SecretIsCurrent`, for any number of workers,
  sessions and writes. `Filed` is what always holds of a refresh's locals: they are
  of the past, and what was read of the present file is its contents. `Stamped` is
  what holds until refreshes overlap: nobody is about to store an older copy under
  the present stamp (`CurrentAlone`), nor anything under the stamp of no file
  (`EmptyingAlone`, `ZeroIsEmpty`), so that a current stamp means a current copy
  (`CopyIsTrue`), and whatever a request may come to be answered from has stood in
  the file since its refresh began (`Answerable`).
- **Specs.** `RegistryTypeCorrect`, `ExpiredIsNeverServed`, `StoreStaysBounded`,
  `RefIsKept`, for any number of requests at once. A purge has listed all that had
  expired when it read the clock, so a lookup behind it finds nothing older
  (`Purged`); the keys that no registration has yet to move are within capacity
  unless somebody still measures or evicts (`Bounded`); and while no two requests
  have met inside the store, what was promised and has not expired is there
  (`Kept`), and whoever deletes, moves or evicts finds what it looks for (`Sure`).
  The store is an ordered dict, a sequence without two entries of one key: what
  deleting, appending and replacing do to its keys are lemmas (`DropsOne`,
  `AppendsOne`, `ReplacesOne`, `KeysCounted`).
- **Exports.** `ExportTypeCorrect`, `ManifestsAreTrue`. While rows flow, what was
  sent and what is left is what the driver was asked for, and no more than the
  ceiling was sent (`StreamInv`); from there a drained stream is truncated exactly
  when more matched, and a manifest is a copy of a stream that is over and never
  changes again (`Copies`).
- **Question.** `QuestionTypeCorrect`, `CostIsBounded`, `BudgetIsNearlyKept`,
  `RowsAreNeverHidden`. `Rest` is what a round may still cost: the calls made and
  `Rest` never exceed `Base`, the cost of the rounds so far (`Counted`), and the
  calls over budget and `Rest` are fewer than a round's (`Overran`), since the call
  that uses up the budget is not one over it. `Tiering` follows the two results of
  Tier 1 to the answer.
- **Staging.** `StagingTypeCorrect`, `StampIsWhole`, `EveryRowIsAccounted`, for any
  number of terminals, wherever commands are killed. The invariant follows a
  command that has had no other beside it since it started (`LoneIsAlone`,
  `UnmixedIsLone`): which tables its export has dropped by now, and that the rows a
  resolve or parse read are still the store's (`Progress`).
- **Snapshots.** `SnapshotTypeCorrect`, `NeverTwoOpen`, `CurrentStateIsKept`. The
  invariant needs that busy writers are one and the same unless contended
  (`Apart`), that whoever is about to create has closed everything (`ClosedFirst`),
  and that only crowded entities have two versions of one day (`Dated`): then the
  newest version is unique, and it is the one a comparison finds and a prune keeps.
- **Attribution.** `AttributionTypeCorrect`, `OwnersAreClear`. The resolver's
  collected candidates are those with a say (`CandidatesSay`), a sole winner
  outranks every dissenter (`WinnersOutrank`), and where nobody speaks under no
  declared platform there is no row for the code at all (`NobodySpeaks`); so every
  resolved row has a clear owner (`ResolvedIsClear`) and keeps it as the run's rows
  are written, batch by batch.
- **Fixes.** `FixTypeCorrect`, `ChangeSetsAreWhole`, from the invariant that the
  targets of a change-set about to be written, less those a sweep has taken since,
  are in the graph (`ResolvedStay`).
- **Components.** The `Components` run picks one component and stutters in the
  others; `ComponentsBehave` says that it implements each component's own
  specification, so that what is proved of a component holds in the run as well.
  `ComponentsTypeCorrect` is the first use of it. The question's part is stated
  without its fairness.

Only model-checked: liveness, `AskedQuestionEnds`, since fairness is about what is
ENABLED, which is out of the prover's reach. The findings' runs are
counterexamples and have nothing to prove. Data the modules take as given (which
contents carry on which, of which domain a key is, which code a folder has) are
constants: the theorems hold whatever they are.

## 5. Findings

1. *An accepted record can leave its parked state* (`IntakeParked`). A thread flag
   raised late, in review, does not stop the record; a `no-new-value` ruling after
   acceptance closes it, though `intake.py:14` calls `admin-accepted` terminal.
2. *One connection is not one transaction* (`IntakeHalfCommit`). A threadpool
   commit publishes half of an upload; a crash then leaves a name with no live
   version.
3. *A stale status* (`IntakeStaleStatus`). An upload that passed its check writes
   into a record that was accepted in between.
4. *Two rebuilds lose a confirmed draft* (`DraftRace`).
5. *A refused source costs every pending draft* (`DraftRefused`): `build()`
   removes the old file before it validates, and a draft of mixed domains, which
   the API accepts, leads there.
6. *A sampled ingest marks what it did not read* (`LoaderFiltered`):
   `full_extract` looks at two of the five options that narrow the extract.

Met while modelling, and recorded without a run of their own. The properties of
the passing runs name each of these situations as their exception, except where it
is said otherwise.

7. *Two refreshes across a write leave an old copy under a current stamp*
   (`credentials.py:499`), the write falling between one's stat and its last
   assignment: it is then not reloaded until the next write, against
   `sessions.py:139`, by which a withdrawn account is refused on its next request
   with no coordination.
8. *Two requests in the spec store* (`ephemeral_specs.py:218`): overlapping purges
   end in a `KeyError` and a 500, a purge that lists while another request changes
   the dict in a `RuntimeError`, and a purge may delete a spec that has been
   registered afresh since it was listed.
9. *Router noise can end a question* (`pipeline.py:420`): the defaults that
   `_run_spec` falls back on are resolved outside its `try`, and for a spec with a
   required parameter they raise, although `pipeline.py:371` says that it never
   kills the question. `Raises` has the step.
10. *An export killed between dropping `job_detail` and dropping `meta`*
    (`cmdline_staging.py:293`) leaves a current stamp over an empty store, which
    `resolve` and `parse` accept.
11. *Snapshots of one day tie* (`snapshots/writer.py:152`): which of them is the
    latest is then an accident, and a prune may delete the current one; a writer that
    dies between closing and creating leaves no open version, and if the state
    reverts, none is ever made; two writers at once leave two.
12. *A folder can carry two applications* though `folder_attribution.py:316` says
    at most one: the template merges the new edge and never deletes the old one, so
    a remap, or a pin on an attributed folder, adds a second. Because the origin is
    set on creation only, a manual load over an automatic edge to the same
    application makes no pin. No property says "at most one".
13. *Two rulings race* (`intake.py:925`): both workers pass the check at 918-921,
    which refuses a second ruling, and each then runs an UPDATE that asks for the id
    alone. The second replaces a ruling that may be committed, and `adds-value`
    writes back the status it read, so that it reopens a record which `no-new-value`
    has just closed; a transition that was checked before a ruling and written after
    it reopens the record as well. In the run `IntakeThreads` both happen;
    `FlagsAndRulingsStand` speaks of a ruling once no other one is in service, and
    of the decision, not of the status.

## 6. Where this could go next

- The code snapshot's retraction of edges, and the `:JobRun` status with the
  orderly and the disorderly end of a run told apart.

## 7. Not modelled, and why

Most of the repository's lines are text in, text out: the share of them that the
modules stand for is small for that reason, and it is the part that keeps state.
Parsers, renderers, row transforms and registries are functions of their input
without state; their correctness is about text, which TLC is no tool for.
Agent ledgers and audit logs are append-only writers that swallow their own
failures. Neo4j itself is taken as serializable per statement; its constraints,
indexes and planner are not modelled (`_preflight_indexes` only refuses or
waits). The browser is an arbitrary client: the models take any request at any
time. The run log decides nothing that a load does. The named queries
(`query_specs.py`) are a table of Cypher; lineage and remediation read files and
write files, or merge rows in one process with nothing to interleave.

## 8. Running

    tlasany Loader.tla
    tlc -workers 2 -config Loader.cfg MCLoader
    tlapm LoaderProofs.tla

Every `.cfg` names its specification and constants; `PROJECT.json` pairs each
with its module, lists the properties it checks, the mutant each property
catches, and the source lines each definition stands for.
