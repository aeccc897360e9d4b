# A formal model of crypto-history-loader

The loader fetches market data of crypto exchanges into a Bronze lake of Parquet files, derives
Silver and Gold datasets from it, and serves Gold from PostgreSQL tables. This directory holds
TLA+ specifications of the parts whose correctness depends on order, interruption or
concurrency, TLC instances that check them, and TLAPS proofs. Paths below are relative to `src/`.

## Inventory

| Component | State it keeps | Operations | What makes it hard | Correct when |
|---|---|---|---|---|
| **PostgreSQL sync** (`application/postgres_sync/`, `infra/postgres/gold_repository.py`) | per lineage: consumer table, row-hash table, checkpoint, catalog signature | select revisions, certify artifacts, per lineage: lock, read, check, apply delta, verify, commit | overlapping commands, lost connections, lost commit acknowledgements, pruned artifacts, edits by hand, schema changes | readers see whole published revisions, drift is never adopted, the declared revision is eventually served |
| **Gold publication** (`application/services/gold_publication.py`) | the parquet/manifest pair of every sibling, temporary files | stage, swap, validate, roll back, clean up | an error, Ctrl-C or kill between any two file operations | a set is replaced whole or restored whole; nothing is lost |
| **Gold build and retention** (`gold_service.py`, `gold_versioning.py`, `gold_publication_result.py`) | version directories, artifacts, the publication result | choose a version, reuse, publish, prune versions, prune artifacts, write the result | parallel jobs of several symbols share version directories | only superseded artifacts disappear |
| **Trade coverage** (`fetch_trade_symbol.py`, `gapfill_service.py`, `ingestion/lake_queries.py`) | stored trades, confirmed-empty minutes | plan gap, tail or bootstrap windows, fetch, persist, mark empty | windows fail one by one, runs abort, modes alternate | no minute is half stored unnoticed; empty marks are true |
| **Bronze run** (`api/commands/loader_workflow.py`, `loader_output.py`, `bronze_runtime_service.py`) | the restart checkpoint, the run's tasks and results | load, filter, fetch, stream chunks, persist, record, finish | several plans share a checkpoint; kills between write and record | the checkpoint is never ahead of the lake; holes get filled |
| **Candle, open-interest, funding, volatility fetching** (`fetch_*_symbol.py`, `fetch_range_planning.py`) | windows still to fetch, a process-wide open-interest cache | plan tail, full-gap or bootstrap windows, stream or return rows | holes in the lake, the row in progress, start bounds | a successful task leaves no wanted row out and brings no other |
| **Exchange adapters, HTTP client** (`ingestion/exchanges/`, `ingestion/http_client.py`) | cursor, pages, tokens and route of a paging loop | page, retry, fall back to another endpoint | short pages, page caps, repeated tokens, failures in the middle | every window is covered; every loop ends |
| **Fetch executors** (`fetch_executors.py`) | worker process, result queue | start, join with timeout, terminate, read the result | a late answer against the deadline; joining before reading | each task ends once, and nothing writes afterwards |
| **Lake writes** (`ingestion/lake_writes.py`) | partition files | read, merge, replace by rename | concurrent writers of one partition | a write never loses stored rows |
| **Silver builds** (`silver_*`, `api/commands/silver.py`) | monthly partitions, their manifests with input fingerprints | discover jobs, batch them, fingerprint, reuse or read, stage, swap, roll back | inputs replaced while a job reads; concurrent jobs; faults between renames; windows over months | what is reused is fresh; nothing published is lost; runs bring everything up to date |
| **Gold frames** (`gold_frames.py`, `gold_service.py`) | none lasting | join Silver on minutes, strategy and live features, targets, coarser timeframes | rows that arrive later, gaps, partial buckets | features never look ahead, targets look exactly as far ahead as they say |
| **Medallion pipeline** (`scripts/run_medallion_pipeline.py`) | an exclusive lock, step results | lock, run the steps in order, stop on failure | overlapping starts, commands by hand without the lock | a run serves what it loaded |
| **Reconstruction and provisioning** (`postgres_reconstruction.py`) | serving tables, scheduler state | disable the scheduler, drop, create, restore | failure between steps | the scheduler is restored and tables are whole |
| **Reports, command line, plots** | none | read-only scans, parsing, drawing | nothing a model checker reaches | unit tests cover them |

How they interact: the pipeline starts Bronze, Silver and Gold commands and the sync one after
the other, each its own process. Bronze writes the lake through callbacks the fetchers invoke per
chunk and per task. Gold reads Silver from disk and ends by writing a *publication result* naming
each lineage's artifact. The sync reads that file and those artifacts, which later Gold commands
may prune at any time. Operators reach the database outside of all of this.

`PROJECT.json` lists every component with its status, and every hazard at the line where it bites.

## Modules

| Module | Models | Checked by |
|---|---|---|
| `GoldServing` | abstract promise to readers: a lineage changes atomically, to a published revision or to nothing | `ImplementsServing` |
| `PostgresSync` | the sync commands, with Gold commands and operators around them | `MCPostgresSync` |
| `PostgresSyncProofs` | theorems about `PostgresSync` | tlapm |
| `GoldPublication` | publication of one sibling set, per file operation | itself |
| `GoldRetention` | successive Gold commands with parallel symbol jobs | `MCGoldRetention` |
| `GoldBuildProofs` | theorems about `GoldPublication` and `GoldRetention` | tlapm |
| `TradeCoverage` | Bronze coverage of one symbol's trades over successive runs | itself |
| `TradeCoverageProofs` | theorems about `TradeCoverage` | tlapm |
| `BronzeRun` | Bronze runs of several plans over one checkpoint and one lake | `MCBronzeRun` |
| `BronzeRunProofs` | theorems about `BronzeRun` | tlapm |
| `ExchangeFetch` | one fetch task: planning, paging, retries, fallback, worker process | itself |
| `ExchangeFetchProofs` | theorems about `ExchangeFetch` | tlapm |
| `NumberLemmas` | facts about division and finite sets of numbers the proofs share | tlapm |
| `SilverBuild` | silver-build runs: batches, fingerprints, reuse, publication | `MCSilverBuild` |
| `SilverBuildProofs` | theorems about `SilverBuild` | tlapm |
| `SilverFrames` | which Bronze rows every Silver number is computed from | through `MedallionPipeline` |
| `GoldFrames` | the same of Gold; extends `SilverFrames` | through `MedallionPipeline` |
| `MedallionPipeline` | the pipeline over all layers; extends `GoldFrames` | `MCMedallionPipeline` |
| `MedallionPipelineProofs` | theorems about `MedallionPipeline` | tlapm |

**PostgresSync.** One process per `gold-sync-postgres` command; `pc` is the position in
`synchronize_*` and `reconcile_lineage`. A command selects either the publication result
(`StartDeclared`) or the current artifact of every lineage (`StartCurrent`), certifies all of it
(`Certify`), and then handles lineages in sort order: `Open`, `Lock`, `Read` (all checks, and the
plan), `ApplyRows`, `ApplyDigests`, `Verify`, `Commit`. A failing check ends the command, as the
exception does. A transaction is its own writes over what is committed, which is READ COMMITTED;
`Commit` makes them visible at once. `CommitUnacknowledged` is a commit whose acknowledgement is
lost; `Abort` is any crash, timeout or lost connection. `GoldBegin`, `GoldPublish`, `GoldReuse`
and `GoldEnd` are what the sync sees of Gold commands, `ExternalWrite` and `Reconstruct` what
operators do. Row hashes are the payloads themselves (SHA-256 taken as injective); a checkpoint's
summary is the number of rows and the first and last key (`SummaryMatches`). `displaced` is a history
variable: the lineages that another command or an operator has replaced since a command was done with them.

**GoldPublication.** One step per write, `os.replace` and `unlink` of the single and the
sibling publication. `Error` is an exception, routed as the `except` and `finally` clauses route
it; `Interrupt` is a KeyboardInterrupt, which `except Exception` does not catch; `Kill` ends the
process. Contents are build numbers; a manifest attests the parquet of the same number. Two history
variables: `orphans` is what the last command left under temporary names, `recovery` whether its `except`
clause restored all it began to (`whole`), or was skipped by Ctrl-C or cut short by a second error (`cut`).

**GoldRetention.** A command schedules one job per selected symbol. A job reuses an artifact, skips
or plans a version, publishes, lists the version directories to remove, removes them one by one,
and prunes its own artifacts. Jobs interleave at each of these steps. The
publication of a pair and the artifact pruning of one lineage, which no other job touches, are atomic.

**TradeCoverage.** Instants stand for milliseconds, `PerMinute` of them to a minute. A run plans its
windows from the lake (`GapWindows`, `BeginTail`, `BootstrapTail`), and a window is answered, fails
recoverably, or aborts the task. A gap run stores a window at once and marks an empty window's
minutes; a tail run stores on completion. The exchange answers completely.
`cut` remembers minutes which a window covered only in part: of these the code promises nothing.

**BronzeRun.** Tasks are of four kinds, which differ in their callbacks: `standard` streams while its
lake is empty, persists on completion; `worker` does the same in a process of its own (an
open-interest task with a timeout), so its completion marks are lost to the parent; `volatility`
has no completion callback; `trade` skips failing windows and streams in full-gap runs. `file` is
the one checkpoint. `claims` and `since` are history variables: what a run held when it recorded
a task, and when the first run of a resumed chain began. Tasks run in order; parallel trade
tasks share only the checkpoint, which their callbacks do not write. No instance has a `volatility`
task; see the disagreements below for what becomes of its rows.

**ExchangeFetch.** One task of one dataset, chosen in `Init` together with the exchange's rows (`world`)
and the lake's (`stored`). `Plan` is what the `fetch_*_symbol` planners make of the lake:
`MissingRanges`, `WithHeadGap`, `DayWindows`. An open window (`at`) asks for one page per step;
`CandleSpan`, `FundingSpan`, `OpenInterestPage`, `TradeMatches` are the requests, `AfterCandles`,
`AfterFunding`, `AfterTrades` and so on the cursor after the answer. The exchange may repeat a continuation token of open
interest, or a page under a new one, which ends the paging (`Edges`). `RetryRequest` spends an HTTP retry, an
attempt or a route; `RaiseFailure` and `SwallowFailure` are what is left when all are spent, the latter
for the dataset whose adapter turns a client failure into an empty answer. A task with a timeout
runs in a worker: `Flush` writes its result into a pipe that holds `PipeRows` rows, `Collect` and
`Timeout` are the parent, `Die` a worker ending without a result. `odd` remembers the irregular
answers that void completeness.

**SilverBuild.** One symbol. A run discovers its jobs once (`StartRun`: `scheduled`, all of them `waiting`), then starts
them batch by batch (`NextBatch`): the first `MaxProcesses` waiting jobs of the list (`Batch`), and derived jobs
only when no source job waits (`Ready`). A list that names a scheduled job twice is an error of the command, so lists
have no repetition. A job goes through its targets and their months:
`Plan` takes the fingerprint and consults the manifest, `Read` reads
those of the calculation months that an earlier target has not left in the job's cache, `Stage`, `MoveAside`, `Land` and `Declare` are the renames of the publication. A file is
the empty set when it is absent and the set of its one content otherwise. A
partition's content is the record of what was read to compute it, and a file's identity in a fingerprint
is its content; taking a fingerprint and consulting the manifest is one step. Features that never
consult it (`Uncached`) compute theirs after reading in the code. `BronzeWrite` replaces a Bronze file at any time, `Fault`
fails a file operation, `Vanish` is a read of a file moved aside, `Kill` ends the process. Months whose Bronze files are there but
empty are not modelled. `raced` remembers targets that were ever built in one batch with their input, or by two jobs
at once: of these the code promises less, and the properties except them. `made` is the partition directories:
jobs and months are discovered from Silver *directories* (`Listed`), which a publication makes before its files and a
failed one leaves empty.

**SilverFrames, GoldFrames.** Pure operators, one per builder. A cell of a frame is the set of Bronze rows
its number is computed from, a null is the empty set: formulas disappear, and what remains is which
rows and which minutes a number depends on. Time has `Ticks` to a minute, so that
snapshots fall off the minute. Rolling windows by time are `Trailing` and `ClosedTrailing`, windows by
rows `LastRows`, as-of joins `AsOf`. Hybrid order-book variants are not modelled.

**MedallionPipeline.** Composes both with the pipeline. Each layer holds its frames and the Bronze rows they came from.
A pipeline takes the lock and goes through `Bronze`, `SilverRead`, `SilverPublish`, `SilverDerive`,
`GoldRead`, `GoldPublish`, `GoldFanOut`, `Sync`; a command by hand goes through its own part, without the
lock. Coarser timeframes are resampled from the newest minute dataset in the lake; the publication result
declares what the run built; the sync serves what the result declares. Datasets derived from
Silver are scheduled only when their inputs were there as the command began. Silver is rebuilt as a
whole here; reuse and races are `SilverBuild`'s. `owed` and `disturbed` are history: the rows a
pipeline's Bronze step found, and the layers others published older rows to meanwhile. `LibraryIds`
are datasets only direct calls of `build_gold_for_symbol` build.

## Runs

| Run | Question and result |
|---|---|
| `sync` | Two overlapping commands, two lineages, one fault. Readers see whole revisions (`ServedIsPublished`), every step is a step of `GoldServing` or invisible (`ImplementsServing`), and the declared revisions end up served (`Converges`). |
| `sync_drift` | Two overlapping commands over three revisions, the last with another schema; two edits or reconstructions by operators, one fault. Nothing unaccounted for is overwritten or adopted (`OnlyOperatorsLiftQuarantine`), schemas never mix (`SchemaAgrees`), what a command has handled is served as it selected it until someone replaces it (`HandledIsServed`), and what readers are promised of lineages not edited still holds (`ImplementsServing`). |
| `publication_faults` | Two errors, one interrupt and one kill anywhere in publications of two siblings: `AllOrNothing`, `FaultsLoseNothing`, `NoMixedPair`, and later publications succeed (`Republishes`). |
| `retention_prune` | Jobs of two symbols, both version modes: `RetainsUnlessSuperseded`, `DeclaredUnlessSuperseded`, `OnlySupersededRemoved`. |
| `trades_mixed` | Tail and full-gap runs, two failures: `WholeMinutes`, `RescansGaps`. |
| `trades_quiet` | *Violated:* a minute marked empty has no trade (`EmptyIsQuiet`). |
| `bronze_resume` | Two plans over a midnight, one fault: `SavedIsPersisted`, `ResumeIsComplete`, `FullGapIsComplete`, `GapsAreFilled`. |
| `fetch` | Every dataset, small histories of the exchange and of the lake, failures, retries, a deadline: `SuccessIsComplete`, `PersistsOnlyAsked`, `NothingWritesAfterwards`, `Terminates`. |
| `silver` | Five selections of jobs, writes at any time, one fault or kill: what a run would reuse is fresh (`ReusedIsFresh`), what was published stays (`PublishedStays`), a calm run brings all it scheduled up to date (`RunBringsUpToDate`), and so do runs in the end (`Converges`). |
| `medallion` | Two pipelines, one or two commands by hand, one failing step, a late row: `RunServesItsData`, `Converges`. |
| `frames` | Many small markets, rebuilt before and after later rows: no feature of a minute that is over changes, but for `rv` when the canonical source does (`PastIsSettled`, `GoldPastIsSettled`), month-wise windows equal those over the whole history, and returns too unless a gap is longer than the windows (`MonthsMatchHistory`), targets counted in rows are targets in minutes (`TargetsAreTheFuture`). |
| `prediction` | *Violated:* predictors of a minute that is over keep their numbers (`PredictorsAreSettled`). |

### Bounds

* `sync`: revision 2 of lineage 1 inserts, updates and deletes a row against revision 1, so each part
  of a delta occurs; two revisions with retention 1 let an artifact vanish under a command; two
  Gold commands let a command hold an outdated result; two lineages let one fail after
  another is committed. One fault suffices for each kind of fault at each point.
* `sync_drift`: two external actions give edit then reconstruction, two edits (of
  which the second may undo the first), and edits inside an open transaction. Three revisions with
  retention 2 let a command that holds an older result serve it after a newer one, and an artifact vanish between
  its certification and its lineage's turn; revision 3 has as many rows as revision 2 and other edges, so that
  only the bounds of a checkpoint's summary tell them apart.
* `publication_faults`: two siblings let one fail after another; three builds let a publication follow a
  failed one that followed a successful one. The second *error* may hit the rollback of the first.
* `retention_prune`: `Keep = 2`, five commands and three changes reach versions that two symbols share and
  both prune, and a fixed version published behind two automatic ones, which its own job prunes.
* `trades_mixed`: four minutes of two instants in windows of two minutes give windows inside, across and
  at the end of a range; three runs give a tail, a failed gap and a repairing gap run.
* `bronze_resume`: three intervals, two to a day, give one midnight; one fault
  leaves a checkpoint for a later run to resume.
* `fetch`: eight instants, a row every second one, days of four: windows inside, across and at the
  end of days, holes of every shape, and a row in progress. Three trades in pages of two, with a cap of two
  pages, give full, short and capped pages; two attempts with one retry on every route; a pipe of
  one row lets a result fit or block.
* `silver`: two months with a lookback of one; two workers against three jobs give two batches; two writes let one hit a
  month already read and one a month still to read; one fault or kill. The selections are concurrent
  sources feeding a rolling feature, a derived job, a feature rebuilt in every run, a feature in one batch with its
  source, and a feature listed, and so built, before its source.
* `medallion`: one late row and six sources, enough for `gold.history.full` in two timeframes; either one failing
  step and one command by hand, or two commands by hand (one to read early and publish late, one to
  follow it).
* `frames`: seven minutes in months of two, a window of three, buckets of two: windows reach over one and over two month
  ends, the last bucket is partial. Volatility in every month gives partial and full windows, and one
  market has candles without gaps. Markets take up to two of the optional rows (one of
  the live ones). The constraint `OneAtATime` lets one command run at a time, since values, not
  interleavings, are the question.
* `prediction`: candles with a gap, and an open interest after it.

`CHECK_DEADLOCK FALSE` is set where a behaviour may rightly end: when the bounds on builds, commands,
runs and clock are used up, nothing remains to be done (`sync`, `sync_drift`, `retention_prune`, `trades_*`, `medallion`, `frames`, `prediction`).

### Fairness

* `PostgresSync`: weak fairness of `StartDeclared` and of each command's own progress. The scheduled
  pipeline starts a sync of the declared result after each Gold command, and a started command
  neither waits for a person nor forever: lock and statement timeouts are configured. No fairness of Gold,
  faults or operators.
* `GoldPublication`: weak fairness of `Begin` and `Step`: the pipeline runs again and again.
* `BronzeRun`: weak fairness of time and of the running command; strong fairness of starting a saving
  run of every plan, since cron starts each of them again and again but not at every moment
  at which none is running.
* `ExchangeFetch`: weak fairness of the fetch, of flushing a result that fits, of the parent and of time: requests have timeouts of
  their own, and the deadline is a clock's. None of a worker dying.
* `SilverBuild`: weak fairness of the runner and of every job of a batch, each a thread of its own: nothing
  they do waits for anyone. None of writes, faults and kills.
* `MedallionPipeline`: weak fairness of starting some pipeline, since cron starts them for ever, and of
  every started process. None of arrivals, failures and commands by hand.

## Proofs

`PostgresSyncProofs` proves, for every set of commands, lineages, keys, payloads, schemas and lock
keys, and every bound:

* `TypeCorrectness`: `Spec => []TypeOK`;
* `ServedRevisionsAreWhole`: `Spec => []ServedIsPublished`;
* `NoSchemaMixing`: `Spec => []SchemaAgrees`;
* `HandledLineagesAreServed`: `Spec => []HandledIsServed`;
* `DriftIsNeverAdopted`: `Spec => OnlyOperatorsLiftQuarantine`, an action property;
* `SyncServes`: `Spec => ImplementsServing`, the refinement of `GoldServing`.

The assumptions are those the module names: `BoundsAssumption` (bounds are naturals and lineages are
numbered from 1, so 0 can mark "no lineage") and `SourceAssumption` (rows, schemas and locks
have their types, markers are no payloads, and a certified artifact is not empty).

`ServedIsPublished` is not inductive: it does not say why the writes a command is about to commit yield a
revision. The inductive invariant adds

* `CommandOK`: a transaction belongs to a lineage whose certified revision was published;
* `TransactionOK`: what the transaction has written is nothing or the delta *computed from the hashes
  still committed*, under the schema the table still has;
* `LocksExclude`: no two transactions past the lock hold the same one, which is what keeps those hashes as
  they were, since another commit on the lineage would need the lock;
* `HandledIsCurrent`: the checkpoint of a lineage that a command is done with, and that nobody has replaced
  since, names the revision the command selected.

The argument: a step that leaves the tables alone keeps the table invariants
(`ReadersUndisturbed`, `EndIInv`); a commit applies a delta over the hashes it was made from, which
yields the revision (`DeltaReachesSource`, `DurableTables`), and disturbs no other
transaction, because that would hold another lock and so work on another lineage
(`LeaveCommitIInv`).

`HandledIsServed` speaks of what other commands may do after one is done with a lineage. A lineage leaves a command's
list only by a commit, and a commit that writes nothing does so because `Read` found the lineage at the selected
revision, under the lock that has kept it there (the first case of `TransactionOK`); every other commit or
reconstruction of the lineage is recorded in `displaced`. With `ServedIsPublished` the checkpoint gives the rows.

`DriftIsNeverAdopted` follows because a command gets past `Read` only on equal tables, so none that is
past it works on a quarantined lineage (`SyncKeepsQuarantine`). For `SyncServes` the view readers are
promised (`PromisedView`) is the consumer table, or, for a lineage edited by hand, the rows of the
revision its checkpoint names: an edit then maps to a stutter, `Reconstruct` to `Reset`,
`GoldPublish` to `Publish`, a commit to `Serve` or a stutter (`CommitServes`), everything else to a
stutter.

`ExchangeFetchProofs` proves, for every dataset, exchange history and bound,

* `TypeCorrectness`: `Spec => []TypeOK`;
* `SuccessfulTasksAreComplete`: `Spec => []SuccessIsComplete`;
* `OnlyAskedIsPersisted`: `Spec => []PersistsOnlyAsked`;
* `OutcomeEndsWorker`: `Spec => []EndedIsQuiet`, where `EndedIsQuiet` says that a task has an outcome only
  when its worker has exited or been killed;
* `EndedTasksWriteNothing`: `Spec => NothingWritesAfterwards`, an action property: a task that has ended
  for its caller persists nothing any more.

`SuccessIsComplete` speaks of the end of a task. The strengthening follows what is wanted and not yet in the lake through
the fetch: it is collected or lies in a window still to fetch (`WindowsCover`), and in the open window it is collected or
*pending* at the cursor (`PagesCover`), which is at or after it, at or before it, or behind the continuation token, as the
endpoint pages. So the proof has a lemma about the planner, `PlanIsComplete`, built from `DayWindowsCover`,
`MissingRangesCover` and `GapsCover`, and one per paging loop, each of which says that a page and the cursor after it bring
what was pending or leave it pending (`PageOK`). The loops need different reasons: series rows lie an interval apart
(`SeriesApart`), a history without holes fills every page but its last (`NoHoles`, and an injection of `Points` instants
into the page), pages of open interest cut the history into runs of `Points` rows (`OpenInterestPages`), and a page of
trades that leaves one out is full and keeps the paging under its cap by counting what has been collected (`TradesKept`).
All of it is claimed while the answers are `Sound`: a regular history, nothing swallowed, repeated or taken from a fallback.

`NothingWritesAfterwards` needs `EndedIsQuiet` because two actors persist rows: the fetch, which streams
chunks, and the caller, which saves what was returned. `FetchIsWorking` shows that every step of the
fetch happens while the worker is fetching, so never after an outcome; a caller that has its outcome
takes no further step.

`GoldBuildProofs` proves of `GoldPublication`, for any number of siblings, builds, errors, interrupts and kills,

* `PublicationTypeCorrectness`: `Spec => []TypeOK`;
* `PublicationIsAtomic`: `Spec => []AllOrNothing`;
* `OldPairsSurvive`: `Spec => []FaultsLoseNothing`;
* `PairsMatch`: `Spec => []NoMixedPair`.

None of the three is inductive: they speak of the end of a publication and do not say what its files are in
between. The inductive invariant describes, phase by phase, the six paths of every sibling: behind `at` a sibling is
finished with the phase, ahead of it untouched, and at it the first `move - 1` operations are done (`SwappedUpTo`,
`InPlace`, `Recoverable`, `Clean`). There is one lemma per action, and in it one step per phase.

and of `GoldRetention`, for any symbols, contents, retention and number of commands,

* `RetentionTypeCorrectness`, `RetentionHolds` (`RetainsUnlessSuperseded`), `DeclarationsHold` (`DeclaredUnlessSuperseded`);
* `RemovalsAreSafe`: `Spec => OnlySupersededRemoved`, an action property.

The invariant adds that what a job has decided to remove is still superseded when it gets to it
(`DoomedSuperseded`: the others remove only superseded directories, of which enough newer ones remain), and that a
job which has published and not yet pruned has its artifact as the newest (`PublishedStands`). The rest is counting:
the newest `Keep` elements of a set number `Keep` if the set is large enough (`FirstMany`), so removing what is not
among them leaves everything removed superseded. The first attempt to prove `DeclaredUnlessSuperseded` failed on an artifact with a fixed version: see
the disagreements below.

`TradeCoverageProofs` proves, for every market, window size, number of minutes and of runs,

* `TypeCorrectness`, `MinutesAreWhole` (`WholeMinutes`), `GapsAreRescanned` (`RescansGaps`).

`GapProgress` is the strengthening: a full-gap run without failures has stored every trade before its horizon that
no window still to fetch holds. It starts true because the planned windows cover every minute that is neither stored
nor marked empty, which needs the division of ranges into windows to leave nothing out; and a
minute taken for covered is whole by `WholeMinutes`.

`BronzeRunProofs` proves, for any tasks, kinds, plans, length of a day and number of faults,

* `TypeCorrectness`, `CheckpointIsSafe` (`SavedIsPersisted`);
* `ResumedRunsAreComplete` (`ResumeIsComplete`), `FullGapRunsAreComplete` (`FullGapIsComplete`).

The invariant says what a run and a checkpoint owe: of every completed task the intervals due are stored
(`RunIsDue`), and likewise of every task the file names (`FileIsDue`), which is what lets a resuming run skip it. A tail
run asks only for what follows the latest stored row, so it also needs that the stored intervals of every day are a prefix
of it (`NoHoles`), whatever was killed in the middle of streaming.

`SilverBuildProofs` proves, for any lists of datasets, number of workers, months, lookback, writes, faults and kills,

* `TypeCorrectness`: `Spec => []TypeOK`;
* `ReuseIsFresh`: `Spec => []ReusedIsFresh`;
* `PublishedPartitionsStay`: `Spec => []PublishedStays`;
* `RunsBringUpToDate`: `Spec => []RunBringsUpToDate`.

None of the three properties is inductive; the invariant has a part for each, and one for directories.

* `ReusedIsFresh` follows from `Sound`: what a manifest declares was computed from what its fingerprint says, *or* the
  fingerprint is `Outdated`, that is, it names a Bronze version that has been replaced. Bronze versions only grow, so an
  outdated fingerprint never matches again (`OlderThan`, `NowIsCurrent`). The same is carried through a job, from the
  fingerprint to the declaration (`JobsSound`), and it is why the fingerprint must be taken before the inputs are read. The
  months a job keeps in memory need an argument of their own: `CachedTable` reads off the tables that a target with
  manifests either reads one month of Bronze and nothing it has kept, or reads Silver alone, which only jobs of the run
  change, and a job that changes what another of its batch reads is a recorded race (`Apart`, `OwnInputsStay`).
* `PublishedStays` follows from `Covered` and `JobsCover`: a job past its first rename either has the previous
  partition aside or found none, in which case nothing is declared (`HereCovered`, one case per step).
* `Directories` says that every file of Silver has its directory, and so has what is being published. Hence a month whose
  inputs hold something is listed (`HeldIsListed`), while a listed month may turn out empty and needs nothing (`EmptyMonth`).
* `RunBringsUpToDate` speaks of the end of a run. `CalmOK` says what a calm run has achieved so far: the earlier months of
  every job are fresh (`JobProgress`), and so is every target that no waiting or running job will build again
  (`Finished`). A job finishes a target when its last month is fresh (`Finishes`), and no later job changes what a
  finished target reads: not its own later stages (`HandlerTable`), not the derived jobs (`DerivedTable`), and the other
  source jobs only if they stand behind it in the list (`InOrder`, `FinishedStays`). That last case is a real one; the
  proof shows that it is the only one, and `RunBringsUpToDate` excepts it by name (`Overtaken`).

`MedallionPipelineProofs` proves, for any pipelines, commands by hand, datasets, rows and failures,

* `TypeCorrectness`: `Spec => []TypeOK`;
* `PipelinesServeTheirData`: `Spec => RunServesItsData`, an action property;
* `MonthsAreWhole`: `Spec => MonthsMatchHistory`, for any window, length of a month and gaps in the rows;
* `TargetsKeepTheirTime`: `Spec => TargetsAreTheFuture`, for any horizon;
* `SilverLooksBack`: `Spec /\ []ReadsApart => PastIsSettled`, and `PipelinesLookBack`: `Spec => PastIsSettled` if nobody runs
  silver-build by hand.

`RunServesItsData` speaks of the last step of a run. The invariant follows the rows a pipeline owes through the layers:
they are in what it has read (`CarriesOwed`), in Silver or Gold as long as nobody else has replaced that with older rows,
and in what the publication result declares (`ResultDeclares`), which nobody can replace, since a pipeline at work holds
the lock (`LockHeld`) and the commands by hand have no publication result. `Selected` says that all that a command builds comes from one
reading of Silver, so that whoever publishes older rows is seen by the history variable `disturbed`. Frames are opaque to
this argument; the others open them.

* `MonthsAreWhole` compares a month built from the months its windows reach into with the one built from the whole
  history. Every minute of a window lies in a month that is given (`InReach`, `SameWindows`), and so does the price before
  it if there is one where the windows begin (`SameBefore`, under `ReachesBack`); hence the same rows of the volatility
  index and of realized volatility (`IvMonthMatches`, `RvMonthMatches`). `iv_rv` is built from partitions, and reading
  some of them gives each minute what the whole dataset gives it, because a minute is in the partition of its month
  only (`MergedAt`). That partitions keep to their months is the invariant (`FramesFit`). Looking for this proof
  showed that an earlier form of the property was false (see the disagreements).
* `TargetsKeepTheirTime` shows that n rows ahead is n minutes ahead, or nowhere: the joined rows are exactly the minutes from
  the first to the last of the sources (`GridOfMinutes`), and on such a grid the rows between two instants are as many as the minutes
  (`AheadOnGrid`, a count by a bijection). The invariant `TargetsStand` carries this from Silver to Gold: the Silver candles are
  those of the rows Silver was built from, because every Silver build rebuilds them; so the join has the price of each of its minutes,
  and no price lies outside (`TargetsJoin`, `PricesStand`); and what a command has read stays good until it publishes
  (`WhatIsRead`), whatever others publish meanwhile.
* `SilverLooksBack` compares what a builder makes of some rows with what it makes of these and later ones (`Continues`). What is
  kept of the Bronze rows agrees before the first later one (`ObservedUntil`: rows that replace each other share their instant),
  so every minute that was over has the same rows (`SameMinutes`), the same last row (`AsOf`), and the same windows and price
  before (`WindowsUntil`); one lemma for each kind of builder ends with what it keeps (`CandlesKept`, `AsOfKept`, `TradesKept`,
  `SurfaceKept`, `IvMonthKept`, `RvMonthSettled`), and `SourceMonthSettled` collects them. The grids of funding, open interest and index
  prices may only grow at their end (`EndsStay`): no instant disappears, since a row goes only for a newer one of its instant. The invariant
  `SourcesStand` says that a dataset was built from the rows Silver remembers, or never, and that whoever has read for
  the next publication builds it again: what it is scheduled for does not disappear (`DataStays`). Two commands that
  have both read and not yet published would break that, the slower one taking rows away from some datasets and not from others;
  `ReadsApart` excludes it. Pipelines are kept apart by their lock (`LockKeepsApart`), silver-build by hand is not.

`NumberLemmas` holds what these share. The library's induction theorems cannot be instantiated here, so
induction is done by a least counterexample: a non-empty set of naturals has a least element
(`LeastNatural`, from the well-foundedness of strict subsets among finite sets, a fact the library states without
an operator parameter). From it follow that every non-empty finite set of integers has a greatest
or least element (`GreatestInteger`, `LeastInteger`) and how many elements precede another in an order (`FewerAhead`,
`FirstOfPart`, `FirstMany`, `FirstFew`, `FullPage`).

The assumptions are those each module names. `FetchAssumption` lists the datasets, takes lengths as positive and other
bounds as naturals, puts start bounds and the span of trades before now, and makes `None` neither a number nor an outcome.
`SilverAssumption` says that there are one to four workers and that a list names existing jobs, each once.
`RetentionAssumption`, `CoverageAssumption`, `BronzeAssumption` and the
`BoundsAssumption`s say that bounds and lengths are naturals (lengths positive), modes are Booleans and a plan has at least one task.
Of `MedallionPipeline`, `PipelineAssumption` tells the processes apart, `RowsAssumption` says that rows lie in the minutes of
the model, finitely many, that a candle opens with its minute and a trade has one time (those of the exchanges do), and its `SilverAssumption` that `SilverIds` has the
inputs of each of its datasets.

Only model-checked: liveness (`Converges`, `Republishes`, `GapsAreFilled`, `Terminates`), which is out of the
prover's reach; and `GoldPastIsSettled`, which does not hold of every choice of the constants: `gold.history.extended`
carries the predictors that change (run `prediction`), and Gold keeps one instrument of several. Its run has the datasets and
markets of which it is meant; the theorem about Silver is the half of it that holds of all.

## Disagreements with the documentation

Two are shown by runs:

* **The last minute of a full-gap run can be marked empty wrongly** (`trades_quiet`,
  `fetch_trade_symbol.py:408`): the last window ends at that minute's first millisecond.
* **Predictors change after the fact** (`prediction`, `silver_historical_prediction.py:157`):
  `historical_prediction` shifts and rolls by rows of the joined sources, and a later open interest adds
  rows between two older candles. The README calls the predictors trailing and ex-ante.

Others bound what a passing property says; its comment names the exception:

* Ctrl-C during a publication destroys the previous pair (`gold_publication.py:129`): the rollback is
  `except Exception`, the clean-up is `finally`. `FaultsLoseNothing` is about the rest.
* A second error inside the rollback loses the previous pair as well (`gold_publication.py:219`): the `finally` clause
  deletes what was moved aside and not yet restored. `AllOrNothing` and `FaultsLoseNothing` except it.
* Retention counts versions of all symbols together (`gold_versioning.py:101`), while `README.md:269` promises
  three per symbol lineage. `RetainsUnlessSuperseded` says what holds.
* An artifact published under a fixed version, after enough automatic ones of its lineage, is pruned by the
  job that published it, and declared by the publication result all the same (`gold_versioning.py:149`).
  `DeclaredUnlessSuperseded` excepts it; the sync then refuses the result.
* Volatility rows after the bootstrap are never persisted (`loader_workflow.py:248`), but their tasks are
  recorded complete; and a run without saving extends a saving run's checkpoint (`loader_workflow.py:101`).
  `SavedIsPersisted` leaves both out.
* Tail windows begin just after the latest stored trade, so a window that then fails leaves a minute half
  stored, which full-gap runs take for covered (`fetch_trade_symbol.py:119`). `WholeMinutes` and `RescansGaps`
  except the minutes a window cut.
* Trades that share a timestamp across a page boundary are skipped (`deribit_perps_trades.py:255`),
  and a volatility request that fails counts as empty (`ingestion/volatility.py:149`).
  `SuccessIsComplete` excepts both.
* A feature built in one batch with its input, or by two jobs, may stay stale (`api/commands/silver.py:836`).
* A job listed before the job that builds its input builds from the old input, and the run ends well: only
  `iv_rv` and `historical_prediction` are moved behind their sources (`api/commands/silver.py:836`).
  `RunBringsUpToDate` excepts such targets (`Overtaken`); the next run catches up.
* After a gap longer than the longest window, the first return of a month built on its own has no price to start from,
  while a build over the whole history would find the one before the gap (`silver_monthly_lookback.py:33`:
  a month reads only the months its windows reach into). An earlier form of `MonthsMatchHistory` denied this; it now requires
  `ReachesBack` of what is made of returns.
* The canonical source of realized volatility is chosen per run, and months already published keep the one they were
  built with (`silver_realized_volatility.py:308`), while the comment above speaks of one source for the symbol. `PastIsSettled`
  excepts the column `rv` when a symbol's first perpetual candle changes the source; the spot-only market of `frames` reaches this.

## Plan

1. Done: `GoldServing`, `PostgresSync` and its proofs; `GoldPublication`, `GoldRetention`, `TradeCoverage`,
   `BronzeRun`; `ExchangeFetch` and its proofs; `SilverBuild`; `SilverFrames`, `GoldFrames`, `MedallionPipeline`.
2. Proofs: done for `PostgresSync`, `GoldPublication`, `GoldRetention`, `TradeCoverage`, `BronzeRun`,
   `ExchangeFetch` and `SilverBuild`: type correctness and every safety property their runs check; for
   `MedallionPipeline`, the same but `GoldPastIsSettled` and the predictors, which do change.
3. `LakeWrites`: read, merge and replace by concurrent writers, refining an idempotent union.
4. `PostgresReconstruction`: locks, scheduler states and compensation.
5. The rest of the Gold build: bump levels, disabled pipeline layers.

## Not modelled

Configuration, argument parsing, plots and reports carry no state. Numeric formulas are abstracted to the rows
they use. Row canonicalisation and hashing are taken as injective. `ensure_lineage` and
`apply_delta` of the repository have no caller in the command. DDL mapping, live conformance checks,
checkpoint key aliases, the JSON and Markdown outputs, payload parsing, the options that restrict a Silver
build to months, the hybrid order-book variants of Gold and the pipeline's disabled layers are left out. A
signal that kills the pipeline (SIGTERM as well as SIGKILL: it handles neither) frees the host lock while the
command it started goes on without it (`run_medallion_pipeline.py:385`, `415`); here it is a failure with nothing left
running, so what such an orphan does beside the next pipeline is not checked.

## Running

    tlc -workers 2 -config MCPostgresSync_sync.cfg MCPostgresSync
    tlapm PostgresSyncProofs.tla
    tlapm GoldBuildProofs.tla
    tlapm TradeCoverageProofs.tla
    tlapm BronzeRunProofs.tla
    tlapm ExchangeFetchProofs.tla
    tlapm SilverBuildProofs.tla
    tlapm MedallionPipelineProofs.tla

Each run of `PROJECT.json` names its module and configuration.
