# Verification of Quant Data

Quant Data keeps financial data in four SQLite files (macro, market, company,
news). Importers prepare batches and publish them through one ingestion
coordinator, a job runner runs several importers in one go, an exporter
publishes an immutable snapshot of the result, and readers ask what was known at
a point in time. Almost everything is one thread of Python per process. What is
hard is what happens between processes, between a commit and what is written
about it, and when a process stops half-way.

This directory holds TLA+ models of those parts, the configurations with which
TLC checks them on small instances, and theorems about most of them, with
proofs that TLAPS checks for every value of the constants. Every definition is
written from the Python and SQL source; paths below are relative to `src/`.
`PROJECT.json` names for each definition the lines it stands for.

| module | what it is | code |
| --- | --- | --- |
| `StoreSessions` | what a write session promises | `quant_data/stores.py` |
| `StoreLocks` | locks, deadline, capability; implements `StoreSessions` | `quant_data/stores.py` |
| `RunLedger` | what the control plane of a store promises | `quant_data/ingestion.py`, `0003_control_plane.sql` |
| `Ingestion` | the coordinator; implements `RunLedger` and `StoreSessions` | `quant_data/ingestion.py` |
| `JobRunner` | one run of a job | `quant_data/operations/job_runner.py`, `job_retry.py` |
| `JobEvidence` | the files that a job run leaves | `quant_data/operations/job_receipts.py` |
| `Migrations` | initialisation of the stores | `quant_data/migrations/__init__.py` |
| `AtlasExport` | publication of a snapshot | `quant_data/atlas/exporter.py` |
| `Temporal` | availability at a cutoff | `quant_data/temporal.py` |
| `DailyPrices` | version chains and as-of answers | `quant_data/market/daily_prices.py` |
| `VersionLog` | what a store of versions promises | the importers, immutability triggers of `migrations/` |
| `Versions` | version chains and their reading, as the stores below share them | `quant_data/temporal.py` and the repositories |
| `Catalog` | instruments, classifications, universes | `quant_data/market/catalog.py` |
| `Options` | captures of option surfaces; extends `Catalog` | `quant_data/market/stage4_options.py` |
| `FmpStore`, `FmpPrices` | FMP bars and their importer | `quant_data/market/fmp_daily_prices.py` |
| `Macro` | releases, observations, omissions | `quant_data/macro/` |
| `Company` | issuers, filings, facts, earnings | `quant_data/company/` |
| `News` | items and their revisions | `quant_data/news/` |
| `Histories` | the six above, side by side; implements `VersionLog` five times | |
| `SourceReceipts` | the audit of collector receipts | `quant_data/operations/backup.py` |
| `AtomicCopies` | what a backup, a restore and an export promise | `quant_data/operations/backup.py` |
| `Backup` | backup, restore and read-only copies; implements `AtomicCopies` | `quant_data/operations/backup.py` |
| `Repopulation` | the reviewed backfill; extends `FmpStore` | `quant_data/operations/manual_backfill.py`, `repopulation.py` |
| `Operations` | `Backup` and `Repopulation` side by side | |
| `Dispatcher` | the HTTP service over the tools | `quant_data/boundary/` |
| `StoreLocksProofs`, `IngestionProofs`, `MigrationsProofs` | theorems about the module they are named after | |
| `JobsProofs` | theorems about `JobRunner` and `JobEvidence` | |
| `OutletProofs` | theorems about what leaves the stores: `AtlasExport`, `Dispatcher`, `DailyPrices` | |
| `OperationsProofs` | theorems about `SourceReceipts`, `Backup`, `Repopulation` and `FmpStore`, as `Operations` runs them | |
| `HistoriesProofs` | theorems about `Catalog`, `Options`, `FmpPrices`, `Macro`, `Company` and `News`, as `Histories` runs them | |
| `Folding` | lemmas: what a fold over the entries of a capture is | |
| `MC*` | small instances for TLC | |

## 1. Inventory

Under each part: the state it keeps, its operations, who it talks to, what is
hard about it, and what makes it correct.

### Physical stores and write locks (`stores.py`) - modelled

- State: one lock file for each store, an advisory `flock` on it in the kernel,
  a capability object (`HeldWriteLocks`) with a mutable `active` flag.
- Operations: `acquire_write_session`, `acquire_write_locks`, `StoreWriteLock`,
  `writer_connection` under a held capability, release, death of the process.
- Used by: ingestion, migrations, job runner, backup. Every write goes through it.
- Hard: several stores are taken one by one; a capability is an ordinary object
  that outlives its `with` block; one deadline for the whole set.
- Correct when: one writer per store, no deadlock, nothing left after a failure,
  every call ends within its deadline.

### Ingestion coordinator (`ingestion.py`) - modelled

- State: `ingestion_runs`, `ingestion_run_outputs`, `ingestion_run_failures`,
  `ingestion_checkpoints`, the dataset registry rows of the store.
- Operation: `execute` - unlocked look for an exact replay, store lock,
  `BEGIN IMMEDIATE`, second look, running row, the importer's writer callback,
  success row and checkpoints, commit; or rollback and a separate transaction
  that records the failure.
- Used by: all importers, directly or in the session of a job runner.
- Hard: the first look is not under the lock; an alarm of the job runner may go
  off anywhere, also just after the commit; the failure record may fail itself.
- Correct when: each piece of work is published once, a run id is spent on a
  success or a failure and never both, the caller is told the truth.

### Job runner and retry policy (`job_runner.py`, `job_retry.py`) - modelled

- State: per step its attempts, elapsed time, candidate, publication, receipt;
  the job's clock; whether the write session is open.
- Operations: prepare each step with retries, open one session over all stores
  of the job, publish the prepared steps in order, build and publish evidence.
- Talks to: `FixtureStepExecutor` (prepare, publish), `acquire_write_session`,
  `publish_job_evidence`.
- Hard: an exception of `publish` does not tell whether the store was committed;
  dependencies are asked about twice; four budgets run down at once.
- Correct when: dependents publish only after their predecessors did, the
  receipt is acceptable to its own classes and says nothing untrue, the session
  is not held past the deadline, every run ends.

### Private job evidence (`job_receipts.py`) - modelled

- State: files in a private directory: event logs, success markers of a monthly
  period, receipts. Each is linked into place and never replaces another.
- Hard: names are looked at before the job and linked after it, with no lock in
  between; a failing run takes its files back; `fsync` may fail after the link.
- Correct when: a receipt is visible only with its log and marker, a period has
  one success, no run touches another run's files.

### Migrations and store initialisation (`migrations/__init__.py`) - modelled

- State: `schema_migrations`, the relations, `dataset_registry` and
  `dataset_identity_contracts` of each store.
- Operations: `initialize_all` = migrate each store, then register each store's
  datasets, each under the store's lock taken anew, each migration and each
  registration one transaction.
- Hard: two initialisers of different versions at once, or one after the death
  of the other.
- Correct when: a store never holds a mixture of two chains, and no dataset is
  registered before its relations exist.

### Atlas exporter (`atlas/exporter.py`) - publication protocol modelled

- State: the publication lock, staging directories, receipts, revisions, the
  `current` pointer.
- Hard: five things become visible one after another and any call may fail.
- Correct when: what `current` names is complete, every revision has an intent
  on record, pointers form a chain, leftovers do not block a new attempt.

### Temporal values and daily prices (`temporal.py`, `market/daily_prices.py`) - modelled

- State: `instrument_identifiers`, `prices_daily_versions`, `prices_daily`.
- Operations: `publish_prepared`, latest and as-of queries.
- Hard: corrections arrive in any order; the answer for an earlier cutoff must
  not change under later publications; dates and timestamps are compared.
- Correct when: versions form one chain that ends in the current pointer, stored
  bars are reachable by symbol, earlier answers are stable.

### Backup, restore, read-only copies (`operations/backup.py`, `fingerprint.py`, `operations/health.py`) - modelled

- State: the four stores of each root, the manifest of a cohort in the caller's
  hands, the evidence read under the locks.
- Operations: `backup_all`, `restore_all`, `capture_readonly_copies`, with the
  audit of the source's collector receipts.
- Hard: health and the empty target are looked at before the locks are taken;
  nothing is cleaned up after a failure; a backup may be written to or damaged
  between its making and its restore; the audit orders runs by completion time
  although they are published in another order.
- Correct when: all four copies are of one instant, no file is written over, a
  restore is the backup, an export rests on a complete and reconciled baseline.

### Reviewed backfill (`operations/manual_backfill.py`, `repopulation.py`) - workflow modelled

- State: one fixed target root with new stores, a backup, two restorations and a
  receipt.
- Operation: fetch, publish, read back, replay, back up, restore twice, rehearse
  a correction, publish the receipt; in that order, each step may fail.
- Hard: the root is checked before a long network call and filled after it; an
  attempt that stops leaves what it has made.
- Correct when: the receipt stands for what is on disk, and an attempt is never
  refuted by its own evidence.

### FMP daily prices (`market/fmp_daily_prices.py`) - modelled

- State: captures, bar versions, current bars; the candidates importers hold.
- Operations: `prepare` with no lock, `publish` later in one run.
- Hard: candidates wait side by side and are published in any order; identity
  leaves out the time of capture.
- Correct when: the current bars are one capture's, and each history is sound.

### Catalog and universes (`market/catalog.py`), options (`market/stage4_options.py`) - modelled, one reader left out

- State: identifier intervals, classification chains, membership chains with
  tombstones; option contracts, captures with rows and inputs, bar versions.
- Hard: an authoritative batch ends what it does not name; universes are read by
  pointer and as of a cutoff; a capture is read member by member at a cutoff.
- Correct when: both ways of reading agree, omissions end exactly what is left
  out, a capture is read whole.

### Macro, company, news (`macro/`, `company/`, `news/`) - publication and reading modelled

- State: series, releases, chains of each observation and release, current
  pointers, projections; issuers, symbol assertions, filings, facts,
  fundamentals, actions, earnings; items with labels and a full-text index.
- Operations: one publication for each reviewed capture, whole or not at all;
  readers with a cutoff, the latest and the first release.
- Hard: releases come out of order and are corrected; facts, filings and mappings
  come in different captures; a concept is mapped to several metrics; a symbol
  changes hands; items return.
- Correct when: an answer as of a cutoff changes only by what was available then;
  pointers name what readers rank latest; derived rows rest on stored ones.

### Tool dispatcher and HTTP boundary (`boundary/`) - modelled

- State: a class-wide pool of execution slots, a thread-local with the times of
  the last call.
- Hard: slots are taken without waiting and have to come back on every way out;
  the receipt is built by another method than the call; neither reading a request
  nor writing a response has a timeout.
- Correct when: slots are conserved, a receipt has the times of its own call, and
  every request that was read gets an answer, which a client may then leave unread.

### Not modelled

| part | why not |
| --- | --- |
| Tool platform (`tool_platform/`), but for how a call ends | pure functions of a request and of rows read; nothing is kept between calls |
| Registry and contracts (`registry.py`, `contracts.py`, `schema.py`, `json_codec.py`, `errors.py`, `fixtures.py`) | loads and validates one immutable document; its result is what the other modules take as constants and assumptions |
| Normalisers of source files (`macro/stage3_normalizers.py`, ...) | parsing: a constant of a model is what they return |
| Dashboard, Atlas projections, static site | read-only rendering |
| Composition, commands, stage drivers | call the other parts once; no state of their own |

### How the parts interact

```
 readers (tools, dashboard)          atlas exporter --- copies ---+
        |  query-only snapshots            | publication lock     |
        v                                  v                      v
 +-------------------------- four stores (SQLite) ---------------------------+
        ^ one transaction                     ^ migrations, registration
        |                                     |
 ingestion coordinator <--- importers    initialize_all
        ^  store lock or capability           |  store lock
        |                                     |
 job runner --- one write session over its stores --- stores.py (flock)
        |
        +--- evidence: log, marker, receipt
```

Processes share nothing but files: the stores, the lock files, the evidence and
export directories. Within a process the parts call each other directly; the
only callback that comes on its own is the alarm of the job runner (`SIGALRM`),
which surfaces as an exception wherever the call happens to be.

The hazards that follow from this are listed in `PROJECT.json` under
`hazards`, each at its line, with the properties that would notice it.

## 2. Modules and code

### StoreLocks, StoreSessions

| code | model |
| --- | --- |
| `flock` of each lock file | `holder` |
| program counter of `acquire_write_session` | `pc`: idle, acquiring, active, releasing |
| `identities`, `acquired`, deadline | `want`, `acquired`, `left` (in polls) |
| `_HeldWriteLocksState.active`, the stores of the capability | `active`, `granted` |
| a write transaction on a connection | `writing` |
| entering, a successful `flock`, a poll that sleeps, the deadline, an `OSError` | `Begin`, `Lock`, `Sleep`, `GiveUp`, `OpenFails` |
| yield of the capability, end of the `with` block | `Grant`, `Leave` |
| one turn of the release loop, return | `Unlock`, `Return` |
| a coordinator opens or ends a transaction | `OpenWrite`, `CloseWrite` |
| death of the process | `Crash` |

`OpenWrite` is guarded by `Covers` only, as in the code: a caller may keep the
capability and show it again when its session is over. A call with an empty set
raises before it changes anything and is not an action. `Sleep` may be woken
later than asked. The abstract `StoreSessions` knows only whole sessions and open
transactions; `SessionsSpec` says that `StoreLocks` implements it, with a session
read as the capability while it is live.

### Ingestion, RunLedger

| code | model |
| --- | --- |
| `ingestion_runs` with status succeeded, with their outputs | `ledger` |
| `ingestion_run_failures` | `failures` |
| `ingestion_checkpoints` | `checkpoint` |
| the store's write lock and `BEGIN IMMEDIATE` | `lock` |
| where the call of `execute` is | `pc` |
| the metadata of the call | `req`: run id, dataset, identity, outputs |
| the alarm of a job runner | `armed`, `Alarm` |
| what the call returned or raised | `answer` |
| whether the commit was reached (known to nobody but the store) | `committed` |

The actions are the stretches of `execute` that other processes can tell apart:
`Gate` (unlocked read), `Enter`, `LockTimeout`, `Start` (everything up to the
running row, with its four refusals), `Write` (callback, validation,
control-plane rows), `Commit`, `Return`, `Record` (the failure transaction). A
caller in `Runner` has opened a session around its calls and presents the
capability. What a writer changes in its domain tables is in the modules of those
tables; here a transaction takes effect as a whole or not at all.

### JobRunner

One run of `OfflineJobRunner.run`. `phase` and `cur` say where it is; `receipt`,
`publication`, `prepared`, `attempts`, `spent` are the fields of `_StepState`;
`now` is the job's clock in ticks. `Attempt`, `Accept`, `Retry`, `GiveUp`,
`Block` are the loop of `_prepare_all`; `LocksRefused`, `LocksGranted`,
`PassOver`, `PublishBlocked`, `PublishTooLate`, `PublishBegin`, `Commit`,
`Return`, `Raise`, `EndPublish`, `Release` that of `_publish_all`;
`BuildReceipt` is `_build_receipt` with the checks of the receipt classes.
`committed` is the truth of the stores, which the program does not have: it is
there to compare the receipt with. The executor is the environment: a call
succeeds, fails with one of a set of codes, or is cut short by the alarm, before
or after its commit.

### JobEvidence

`file` maps each name to the run that linked it. `Preflight` is the look before
the job, `Work` the job, `Recheck` the look before publication, `Link`,
`Conflict`, `StageFails`, `Seal`, `SealFails` the steps of `_publish_bytes`,
`Undo` and `Fail` the way back. `stained` records runs for which the disk failed
after a link, since nothing can be promised about those. A run id or a marker
period may belong to several runs.

### Migrations

`ledger` is `schema_migrations` of each store as a sequence of digests,
`datasets` the registered ids with their identities. An initialiser goes through
the stores once to migrate (`Open`, `Reconcile`, `Apply`, `EndMigrate`) and once
to register (`Open`, `Register`). Any action may give way to `ApplyFails`,
`RegisterFails`, `LockTimeout` or `Crash`, and the initialiser may `Begin` again.
A migration is the set of tables and views it creates; a reviewed registry
declares the relations its own chain creates.

### AtlasExport

The steps of `_publish_locked` in their order: `ReadPointer`, `Stage`, `Build`,
`PrecommitReceipt`, `Promote` or `Reuse`, `OpenUp`, `Clean`,
`PublicationReceipt`, `Point`. A receipt is written to a temporary file and
linked; both steps are in the model. `FailEarly`, `Fail` and `CleanUp` are the
exception paths, `Die` the end of the process. What a revision holds is settled
by its id.

### DailyPrices, Temporal

| code | model |
| --- | --- |
| the run of a batch in the control plane | `ledger` |
| `instrument_identifiers` | `identifiers` |
| `prices_daily_versions` | `versions` |
| `prices_daily` | `current` |
| `publish_prepared` in one transaction | `Publish` |
| rollback and failure record | `Fail` |
| `_latest_rows`, `_as_of_rows` | `Latest`, `AsOf` |
| `availability_at_or_before` | `Included` |

The publication of a batch is one action: that the coordinator makes it so is
what `Ingestion` is about. `Publish` includes the triggers that can refuse it: an
identifier interval that overlaps another of its symbol, and a second request row
for one artifact. A temporal value has a written day and, for timestamps, an
instant that orders timestamps independently of the day they are written with.

### SourceReceipts, Backup

| code | model |
| --- | --- |
| the store files of a root | `disk`; a store is its health facts and one ledger |
| the write locks of all stores of a root | `lock` |
| where a call is, what it read under the locks | `op` |
| manifests returned by `backup_all` | `cohorts` |
| argument checks, health of the source, empty target | `BeginBackup`, `BeginRestore`, `PrepareTarget`, `TargetUsed` |
| locks, receipts or cohort compared, one copy for each role | `Lock`, `Evidence`, `EvidenceRefused`, `Copy`, `CopyRefused`, `CopyBreaks` |
| source unchanged, locks given back, target compared | `Release`, `Differs`, `Finish` |
| a collector publishes or fails; a page is torn | `Write`, `Damage` |
| `_required_source_receipt_checks` | `Accepted` |

The locks of a root are one variable, since all of them are taken in one session
(`StoreLocks` has them one by one). The abstract `AtomicCopies` knows a call that
takes all stores of its source at one instant and has exactly these in its target when
it succeeds; `CopiesSpec` says that `Backup` implements it, and the instant is the one
at which the locks are given back. A ledger is what one store says of one
dataset: succeeded runs in the order of publication, each with the completion time
its collector reported, and the times of failures.

### Repopulation, FmpStore, FmpPrices

`FmpStore` is the store as the importer writes it (`Written`, `Replayed`) and as
the evidence reads it back (`Reconciles`, `CapturedPrices`, `Corrects`).
`FmpPrices` is any number of importers over one store: `Prepare`, `Publish`, a
failure. `Repopulation` is one importer in the workflow of the backfill: `target`
is the root with its stores and receipt, `at` where each attempt is; the actions
are its steps in order, and `Stop` is an error or a crash at any of them.
`Operations` puts `Backup` and `Repopulation` side by side; `command` names the
one a behaviour is about, because the stores the workflow makes are reachable to
nobody before its receipt.

### Catalog, Options

`catalog` is the instruments, identifier intervals, classification versions and
membership chains; `Import` publishes a batch that parses (`Parses`) and is in
conflict with nothing stored (`Writes`), `ImportFails` spends its identity.
`options` is the contracts, captures and bar versions; `Publish` needs the
underlying to be in the catalog. The readers are `Eligible`, `Classification`,
`MembersLatest`, `MembersAsOf`, `GetCapture`.

### Macro, Company, News

Each has one state record, one publication and one failure action over a constant
table of reviewed captures, and its readers. `Macro.chains` has a chain for each
place (series, period, area) and release, `current` the pointer;
`WithVersion`, `ShouldMove` and `TombstoneEntries` are the importer's rules,
`Select` its reader's. `Company.chains` keys issuers' names, symbol links, facts,
fundamentals, actions and earnings; `SecWrites` and `EarningsWrite` hold the
refusals of code, triggers and the filing-issuer view. A mapping is stored by
version, concept and metric, as in the table, and a fact asks for one by version
and concept: `Matching` are those it may get, and a publication chooses one for each
version and concept (`Lookups`), since `_lookup_mapping` fetches the first row
without an order. `News.items` are chains of
item versions; the full-text index is a filter of what is selected without it.
The tables are constants because a capture is a reviewed file; that they may be
published in any order, once, refused or failed, is in the actions.

`Histories` puts the five stores side by side; `part` names the one a behaviour is
about, because they share no table (`Options` reads the catalog, and is one part
with it).

### Dispatcher

`free` is the semaphore, `at` where the thread of a connection is, `timing` the
thread-local. `Accept`, `Read`, `TurnDown`, `AcquireSlot`, `Check`, `Compute`, `Leave`
(the `finally` of `call`), `ReceiptFor` (`receipt_for`), `Respond`. A request is the
place where the code turns it down, or the kind of tool it asks for.

## 3. What the runs check

Each passing run explores every reachable state of its instance.

| run | instance | distinct states |
| --- | --- | --- |
| `store_locks` | 2 processes, 2 stores, deadlines up to 2 polls | 119,012 |
| `ingestion` | a runner under an alarm and a plain caller, 5 requests, 3 datasets | 82,262 |
| `job_runner` | 3 steps over 2 stores, the third needs the others | 412,483 |
| `job_evidence` | 3 runs, two of one period, two with one run id, disk faults | 902,869 |
| `migrations` | 4 initialisers of 4 registries, 2 stores | 125,776 |
| `atlas_export` | 3 publishers, two with one content, two with one attempt id | 28,267 |
| `daily_prices` | 6 batches, 2 symbols, 3 days, 10 cutoffs, 2 policies | 1,224 |
| `operations` | 2 calls over 3 roots and 2 stores; 17 beginnings; 2 attempts of the backfill | 442,658 |
| `histories` | 8 company captures and more of each other store, all orders | 34,388 |
| `service` | 3 connections, 2 slots, 6 kinds of request | 152,683 |

- `store_locks`: `NoCircularWait` for opposite request orders; `SessionsSpec`, by
  which no two processes write one store, a stale capability included;
  and under fairness `CallEnds`.
- `ingestion`: `AnswerTrue`, also when the alarm goes off around the commit;
  `LedgerSpec`, against the unlocked look too; `SessionsSpec`, so that the coordinator
  writes only inside the sessions that `StoreLocks` provides; and `CallAnswered`.
- `job_runner`: `DependentsOnlyAfterSuccess`; `ReceiptAccepted` on every failure
  path; `ReportedIsCommitted`, also when the session breaks on the way out; and
  `RunEnds`.
- `job_evidence`: `DoneComplete`, `ReceiptIsCommitPoint`, `OneSuccessPerPeriod`.
- `migrations`: `NoMixture` for the chains; `DoneMeansReady`, also against a registry
  that has the same chains and another identity for a dataset.
- `atlas_export`: `CurrentIsBacked`, `RevisionHasIntent`, `PriorIsReplaced`, and
  `FreshAttemptNotBlocked`: whatever earlier calls left behind, an attempt with
  an id of its own always has a next step up to the commit.
- `daily_prices`: `ChainSound`, `AsOfStable`.
- `operations`: `LiveHoldsStill` (a copy of the operational stores never finds them
  changed), `NothingOverwritten`; `ExportRestsOnCheckpoint` and
  `SuccessReopensExport`: the audit lets no hole through and no failure closes it
  for good; `CopiesSpec`: copies made one by one in a target that others may use are
  copies of one instant, and of the stores that a restore was asked for, also when the
  backup was written to or damaged since; `BackfillSound`.
- `histories`: `HistoriesAsOfStable`, one statement for all readers with a cutoff;
  `SymbolOneIssuer` and `FundamentalRests` for companies; `CurrentIsLatest` for
  macro; `CurrentIsAsOfEnd` for universes; `CaptureReadWhole` for options, by calendar
  days that are over and times of one offset; `BarsAreCaptured` for FMP bars;
  `FirstReleaseStands` for the readers of first releases, against corrections of a
  first release and releases loaded late; `StoresAreLogs`: five kinds of chains
  (company, news, macro, classifications, memberships) implement `VersionLog`, each by
  itself.
- `service`: `SlotsConserved`, `ReceiptIsOwn`, and under fairness `RequestAnswered`: it
  ends where the response is ready, as nobody can promise that a client reads it.

### Bounds, and why they are enough

- Locks: a circular wait needs two processes and two stores, and so does a set
  that is gathered in part. Two polls let a call wait for each of
  two locks in turn; that both waits share one deadline is a theorem (`OneDeadlineHolds`).
  The proofs remove all of these bounds.
- Ingestion: a race for one piece of work needs two callers; the requests share
  identities, run ids and outputs in every way the guards distinguish, and one
  names an output that is not registered. The proofs remove these bounds.
- Job runner: the third step has two predecessors, so that one may succeed and
  one fail, and two steps share a store. The budgets are smaller than the sum of
  what may be spent, so each of them (step, job, cap, lock wait) runs out in some
  execution; `Slack` lets an alarm be late. Two codes stand for each kind of
  fault: one retried and one not, with different exit codes.
- Evidence: two runs suffice for a conflict on a name; the third meets the undo
  of the second under a neighbouring name.
- Migrations: three of the registries are the relations a stored chain can have to
  one's own: equal, a beginning of it or longer, and forked; the fourth differs from
  the first in nothing but the identity of a dataset.
- Atlas: two publishers may share a content or an attempt id; three make both
  happen in one execution. A publisher calls once; a retry is another publisher.
- Daily prices: the batches hold a base, a correction, a late older release that
  says again what the base said, a batch that begins earlier, a second reading of
  an artifact, and another symbol, with dates and with timestamps whose written
  day is before, on and after the day of their instant. All orders are explored.

- Operations: two calls are enough for a race over a target, for a restore that
  meets the making of its backup, and for a retry; two stores for a copy that
  stops between them. The audit compares times of a selected run, a baseline,
  runs between and failures; the histories put each of these before, at and after
  the others (three runs, three times). Calls that share a target copy from one
  source (`OneSource`): an assumption about the operator, see the observations.
  `MaxLedger` stops the collectors, whose
  further runs would repeat what the long histories begin with.
- Backfill: the two attempts may overlap or follow one another; two dates and two
  prices tell apart an answer, a reordered one and a corrected one.
- Histories: each table has the capture that begins a history and one capture for
  each thing later ones may do to it: correct, restate, omit, retract, return,
  redate, rename, clash. Every order is explored, the refused ones included;
  cutoffs are days and instants before, on and after each of them. Projections of
  soma, recession and calendar captures are of the two shapes that the gdp and
  treasury captures of the instance have, and generic captures have none.
- Service: with one connection more than there are slots a call is refused while
  others come and go; a second slot lets two calls overlap.

### Deadlock and fairness

Deadlock is checked for `store_locks`, `ingestion`, `migrations` and `service`, in
which some actor can always begin again (of two forked registries one initialiser fails and
retries). The other systems may stop: a job run, a publisher and an
evidence run end, an operator's calls end, and all batches and captures may have
been submitted.

- `StoreLocks`: weak fairness of each process inside `acquire_write_session`.
  The poll loop sleeps 20 ms at a time and looks at the clock, so a call that is
  polling goes on polling. Nothing is assumed of the body of a session, nor that
  a free lock is ever won: `CallEnds` holds with a holder that never lets go.
- `Ingestion`: weak fairness of each caller's own steps inside `execute`; the
  lock wait has a deadline and the rest is bounded work on a local file. Neither
  alarms nor new calls are assumed.
- `JobRunner`: weak fairness of the whole, for it is one thread; calls of the
  executor are ended by the alarm, sleeps and waits by their deadlines.
- `Dispatcher`: weak fairness of each thread from the moment it has its request
  until it has a response: nothing in between waits for another. Clients owe nothing,
  neither a request nor the rest of a body, nor that they read: the handler sets no
  socket timeout, so `Respond`, which ends with the write, is in the next-state
  relation and not in the fairness. A thread that waits for its client holds no slot
  (`SlotsConserved`). The server owes no accept.
- The other specifications have no fairness and no liveness property.

### Defective variants

Modules with properties contain a section of defective variants, each a bug the
code might have had: a clock that is not read, a capability that is kept, a retry
too many, a revision promoted before its intent is on record. None of them is
used by a specification. For every property of a passing run `PROJECT.json`
names a definition and the variant with which the property fails in that run.

### Where code and documents disagree

Two runs end in a counterexample on purpose; each is an entry of `findings`.

- `atlas_export_readable` (`CurrentIsReadable`): after a death between renaming a
  revision and opening it up, the next attempt reuses the closed directory and
  moves `current` to it (`docs/rebuild/ANALYTICAL_EXPORTS.md:333`).
- `histories_scope` (`OmissionInScope`): a complete retail capture of one area
  tombstones members of other areas of the same month, of which it says nothing
  (`docs/rebuild/DATA_AND_TIME_CONTRACTS.md:351` and `:356`).

Other observations made on the way, which no run states:

- A run id with a failure record is refused for ever, and importers derive the run
  id from the content, so a candidate that failed once for a passing reason cannot
  be published again; `docs/rebuild/SCHEDULING_AND_LOCKING.md:280` expects the
  next cadence to retry. `Start` has the refusal.
- An exception that comes after a commit leaves the step without run and store in
  the receipt; `SCHEDULING_AND_LOCKING.md:351` and `:362` require them.
  `ReportedIsCommitted` is the direction that holds.
- Of two monthly runs of a period at once, the second publishes its data and gets
  no receipt (`SCHEDULING_AND_LOCKING.md:347`).
- Versions of bars are numbered by ingestion, so an older release that arrives late
  is selected in place of the newer one
  (`docs/adr/0004-point-in-time-availability-model.md:73` and `:145`).
- The identity of an FMP capture is its prices: after A and then B, a capture that
  says A again is taken for a replay and B stays current.
- The current projection of retail sales follows the order of publication, the
  current observation the order of releases; after a late older release the two
  tell different values.
- An option capture that says only its day can be read at an instant of that day
  before all its members can, as its day counts as reached and their times do not;
  so can one whose times are written with different offsets, since a date is
  compared with the written day. `CaptureReadWhole` leaves both out.
- Rows of the recession projection are never replaced, so a recession that was
  stored as ongoing stays so.
- A news item that says again what an older version of it said is refused, and its
  whole snapshot with it, since versions are unique by content.
- Any batch overwrites the name of an instrument it lists, authoritative or not.
- A mapping's id has its metric in it (`company/stage4_importer.py:2013`), so a capture
  that maps a stored concept to another metric adds a second active mapping, where one
  capture may not have both (`:1332`). `_lookup_mapping` (`:2116`) then takes either, and
  a correction of a fact may count under another metric than the fact did: the chain
  of the first metric keeps the old value as its newest. `remaps` in `MCHistories` is
  such a capture. What does hold is that a fundamental's metric is one its concept
  was mapped to (`FundamentalRests`), by the lookup alone: the trigger on fundamentals
  compares the mapping's metric and not its concept.
- Two copying calls with different sources and one target are not kept apart:
  between the look for a file and the copy (`operations/backup.py:183` and `:206`) the
  other call may put its store there, and the copy overwrites it. Calls with one source
  are ordered by its locks. A backup that was returned and then overwritten is
  refused by `restore_all`, which compares it with the cohort's manifest.
- The times of a request with an empty tool name stay in the thread-local;
  harmless, as each connection has a thread of its own.

- A batch that begins before the stored validity of its symbol is refused by the
  interval trigger as a whole; `FirstDay` and `Overlaps` show it. Adding earlier
  history for a known symbol is therefore not possible through this importer.
- A second normalisation of the same bytes is refused too: the artifact id is
  unique in the request table (`ArtifactTaken`).
- A death between marker and receipt leaves a monthly period that `preflight`
  refuses from then on.
- An exact replay that is noticed by the second look is answered inside
  `BEGIN IMMEDIATE`, where `SCHEDULING_AND_LOCKING.md:294` wants no write
  transaction; nothing is written.
- The registry insists on `overlap_policy` `ignore_new`; the runner does not read
  it. The documents speak of jitter; the retry policy has none.

## 4. What is proved

The proofs hold for every value of the constants that satisfies the named
assumptions. Seven modules extend the modules they are about; the eighth, `Folding`,
is used by `HistoriesProofs`. For each specification one formula (`IInv`, or named
after its store) holds initially and is kept by every step, and the theorems follow
from it.

| property of a run | theorem in | property of a run | theorem in |
| --- | --- | --- | --- |
| `NoCircularWait`, `SessionsSpec` | `StoreLocksProofs` | `AnswerTrue`, `LedgerSpec`, `SessionsSpec` | `IngestionProofs` |
| `DependentsOnlyAfterSuccess`, `ReceiptAccepted`, `ReportedIsCommitted`, `DoneComplete`, `ReceiptIsCommitPoint`, `OneSuccessPerPeriod` | `JobsProofs` | `CurrentIsBacked`, `RevisionHasIntent`, `PriorIsReplaced`, `SlotsConserved`, `ReceiptIsOwn`, `ChainSound`, `AsOfStable` | `OutletProofs` |
| `LiveHoldsStill`, `ExportRestsOnCheckpoint`, `SuccessReopensExport`, `NothingOverwritten`, `CopiesSpec`, `BackfillSound` | `OperationsProofs` | `NoMixture`, `DoneMeansReady` | `MigrationsProofs` |
| `SymbolOneIssuer`, `FundamentalRests`, `CurrentIsLatest`, `CurrentIsAsOfEnd` | `HistoriesProofs` | `CaptureReadWhole`, `BarsAreCaptured`, `HistoriesAsOfStable`, `FirstReleaseStands`, `StoresAreLogs` | `HistoriesProofs` |

Some theorems state invariants that no run lists. `OneWriter` and
`RestoreIsTheBackup` follow from the refinements `SessionsSpec` and `CopiesSpec`, which
the runs check; `FreshWhileWriting` is what `LedgerSpec` rests on; the others are about
one operation each.

### StoreLocksProofs

For any processes, stores and deadline: `TypeCorrect`, `OneWriterHolds`,
`CapabilityBackedHolds`, `NothingLeftHolds`, `NoCircularWaitHolds`,
`OneDeadlineHolds`, `ConflictIsRealHolds`, `RevokedBeforeReleasedHolds` and
`ImplementsSessions`.

- Assumed: the positions of the stores in URI order are distinct naturals with a
  greatest one (`UriAssumption`), a deadline is a natural, nobody is no process.
- The invariant `IInv` adds two things to the types. `LocksAgree` with `PhaseOK`:
  the kernel's holders are exactly the calls' lists, and a capability is live
  only where all it names is held; without it `OneWriter` is not inductive, since
  nothing would tie an open transaction to a lock. `Upwards`: what a call holds
  is below what it still wants.
- `NoCircularWait` follows from `Upwards` by going to the process of the group
  that polls the highest lock: whoever holds that lock polls a still
  higher one. It uses well-founded descent on a measure over the naturals, with the
  greatest position as its top.
- The refinement maps `Grant` to `Begin` of `StoreSessions`; the set of a
  session is free there because holders are unique.

### IngestionProofs

For any callers, runners, requests and datasets: `TypeCorrect`,
`OnePerIdentityHolds`, `SuccessOrFailureHolds`, `FreshWhileWritingHolds`,
`OneTransactionHolds`, `CheckpointSoundHolds`, `AnswerTrueHolds`,
`ImplementsLedger` and `ImplementsSessions`.

- `Owner`: whoever is between `BEGIN` and the end of its call holds the lock. So
  there is one such caller.
- `Fresh`: what it saw at the second look still holds when it commits, because
  nobody else could publish or record a failure in the meantime. `OnePerIdentity`
  and `SuccessOrFailure` are inductive only with it. The alarm just after the
  commit is the delicate case: the failure record it asks for is refused because
  the run id is already in the ledger.
- `Told`: what an answer depends on is never taken back, as the ledger and the
  failures only grow.
- `ImplementsSessions` closes the gap between this module, in which the lock of the
  store is one variable, and `StoreLocks`: a caller's rows are in a transaction only
  while the lock is its own, and whatever ends a call under a lock of its own, the
  alarm and a death included, ends the transaction first.

### JobsProofs: a run of a job

For any number of steps, any acyclic dependencies, stores, budgets, delays and
faults: `TypeCorrect`, `DependentsOnlyAfterSuccessHolds`, `ReceiptAcceptedHolds`
and `ReportedIsCommittedHolds`.

- Assumed: a step depends on earlier ones only (the registry lists steps in order
  and is validated), times are naturals, and no fault has the code of a timeout,
  which the runner alone raises.
- `StepOK` ties the records of one step together: a receipt passes the checks of
  `StepReceipt`; a good one says what the step's publication says; a publication
  that wrote has committed its store, under a session over all stores of the job; and
  what is prepared has been attempted.
- `StartOK`, `PrepareOK` and `PublishOK` say how far the two loops are: which steps
  are settled and which are untouched. `PublishOK` carries the fact that
  `DependentsOnlyAfterSuccess` needs: a call of `publish` is under way only for a step
  of which no predecessor has failed, when every predecessor has its receipt.
  And the exit codes of all steps are known by the time the receipt is built.
- `ReportOK` connects the receipt of the job with the records it was built from.

### JobsProofs: the evidence of a run

For any runs, run ids and periods, shared or not, with or without a failing disk:
`EvidenceTypeCorrect`, `DoneCompleteHolds`, `ReceiptIsCommitPointHolds`,
`OneSuccessPerPeriodHolds`.

- `OwnerOK` compares what a run believes it has linked (`made`) with the names it
  owns on disk. What it believes it owns, it owns; it owns nothing that it would
  not publish; and, unless the disk failed it, nothing beyond what it believes and
  the name it is linking. The three together make an undo exact, newest first.
- `ReceiptIsCommitPoint` is then a fact about the order of `Targets`: the receipt is
  the last of what a run makes and the first of what it takes back. It holds at
  each moment of an undo too.

### MigrationsProofs

For any registries, number of stores and initialisers: `TypeCorrect`,
`NoMixtureHolds`, `DoneMeansReadyHolds`, `NothingTakenBack`.

- Assumed: there is at least one initialiser, and a reviewed chain is a sequence of
  known migrations for each store (the registry enumerates them).
- `Passed`: at each point of `initialize_all`, the stores before the current one
  hold the caller's whole chain, and later its datasets. A store that is ahead of the
  caller counts, since a longer chain begins with the caller's.
- `NoMixture` is inductive with it: a migration is applied only where the applied
  ones are a beginning of the caller's chain, under the store's lock, so that nobody
  else has appended since it was compared.
- That beginnings are transitive, and that appending keeps them, are lemmas proved
  place by place.

### OutletProofs: the exporter

For any publishers, attempt ids and revision ids, shared or not: `TypeCorrect`,
`CurrentIsBackedHolds`, `RevisionHasIntentHolds`, `PriorIsReplacedHolds`,
`ReceiptsAreFinal`, `FreshAttemptMayGoOn`.

- Assumed: every publisher has an attempt id and a revision id, "nothing" is
  none of them, and an absent receipt is no receipt.
- `Achieved`: what the holder of the lock has made visible at each of its points,
  and that the receipt it is about to link is absent still. The latter is needed
  because attempt ids may be shared: without it, linking could replace the receipt
  that backs `current`.
- The rest is that no step removes a receipt or a revision. `ReceiptsAreFinal`
  states it for receipts.
- `FreshAttemptNotBlocked` says `ENABLED`, which the prover does not have. What is
  proved instead is what the code tests: `FreshUntouched`, that the staging directory
  and the receipts which bear a fresh attempt's ids are its own doing, whatever
  others did and left; hence every test before its next call passes (`MayGoOn`).
  That a step whose test passes can be taken is left to TLC.

### OutletProofs: the service

For any connections and any number of slots: `SlotsConservedHolds`,
`ReceiptIsOwnHolds`.

- Assumed: there is at least one slot (`SlotsAssumption`; the code has eight).
- `Counted`: the slots left in the pool and the threads that hold one are all the
  slots. It is inductive with `ThreadOK`, which says that a thread holds a slot only
  between taking it and the `finally` of its call; the set of holders is finite
  because it starts empty and a step adds one thread at most.
- `ThreadOK` also settles what the thread-local holds at each point of a request:
  nothing before the call, the times of this thread's own call after it. A step of
  one thread touches nothing of another's (`OtherThreads`).

### OutletProofs: daily prices

For any batches, symbols, days, prices and cutoffs: `PricesTypeCorrect`,
`StoredIsReachableHolds`, `ChainSoundHolds`, `AsOfStableHolds`.

- Assumed: any set of days has a first one, rows of a batch are bars with exact
  availability, and `NoVersion` is no version id.
- `Sourced`: every version comes from a batch that succeeded and has the bar. So
  the ids of a batch that is being published are new.
- `Headed` and `Distinct`: the pointer names the version with the highest number,
  and ids and numbers are unique. So the next number is new as well.
- `Numbered` and `Linked`: the chain itself, kept by appending at the head.
- `AsOfStable` follows for every step: a publication adds to a bar one version at
  most, whose row was not eligible at the cutoff, so the set that the selection
  is made from is the same.

### OperationsProofs

About `OperationsSpec`, for any calls, roots, stores, collectors, histories of runs
and failures; and any attempts of the backfill, answers of the provider, dates and
prices: `TypeCorrect`, `LiveHoldsStillHolds`, `ExportRestsOnCheckpointHolds`,
`SuccessReopensExportHolds`, `NothingOverwrittenHolds`, `RestoreIsTheBackupHolds`,
`ExportsStay`, `CopiesAreExact`, `ImplementsCopies`, `BackfillSoundHolds`.

- Assumed: ledgers and answers have the shape of their rows; roles are a non-empty
  sequence (a store may even be named twice in it); the reviewed dates are a finite
  non-empty set; and the values that stand for "no file" and "nothing" are not
  themselves files or captures. Nothing is assumed of times: runs may complete in any
  order and at equal times, as in the audit's input.
- `Copied` and `Sole` say what is in a target. Targets are chosen before the locks
  are taken and may be shared by calls, so a call may not rely on its own look at the
  target; what it may rely on is that a copy is refused where a file is. Hence of the
  calls into one root at most one has copied anything, and it finds at the end what
  it has put there.
- `Read` says what a call that holds the locks knows: for the operational root that
  it is as it was read, for a restore that the source is what its cohort recorded, for
  an export that every ledger is `Checkpointed`. A restore's source is a backup, to
  which collectors may write as well; the locks it takes keep them out, while
  damage ignores locks. What keeps a damaged copy from being returned is
  that the call ends by comparing.
- `Exact` is what makes many copies one. While the locks of its source are a call's,
  the source is as it was or is not sound any more (`SourceKept`), so what has been
  copied so far is what is there still, unless the fingerprint that is taken before
  the locks are given back tells otherwise. `CopiesAreExact` states it of the moment
  after, and `ImplementsCopies` takes that moment as the instant of `AtomicCopies`.
- Also assumed, of the operator: calls into one target have one source (`OneSource`),
  so that the locks of the source order them. `NothingOverwritten` and `Sole` rest on it.
- `AcceptedIsCheckpointed`: the audit of receipts, read as an operator on one ledger,
  lets only a complete baseline with an unbroken chain and no later failure through.
  The audit goes through times, the checkpoint is about rows; that a finite ledger has a
  latest row comes from the well-foundedness of the naturals.
- For the backfill, `Owned` says that the root belongs to the attempt that laid it
  out and is nobody else's from then on, and `Contents` what each of its stores
  holds at each point, down to the stored bars. The lemmas beneath are about the
  importer: what it writes into an empty store (`WrittenFirst`), into one with
  another answer's bars (`WrittenSecond`), that the evidence's reader finds in
  both what was captured (`FirstReconciles`, `SecondCorrects`), and that a complete answer
  has exactly one row for each date (`RowsOfDates`). `Agrees` concludes that an
  attempt is never refuted by its own evidence.

### Folding

`FoldLeft` is a recursive function, and what it computes for every input would need
induction over data. Two first-order facts go round it: a fold over a sequence of n
entries is the last of n + 1 values that the steps lead through (`FoldIsChain`),
and what every step keeps the fold keeps (`FoldKeeps`, for a set of values). The
first is proved from the function's own definition, whose table of values is shown
to exist for every n; both rest on the least member of a set of numbers. Instances of
the module give the step: `Say` (a version is appended or repeats the newest),
`SayFact` (a fact, and the fundamental it is the evidence of), `WithVersion` (a
version and the current pointer).

### HistoriesProofs

About `HistoriesSpec`, for any captures, batches, snapshots, importers, cutoffs and
orders of publication. Every property of the run `histories` is a theorem, and
`OmissionEnds` is one too:
`SymbolOneIssuerHolds`, `FundamentalRestsHolds`, `CurrentIsLatestHolds`,
`CurrentIsAsOfEndHolds`, `OmissionEndsHolds`, `CaptureReadWholeHolds`,
`BarsAreCapturedHolds`, `FirstReleaseStandsHolds`, `StoresAreLogsHolds`; and
`HistoriesAsOfStableHolds`, from `CompanyAsOfStableHolds`,
`NewsAsOfStableHolds`, `CatalogAsOfStableHolds`, `OptionsAsOfStableHolds` and
`MacroAsOfStableHolds`.

- Assumed: a capture is finite (`FiledIsFinite`, `ReportedIsFinite`, `ContentIsFinite`,
  `ObservedIsFinite`, `CapturesAreFinite`), its rows are numbered, its times are
  temporal values (`TimesAreTemporal`), `Forever` is late enough for every batch, and
  `RtdsmIsApart`: no capture of another family names a series of the RTDSM
  capture. The last is not enforced by a single check. The RTDSM importer accepts one
  series id and one provider (`rtdsm_fixture.py:55` and `:163`); a stage-3 capture
  declares its own, must agree with its payload
  (`stage3_fixture_importers.py:487`), and is refused if a series of that id is
  stored with another provider (`:586`). A capture that declared both as the RTDSM
  importer does would pass, so it is a statement about the reviewed captures.
  Without it `CurrentIsLatest` is false: RTDSM writes versions without moving a
  pointer.
- `Continues(now, held, entries)` is what a publication does to chains: what was there
  is there, and what comes after it was said by the entries. It composes, and from
  it each reader is shown to answer as before when it sees none of the entries
  (`...ReadsTheSame`). Nothing else is needed for `HistoriesAsOfStable`, apart
  from what a reader joins: filings and mappings that only grow, contracts that are
  what they were first said to be. A search of news is an answer of the same kind:
  the index has every version, so what it offers of a later snapshot has to fall out
  with the selection.
- `StoresAreLogs`: a step that continues the chains with entries of one capture is a
  step of `VersionLog`, and a capture that fails or is refused is none.
- `FirstReleaseStands`: the first release is the least of the evidenced versions, by
  the order of the release and then the number of the version. A correction has a
  higher number in the same chain; a late release is lower only if the source orders
  it before the one that is held, which is what the statement leaves out.
- `CompanyInv` adds to `SymbolOneIssuer` that all fundamentals rest on facts
  (`AllRest`). A capture's symbols are checked before any is written, against the
  stored ones and against each other; the theorem needs both. A fundamental names
  its fact by key and version, and a version keeps its place as chains grow; it names
  its mapping too, whichever of the matching ones the lookup took, and mappings are
  only added.
- `CatalogInv`: the membership of a key goes by turns (`ByTurns`): after an active
  version comes one that is not, with the same interval. Hence the newest version
  tells of any day, by pointer or as of the end.
- `OptionsInv`: of each stored capture every bar has a version in the bar's chain,
  and a chain has one version of a capture at most. So the bars that are read of a
  capture are as many as were captured, however often superseded since; the counting
  goes by a bijection between keys and the rows read.
- `MacroInv`: a chain is of a declared series and release, and no version of a place
  outranks the one its pointer names (`Topped`, `PointsTo`). A rank is a
  pair, the order of the release and the number of the version; the writer moves a
  pointer when the new version ranks no lower, and a tombstone is one more version.
  As a rank never changes and `Outranks` is transitive, what the pointer has passed
  stays below it, and the reader's maximum over all versions is there.
- `BarsInv`: the current row of a date is the last of its history, whichever candidate
  was fetched first.

Three statements changed because a proof of them failed, for a reason TLC then
showed on a small instance:

- `CaptureReadWhole` was false for a capture that says only its day and is asked for at
  an instant of that day, before a member that says its time, and where offsets put
  instants and written days in different orders. The property now says so
  (`DayIsOver`, `OneOffset`); both cases are observations of section 3.
- `CatalogAsOfStable` was false for a symbol with two identifiers in one batch, one of
  which was available. It is now stated by instrument and by symbol.
- `CurrentIsLatest` turned out to need `RtdsmIsApart`.

### Only model-checked

- Liveness (`CallEnds`, `CallAnswered`, `RunEnds`, `RequestAnswered`) and
  `FreshAttemptNotBlocked`, which speaks of enabledness: out of reach of the prover.
  Of the latter, the tests that the code makes are a theorem, `FreshAttemptMayGoOn`.
- The statements of the two violated runs are refuted by TLC, so there is nothing
  to prove.

## 5. What is left out of the modelled parts

- The contents of rows, files and messages, apart from what a guard compares.
- SQLite itself: a transaction is atomic and isolated, `BEGIN IMMEDIATE` excludes
  other writers, a process that dies loses its open transaction.
- The kernel: `flock`, `link`, `rename` and `unlink` are atomic; a lock dies with
  its process. Loss of data by a power failure is not modelled beyond the failing
  `fsync` of `JobEvidence`.
- Failing unlocks: an `OSError` of `flock(LOCK_UN)` is represented in `JobRunner`
  (the session fails on the way out) and not in `StoreLocks`, where the process
  exit would release the lock.
- Artifacts, snapshots and quality rows of a run: they are written in the
  transaction of the run and stand or fall with it.
- Validation of metadata, arguments and registries: a constant is a valid one.
- Dry runs, paging, rendering and command lines.

## 6. Plan

Done, in the order of what can go wrong: locks and sessions, ingestion, job runs and
their evidence, migrations, the exporter, daily prices; then operations, the other
histories, and the service.

All safety properties of the passing runs are proved, except
`FreshAttemptNotBlocked`. What is left:

1. `DailyPrices` and the bars of options and FMP as refinements of `VersionLog`:
   they keep versions in tables of another shape than a chain for each key, so that
   each needs a mapping of its own.
2. Sessions and commits as `JobRunner` sees them, derived from `StoreSessions` and
   `RunLedger` instead of restated as steps of its environment.
3. Reference definitions for the parts that are pure: registry validation, retry
   delays, the projections of the exporter.

Composition: `Ingestion` is shown to keep to the sessions of `StoreSessions` and to be
the ledger of `RunLedger`; `JobRunner` relies on both, and represents each by the steps
its caller sees;
`DailyPrices` and `Histories` take the transaction of `Ingestion` as one action.

## 7. Running the checks

```
tlc -workers 2 -config MCStoreLocks.cfg MCStoreLocks     # a run
tlapm StoreLocksProofs.tla                               # the proofs of a module
```

`PROJECT.json` names module, configuration and expected result of every run. The
longest take about a minute and a half. The proofs of `HistoriesProofs` take about
ten minutes, those of the other modules less.
