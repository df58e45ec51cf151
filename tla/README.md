# Verification of the ASRS predictive-maintenance platform

TLA+ models of the parts of this repository in which order, concurrency and failure matter, the TLC
configurations that check them on small instances, and TLAPS proofs of what holds for every instance. Every
definition is translated from the code under `src/`; `PROJECT.json` maps each to its lines.

```
tlc -workers 2 -config MCCsvTable.cfg MCCsvTable      # any pair of the table "Runs"
tlapm CsvTableProofs.tla                              # proofs, minutes from nothing; likewise CsvTableRefinement,
                                                      # RunnerProofs, SchedulerProofs, ExportingProofs, FetchingProofs,
                                                      # ScoringProofs, FleetProofs
```

## 1. The system

| Part | Code | State | Operations |
|---|---|---|---|
| Storage interface | `core/storage/base.py` | table schemas | insert, select, count, delete, distinct, upsert, latest_per, stats |
| CSV backend (active) | `core/storage/csv_backend.py` | per table: `<t>.csv`, counter `<t>.seq`, an in-process lock, an OS lock on `<t>.lock` | the same; every call runs under both locks |
| MySQL backend (dormant) | `core/storage/mysql_backend.py` | a database | the same |
| Run orchestrator | `core/runner.py`, `core/audit.py` | rows of trigger_log, pdm_run, component_health, panel_catalog, event_log; raw snapshots | run one module or all under one trigger |
| Manual runs | `webapp/background.py` | pool of two threads and its queue | submit a run, hand out its trigger id |
| Automation | `core/scheduler.py`, `webapp/main.py` | persisted schedule (automation_config), jobs and timers in memory | apply, reload at start, fire, stop |
| Storage management | `webapp/exporting.py` | archive files | export, delete, archive, restore |
| Grafana session, fetcher | `core/grafana_auth.py`, `core/grafana_fetcher.py` | browser, HTTP client | log in, verify, download panels with retries |
| Modules | `core/registry.py`, `modules/*` | none (history is read from storage) | fetch, features, health score, cause |
| API, services, client | `webapp/api.py`, `webapp/services.py`, `webapp/static/js/app.js` | none; the page polls | requests, views |
| Migration | `scripts/db_migrate_export.py` | two backends | backup, copy, load, verify |
| Configuration, logging, reports | `core/config.py`, `core/logging_setup.py`, `scripts/build_*`, `scripts/inspect_*` | none that changes | read and write files |

How they interact: the API (a thread per request) puts manual runs in the pool and changes schedules; the
timers of the automation fire runs in a pool of their own; both call `run_modules`, which opens a trigger, a
Grafana session, runs each module and stores what it found, and closes the trigger. Everything is stored through
one backend, whose files a second process may be using too. The page polls the trigger it was given. Storage
management reads and rewrites the same tables while all this goes on.

What is hard, and what makes each part correct:

* **CSV backend.** Threads of several processes, crashes between any two writes, a lost counter, a line cut short.
  Correct: one writer at a time, no lock left behind, ids never reused, acknowledged rows stored, rows only go
  when deleted, each call atomic.
* **Orchestrator.** A module, the session, a storage call or the server may fail at any point; runs overlap.
  Correct: stored results have their run, a trigger reports exactly what is stored, one module's failure stays its
  own, every request ends in a closed trigger.
* **Automation.** Two copies of the truth, on disk and in memory, changed by concurrent requests and by restarts.
  Correct: they agree, what is off is submitted no more and falls silent, what is on fires for ever.
* **Storage management.** Each request selects first and acts later. Correct: only what was selected goes, what is
  archived can be brought back, the audit trail adds up.
* **Modules.** Penalties that feed on the rows they made worse, deviations among peers that are nearly equal, numeric
  edges of scores, tiers and trends, one cause seen by several modules. Correct: the tier is that of the score, what is
  worse never scores better, nobody is flagged for what is benign or without a cause, one module alone does not make
  an aisle compound, and what is over wears off.
* **Session and fetch.** Up to ten panels per module, some guarded and some not; retries, timeouts, resources to give
  back. Correct: a module fails for the lack of its primary frames and of nothing else, every request ends, pages and
  sessions are closed.
* **Overview.** Charts computed apart from the same rows. Correct: they agree, also at the edges of their bins.

`PROJECT.json` lists every hazard at its line with the properties that cover it, and says of the others why none
does yet.

## 2. Modules

| Module | Models | Uses |
|---|---|---|
| `TableData` | rows, cells, filters, and the pure parts of the calls | |
| `AtomicTable` | the abstract table: each call takes effect at one instant | `TableData` |
| `CsvTable` | one table of the CSV backend; implements `AtomicTable` | `TableData`, `AtomicTable` |
| `CsvTableProofs` | locks and ids of `CsvTable` | `CsvTable` |
| `CsvTableRefinement` | what is stored, what is lost, and the refinement of `AtomicTable` | `CsvTableProofs` |
| `Runner` | requests, pools, triggers, sessions, modules, and what they store | a storage call is a step, as `AtomicTable` promises |
| `Scheduler` | schedule on disk and in memory, requests, restarts, timers, the pool of workers | the same |
| `RunnerProofs`, `SchedulerProofs` | theorems about the two | `Runner`, `Scheduler` |
| `Exporting` | delete, archive, restore among concurrent writers | the same |
| `ExportingProofs` | theorems about `Exporting` | `Exporting` |
| `Health` | what the modules share: capped penalties, score, tier, robust z, trend, confidence, verdict | |
| `Gate` `Lift` `Shuttle` `Tracker` `Conveyor` `BinMech` `Controller` `Network` | one predictive module each: features, penalties, cause, flags | `Health` |
| `Scanners`, `GtpStation`, `DecantStation` | the scanner table of both station modules, and the two modules | `Health` |
| `Meta` | the correlation of the others, by aisle and for the system | `Health` |
| `Dashboard` | tiles and charts of the overview | `Health` |
| `Fleet` | the eleven modules over their runs and the rows they store, and what the overview shows of these | all of the above |
| `ScoringProofs` | what a scoring run of each module says, of any frames and any rows | the modules above but `Dashboard` and `Fleet` |
| `FleetProofs` | theorems about `Fleet`, and about the charts of `Dashboard` | `Fleet`, `ScoringProofs` |
| `Fetching` | one request at Grafana: session, panels, downloads, what is kept of the frames | |
| `FetchingProofs` | theorems about `Fetching` | `Fetching` |
| `MC*` | instances for TLC | |

### CsvTable and AtomicTable

`file` is a function from line numbers to rows, `eof` the number of the next line, `seq` the counter (`NoSeq`: missing
or unreadable), `tl` and `fl` the two locks. A thread walks through `pc` as a call walks through the code:

| `pc` | Code (`csv_backend.py`) | Actions |
|---|---|---|
| `probe` | `init_schema` looks for the file, 221 | `Probe` |
| `tl`, `fl` | `__enter__`, 190-203 | `AcquireThreadLock`, `AcquireFileLock`, `FileLockFails` |
| `body` | what a call reads and decides under the locks | `InsertTakesIds`, `UpsertMerges`, `UpsertCreates`, `DeleteFilters`, `DeleteAll`, `InitSchema`, `SelectReads` |
| `seq` | `os.replace` of the counter, 178-180 | `ReplaceSeq` |
| `append` | the loop over the batch, 239-245 | `AppendRow`, a step for each row |
| `replace` | `os.replace` of the table, 149 | `ReplaceFile` |
| `unlock`, `tlrel` | `__exit__`, 205-212 | `ReleaseFileLock`, `ReleaseThreadLock` |

`Fail` is an exception in the body: the locks are released on the way out. `Crash` ends a process: files stay, locks
go (the OS gives up an flock with its process). Buffered rows reach the disk row by row (`MidRowFlush = FALSE`) or in
blocks that may end within a row (`TRUE`). A crash may then leave a line that is cut short (`torn`):

* in its id cell or right after it (`"id"`): what is left is a number, the first digits of the id (`Prefixes`). The
  next row continues the line (`ContinueLine`), which then has as many cells as it should and reads as that row under
  the two numbers written together (`Glued`): 1 and 3 give 13. With the wrong id goes what is said of ids:
  `IdsFollowInsertion` holds only of rows that reach the disk whole, and `MCCsvTableJoined.cfg` shows the other case;
* further on (`"row"`): a row without a usable key or without its last columns, which continued has too many cells
  (`Junk`).

`Readings` is what the CSV parser may return of such a file: the lines as they are, some lines swallowed by a quote
left open (`Swallowed`), or all cells under the names of other columns, when the first line has too many (`Shifted`);
it may also reject the file (`ReadRejected`). A call reads one of these, once. A line cut short twice is left out:
`torn` is about the last line, and the row that continues it is taken to be written whole. `Powers` has the powers of
ten beyond every id of the instance.

A table is abstracted to the id, one matched column (`key`) and two others. Left out: the header line (also one cut
short by a crash in `init_schema`, or continued by a row); that `automation_config` has no id (its upserts skip the
counter, all else is the same); an exception in `os_unlock`.

The refinement mapping: the abstract table is the set of rows in the file, without those of an append in progress
(readers are locked out), and a call is answered when its outcome is known and it only has locks to give back.
`ImplementsAtomicTable` says that every behaviour of `CsvTable` is one of `AtomicTable`, whose one concession is that
an insert that fails may leave its first rows.

### Runner

A worker of either pool goes through `open` (`_open_trigger`), `session` (`GrafanaSession`), `next`, then for each
module `fetch`, `score`, `record` (the insert into pdm_run), `components` (the insert into component_health), and
`close`, `event` (`_close_trigger`, `record_event`). `Begin` looks the modules up before anything is stored, as
`run_modules` does. `SessionFails` and `RecordFails` are the handler around the `with` statement; `ModuleFails` the one
inside `_execute_module`. `OpenTriggerFails` and `CloseTriggerFails` leave `run_modules`; `_safe` and `_fire` drop the
error. `Crash` empties the queue and frees the workers; the next server resumes nothing. Trigger ids and run uids are
new by construction, as uuids are. What a module measures is how its fetch and its scoring end and how many components
it scores (`Counts`). Reading the window of a schedule before a run (`_fire`) ends, when it fails, as
`OpenTriggerFails` does.

### Scheduler

`automation_config` is on disk, `jobs` in memory. A request walks through `persist`, `schedule`, `record`; a start
through `down`, `loading` (one step per enabled row) and `up`. A job's minutes are kept, the clock is not: its time may
come at any moment. A stop waits for the requests in progress, and a server is started when the process of the one
before is gone.

The timer and the run are two steps, as in APScheduler (external: modelled from the arguments at `scheduler.py:41-45`).
`Submit` puts a firing in the pool's `queue`, unless the scope has one there or running (`max_instances = 1` counts from
the submission; a run due meanwhile is skipped). A free worker takes the first (`Take`) and either runs `_fire`
(`Begin`, `End`) or, if it had found no free worker when it was submitted (`late`) and may have waited longer than
`misfire_grace_time`, drops it (`Miss`). `remove_job` touches `jobs` only: a firing in the pool still begins after its
scope was switched off. So what is claimed is that such a scope is not *submitted* any more (`DisabledNeverSubmitted`),
which leaves it at most the one firing it had in the pool, and that it falls silent (`OffFallsSilent`).

With up to twelve scopes and four workers a firing may wait past its grace time and be dropped, and the next one too:
TLC finds a scope that is dropped for ever as soon as more scopes want a worker than there are. `AutomationKeepsFiring`
is therefore about times when they are no more (`Cardinality(DOMAIN jobs \union InPool) <= Workers`).

### Exporting

Two representative tables: `trigger_log` (ids, a JSON column, a date that upserts leave alone) and
`automation_config` (neither ids nor JSON, a date every upsert moves). Runs open and close triggers, schedules are
changed, while clients select (`Delete`, `Archive`, `Restore`), write the file, remove or insert, and record. A file, of a table or of an archive, is a function from line numbers to
rows, with gaps where rows were removed: only the order of lines matters, and a removal takes the lines that match, as
the rewrite of the CSV backend does. A row
carries the number of the write that made it through archive and restore, so that a copy can be told from another row.
JSON cells are an object or a text; `FromArchive` is what the way through `to_csv`, `read_csv` and `insert` makes of
them. `export` and `list_archives` change no table and are left out.
Left out: the confirmation and the table names a request is checked for before it starts, which change nothing; a
restore that reads an archive while it is being written; the module a delete may be restricted to, which the runs do
not ask for.

### Health and the module modules

Every predictive module of the source has the same five parts: `fetch.py` (modelled in `Fetching`), `features.py`,
`health.py`, `rca.py` and `module.yaml`. A module here follows them: `<M>Features` takes a bundle (the frames of one
fetch, reduced to the cells the module reads) to a record per component, `<M>Penalties` gives the sequence of factors
with their points and caps, `<M>Cause` picks the cause, and `<M>Score` takes features and stored rows to a verdict per
component (`Judge`): raw and stored score, tier, regime, time to maintenance, confidence, cause, modules it points at,
and the facts that later runs read back from the row. `Health` has what the source repeats in every module.
`<M>Bundle` says of a bundle what its readers rely on: finitely many rows, counts that are whole numbers and not
negative. A frame that is a table of events is a finite function from its places to rows; of it, sums and order
statistics are taken, never an order of rows. The controller's share of SQL processes (`sqlShare`) is approximated; it is
context of the cause and no penalty reads it.

Numbers are fixed-point integers: ten-thousandths of a point for penalties and raw scores (`U` to the point),
hundredths for stored scores, thousandths for z-scores and confidences, whole hours for times. The source computes in
floating point and rounds penalties to four decimals and scores to two, so tiers and clamps are exact here; medians,
standard deviations, slopes and means are rounded down to the unit, which can shift a z-score or a time by one unit, and
no property depends on one. A cell that is not a number is `None`, an absent panel an empty set or function.

Two projections exist in the source and both are kept: `Trend` says "trend" as soon as there are enough rows, also
when no line can be fitted; `FittedTrend` falls back to the cold start then. Confidences follow each module's formula,
including those that grow with the reading (see the findings).

### Fleet and Dashboard

`store` is component_health: for every module and component the rows, newest first, as far back as the module's
`component_history` asks (`HistoryLimit`). `RunModule(m)` is one successful `_execute_module`: any bundle of
`Readings[m]`, scored against the rows stored so far, one new row for each component it returned; rows age by one of
`Gaps`. Components that a run does not return keep their rows, as in the code. `RunMeta` reads the newest row of every
component of the other modules, which is what `latest_per` gives it, and the controller node that the store saw first
(`first`: the worst of the run that stored the first nodes, since rows are stored worst first), because
`meta/features.py` asks that node's tier only. `present` is what the last run of each module
returned. Runs that fail leave nothing here; that is `Runner`'s part. `Dashboard` has the tiles, the two histograms,
the list of components at risk and the heatmap as `webapp/services.py` computes them from the newest rows.

### Fetching

The one worker thread of a request: `start` opens playwright, browser and context one by one (`OpenResource`), then
`Login`, `Verify`, for each module the panels of its `fetch.py` in their order (`Sources`), and `Close`. A panel is
*needed* (its url must be set, its failure fails the module), a *zone* (its url must be set, its failure is logged),
*optional* (may be left out of `.env` but not fail) or *context* (may be left out and may fail). A download opens a
page, sweeps three times over two locators (`ClickAgain`) and ends in a frame that is full or empty, or fails at any
point. `Enough` is what a fetch asks of its frames at its end, the conveyor before its last two panels (`Through`). The
fetch of meta is `ReadStore`: the read of the store returns rows, none, or raises. `PersistRaw` writes each frame by
itself and the manifest last. A call to Grafana or the browser may fail wherever one is made; a closer may fail too (`Close`),
and so may the closing of a page: its source fails then (`SourceFails`), and the page is left to its context (`With`).
`download.path()` (`grafana_fetcher.py:123`) has no timeout of its own; that it returns or raises is assumed of the
browser.
Left out: what is written in a panel, which is `Fleet`'s; `panel_inspector.py`, which only inspection scripts call.

## 3. Runs

| Run | Module, configuration | Properties | States |
|---|---|---|---|
| `csv_table` | `MCCsvTable`, `MCCsvTable.cfg` | `TypeOK MutualExclusion NoLockLeaks IdsFollowInsertion AcknowledgedRowsStored RowsOnlyDeleted ImplementsAtomicTable` | 95 000 |
| `csv_table_torn` | `MCCsvTable`, `MCCsvTableTorn.cfg` | `EveryCallReturns` | 165 000 |
| `runner` | `MCRunner`, `MCRunner.cfg` | `AllRunsReported ModulesAreIndependent RunningMeansInProgress EveryRequestCloses` | 125 000 |
| `runner_faults` | `MCRunner`, `MCRunnerFaults.cfg` | `TypeOK NoOrphanRows ReportsAreStored SuccessIsComplete HistoryStands` | 1 430 000 |
| `scheduler` | `MCScheduler`, `MCScheduler.cfg` | `TypeOK ConfigMatchesJobs DisabledNeverSubmitted OffFallsSilent AutomationKeepsFiring` | 386 000 |
| `exporting` | `MCExporting`, `MCExporting.cfg` | `TypeOK RowsKept AuditAddsUp IdsStayUnique` | 1 280 000 |
| `fleet` | `MCFleet`, `MCFleet.cfg` | `TypeOK TierFollowsScore LoneModuleStaysOk ControllerRaisesSystem BenignStaysOk OfflineAloneStaysWatch WorseNeverBetter FlaggedHasCause OverviewAddsUp` | 26 000 |
| `fleet_recovery` | `MCFleet`, `MCFleetRecovery.cfg` | `Recovers` | 27 000 |
| `fetching` | `MCFetching`, `MCFetching.cfg` | `TypeOK OutcomeFollowsPrimaries NothingLeftOpen EveryRequestEnds` | 639 000 |

Each property of these runs is also checked against a definition changed as a plausible bug would change it (the
operators marked "Mutant" beside the one they stand for), and is violated.

**Bounds, and why they are enough.**

* `csv_table`: three threads, two of them in one process, so that either lock is contended alone and with the other;
  three calls, so that one may find what two others left; batches of two rows, the least that can be cut; two faults,
  so that a crash may meet a lost counter. The threads of one process are symmetric.
* `csv_table_torn`: one fault and three calls: one call is cut short, one continues its line, one reads it. A damaged
  id cell reads as 0 or as the id of another row.
* `runner`: two configured modules and one that is not; two requests for all modules or for the third; one worker of
  each kind. A fault is allowed by `MaxFaults` but neither storage nor server may fail here.
* `runner_faults`: the same with a second manual worker, requests for one module and for an unknown one, and one
  failure of storage or server at any step. Two components per module, so that an insert may be cut.
* `scheduler`: three scopes and two workers, so that one scope may have to wait for the others; two clients, three
  changes, two stops, failures or crashes; intervals 0 (clamped) and 5.
  `OneAtATime`: two clients never change one scope at once (see `MCSchedulerRace.cfg`).
* `exporting`: two clients, three requests, one fault; two triggers and one schedule; one date to archive before;
  deletes of what belongs to one trigger and is younger than one second. Clients and triggers are symmetric.
  `OneArchivePerSecond`: no two archives are written in one second (with FALSE, `RowsKept` is violated: the second file
  replaces the first, whose rows are deleted).
* `fleet`: each module by itself over five runs a day apart, with two or three components and three or four bundles
  (calm, uneven without harm, bad in the ways the module knows), and the meta module beside the network and the shuttles
  (several aisles and the system) and beside the controller (two nodes, either of which may be the first). Five runs
  are two more than a trend needs (`MinRunsForTrend = 3`) and enough for every penalty for runs in a row to act twice.
  `Worsenings` are chains of bundles, each worse than the one before for the component they name; `WorseningsAssumption`,
  which TLC evaluates, says so feature by feature. `LiftWorse` and `ConveyorFull` are there for it: in `LiftBad` and
  `ConveyorJam` the other lifts and zones get worse too, and the one named may stand out less.
* `fleet_recovery`: runs without end (`MaxRuns = Unbounded`: only their parity is kept) within one hour, so that a
  trend meets rows without spread; the history is cut to at most three rows, without which the state would not be
  finite. Lifts and conveyor are left out, whose penalties read no stored row, and tracker and slots, which return no
  component when the readings are calm.
* `fetching`: each module with all its urls, each time without one of them, and with none; and three modules in a row,
  meta last. Two zones: one that fails beside one that does not. Everything may fail everywhere, so there is no bound
  on failures.

**Fairness.** `csv_table_torn`: weak fairness of each thread's own steps: the OS schedules it, and a lock that is free
for good is obtained; nothing is assumed of failures. With one fault and finitely many calls no lock is contended for
ever, which is why weak fairness is enough. `runner`: weak fairness of each worker: pool threads run, and every call to
Grafana has a timeout, so it ends in one way or the other, neither of which is assumed. Requests are never assumed to
come. `fleet_recovery`: weak fairness of each registered module's run, which the global scope of the automation
runs again and again; which readings come is not assumed, `Recovers` says what follows if they stay calm. `fetching`:
weak fairness of the one thread that works through the request; every wait in it has a timeout, and whether it ends in
an answer or a failure is not assumed. `scheduler`: weak fairness of the handlers, of the reload,
of each scope's submission (its timer goes off again and again while it has a job and nothing in the pool), of the
worker that takes the first in the queue, whichever way (`Begin \/ Miss`: no firing is assumed to be on time), and of
the end of each run (`_fire` ends as the requests of `runner` do). Neither starting, stopping nor requests are fair, so
`AutomationKeepsFiring` and `OffFallsSilent` speak of schedules left alone at a server left up.

### What the code does that its documentation does not say

| Configuration | Property | What TLC finds |
|---|---|---|
| `exporting_unnumbered` (`MCExportingUnnumbered.cfg`) | `OnlyMatchingDeleted` | a delete of automation_config ignores the dates it was given |
| `fleet_tile` (`MCFleetTile.cfg`) | `TileShowsBlockedSlots` | the tile of the bin module keeps the tier of slots that were cleared |
| `fetching_primaries` (`MCFetchingPrimaries.cfg`) | `PrimariesAreIndependent` | a scanner table that cannot be downloaded fails the module before its stations are asked for |
| `MCCsvTableSwallow.cfg` | `AcknowledgedRowsStored` | inserts are appended, not renamed into place: after a crash within a row, the next insert continues that line, and no reader finds a row under the id it returns |
| `MCCsvTableJoined.cfg` | `IdsFollowInsertion` | likewise, the joined line reads as a row with a wrong, larger id, and the next row has a smaller one |
| `MCRunnerUnknown.cfg` | `EveryRequestCloses` | a run of an unknown module is answered with a trigger id that never appears in trigger_log |
| `MCRunnerCrash.cfg` | `RunningMeansInProgress` | a trigger that was running when the server died reads running for ever |
| `MCSchedulerRace.cfg` | `ConfigMatchesJobs` | two requests for one scope interleave between the write and the job |
| `MCExportingCells.cfg` | `CellsKeepTheirType` | archive and restore turn JSON cells into text |
| `MCFleetPeers.cfg` | `PeersAloneFlagNoStation` | a station with few discrepancies is flagged because its peers have even fewer |

The first three are listed as runs. The other configurations are kept beside them, with the module of the same name
(`tlc -config MCRunnerCrash.cfg MCRunner`); they are the instances of the passing runs with one switch changed.
`PROJECT.json` quotes the lines under "findings", where there are also six met while translating, which no
configuration shows: confidences that grow with the reading, a trend without a fit, the first controller node deciding
for all, the page of a long history, the raw frame of meta, and the browser of a start that failed.

## 4. Proofs

`CsvTableProofs` proves, for every set of threads, processes and arguments, any number of calls and faults, and, but for
the last, with or without writes that end within a row:

| Theorem | States |
|---|---|
| `TypeCorrect` | `Spec => []TypeOK` |
| `Excludes` | `Spec => []MutualExclusion` |
| `ReleasesLocks` | `Spec => []NoLockLeaks` |
| `IdsInOrder` | `~MidRowFlush` gives `Spec => []IdsFollowInsertion` |

Assumptions: those of `CsvTable` and `TableData` (`ProcAssumption`, `ThreadAssumption`, `BatchAssumption`,
`UpsertAssumption`, `FilterAssumption`, `JunkAssumption`, `KeysAssumption`), which TLC evaluates on every run.

The argument has three layers, each inductive given the one before.

1. `TypeInv` adds to `TypeOK` what `pc` says of a thread's call (`Control`): only inserts append, and they have rows
   left; only upserts have an id to write that is not a batch's. Without it, `NextRow` could not be shown to be a row.
2. `LockInv`: a thread in the section holds the OS lock, and whoever holds a lock is where it is released. Mutual
   exclusion alone is not inductive: it does not say who would be let in next.
3. `IdInv`, for rows that reach the disk whole: the lines of the file are in order of their ids; if the counter is readable, no stored id exceeds
   it; and a thread in the section knows that no stored id exceeds the one it read, that the counter already covers
   what it is going to append, and that a rewritten file is ordered too. Only the thread in the section can be
   affected by a change of the disk, by layer 2 (`OthersIds`).

That the largest id of a file is found (`MaxExistingIdBounds`) is proved by well-founded induction over line numbers.

`CsvTableRefinement` goes on, for files whose rows reach the disk whole (`~MidRowFlush`):

| Theorem | States |
|---|---|
| `AcknowledgesStoredRows` | `Spec => []AcknowledgedRowsStored` |
| `LosesOnlyDeletedRows` | `Spec => RowsOnlyDeleted` |
| `CsvTableIsAtomic` | `Spec => ImplementsAtomicTable`, with `LastIds = Nat` |

Assumptions: as above, and `~MidRowFlush`, without which TLC refutes each of the three: a row cut short may keep its
key, lose its columns and swallow the next (`MCCsvTableSwallow.cfg`). `LastIds` is the range of the abstract counter,
which has no bound but TLC's. The invariant (`StoreInv`) says of each thread what the file holds of its call: the rows
of an append in progress are the last lines and are exactly the first of the batch, under the ids it took
(`AppendInv`); an insert that is answered has stored what it returns (`AckInv`); a rewrite that is about to replace
the file is the present file with that one change (`WorkInv`). Whether another thread's step disturbs it is
decided by the lock (`OthersSame`). The refinement is proved action by action: the last row of an insert, the replace of
a rewrite and the read in the section are the instants at which the abstract call happens; every other step stutters,
calls, or answers. A crash or a failure in an append is the abstract insert that keeps its first rows. That an insert
returns as many ids as it stored rows is a bijection between `1..n` and them.

`SchedulerProofs` proves, for any scopes, clients and intervals and any number of changes, failures, stops and crashes:

| Theorem | States |
|---|---|
| `TypeCorrect` | `Spec => []TypeOK` |
| `JobsAgree` | `OneAtATime` gives `Spec => []ConfigMatchesJobs` |
| `OffIsOff` | `OneAtATime` gives `Spec => DisabledNeverSubmitted` |

Assumptions: `IntervalAssumption`, `WorkersAssumption`, `BoundAssumption` and, for the last two, `OneAtATime`, which the code does not
enforce: `MCSchedulerRace.cfg` shows that it is needed.

`ConfigMatchesJobs` says nothing of a scope that is being changed, nor of a server that is not up, so it is not
inductive. `JobsInv` adds what holds there: a request between its two writes has its row on disk (`Written`), no other
request is at the same scope (`Alone`); every job of a loading server is that of an enabled row, and every enabled row
has its job or is still in the list that was read (`Loading`); a server that is down has neither jobs (`Ended`) nor
requests (`Answered`). A scope agrees with its row except between the two writes, also while it is being changed
(`Serving`), which is stronger than `ConfigMatchesJobs`. `OffIsOff` follows with two facts: only `Submit` brings a scope
into the pool (`EntersBySubmit`), and it submits only what has a job (`SubmitsEnabled`).

`RunnerProofs` proves, for any modules, workers, scopes and requests:

| Theorem | States |
|---|---|
| `NoOrphans` | `Spec => []NoOrphanRows`, whatever fails and whenever the server dies |
| `HistoryKept` | `Spec => HistoryStands`, likewise |
| `RunningIsInHand` | `~StorageMayFail` and `~MayCrash` give `Spec => []RunningMeansInProgress` |
| `RunsAreReported` | `~StorageMayFail` gives `Spec => []AllRunsReported`, crashes or not |

Assumptions: `RegistryAssumption`, `BoundAssumption`. `NoOrphanRows` does not say why a run that is about to store its
components has its own row, nor that nobody else has its run_uid; `RunInv` adds both: run_uids are given out once
(`UidsOK`), and only what succeeded has a count, whose run is stored before its components (`ScoredOK`). `TriggerInv` is
the same for triggers: an id waits once in the queue or is with one worker (`TidsOK`), and a trigger is opened once and
closed by the worker that opened it (`LogOK`). `HistoryStands` follows from the two. `RunningInv` says which workers a
running trigger may have, `ReportInv` where the result of a stored run is until the trigger is closed. The hypotheses
of the last two are needed: `MCRunnerCrash.cfg` violates `RunningMeansInProgress`, and a failed insert of components
leaves a successful run that its trigger reports as failed.

What triggers report is proved in the same module, whatever storage calls fail and whenever the server dies, except
where it says so:

| Theorem | States |
|---|---|
| `TypesHold` | `Spec => []TypeOK` |
| `ReportsStored` | `Spec => []ReportsAreStored` |
| `SuccessComplete` | `Spec => []SuccessIsComplete` |
| `ModulesIndependent` | `~StorageMayFail` gives `Spec => []ModulesAreIndependent` |

`OweInv` is the account a worker keeps: the modules it still has to do, the one at hand and those with a result make up
the modules of its request, none twice (`Owed`), and each result that names a run has it in the store with all its
components (`Backed`). What closes a trigger hands this over to the log (`Reported`), where it stays because stored rows
only grow (`Grows`). The counts are then cardinalities of two sets whose modules are disjoint. `ModulesAreIndependent`
needs that a worker's results are all of one kind: either every module ran or the session did not open and none did
(`UniformInv`); a failed insert into pdm_run breaks that, which is why the theorem excludes it.

`ExportingProofs` proves, for any tables, keys, filters, dates and clients, any number of requests, failures and
crashes:

| Theorem | States |
|---|---|
| `TypesHold` | `Spec => []TypeOK` |
| `IdsUnique` | `Spec => []IdsStayUnique` |
| `RowsStay` | `OneArchivePerSecond` gives `Spec => RowsKept` |
| `LogComplete` | `Spec => []AuditAddsUp` |

Assumptions: those of `Exporting` (`TableAssumption`, `DateAssumption`, `BoundAssumption`); `OneArchivePerSecond` is the
hypothesis of `RowsStay`, and TLC refutes `RowsKept` without it. In a table with ids a row is on the line of
its id (`TablesOK`), so ids cannot repeat. `RowsKept` speaks of one step, but what a step removes was selected earlier:
`SelectionOK` keeps, through all steps of the others, that a selected row is still on its line or gone from it for good,
and that an archive that is going to remove rows has them in its file; `FilesOld` says that no archive is of the present
second, so none is replaced. `AuditAddsUp` speaks of quiet moments only; `Balanced` is the balance at every moment, with
the rows that were deleted or restored and are not recorded yet (`Pending`).

`ScoringProofs` is about a single scoring run, for any frames that satisfy `<M>Bundle` and any stored rows in order:

| Theorem | States |
|---|---|
| `ScoreBounds` | whatever the penalties are, the stored score is 0 to 100, and more points taken give neither a better score nor a better tier |
| `TierAgreesWithScore` | the tier, cut from the raw score, is the one the stored score shows |

and, as lemmas, for each of the eleven modules: its features are of their types for every component (`<M>FeaturesOK`),
the components are finitely many, and each verdict is in order (`<M>ScoreOK`: the score is the stored form of the raw
one, the tier that of the raw one, the projection at most a year, the confidence at most 0.97). They rest on sums,
means, order statistics, the integer square root, the robust z-score and the least-squares projection being whole
numbers: the sums by an induction over finite sets that is stated of the set of the good subsets, since the library's
theorem takes an operator; the square root by the same over the naturals.

For each module but meta, further lemmas compare two scorings of a component against the same rows. `<M>NoBetter` says of
two records of features, one by one, that the second is no lower, or the first below the floor up to which it costs
nothing; then every penalty takes as much or more (`<M>Grows`, `TakesMore`), and the raw score falls or stays
(`<M>Falls`). What earlier runs add is no exception: the runs in a row and the rates they count grow with the feature of
the present run, or do not depend on it.

`FleetProofs` proves, for any plant, any readings and any number of runs:

| Theorem | States |
|---|---|
| `FleetTypes` | `Spec => []TypeOK` |
| `StoredTiers` | `Spec => []TierFollowsScore` |
| `ControllerHeard` | `Spec => []ControllerRaisesSystem` |
| `LoneModule` | `Spec => []LoneModuleStaysOk` |
| `FlaggedNamed` | `Spec => []FlaggedHasCause` |
| `BenignStay` | `Spec => []BenignStaysOk` |
| `OfflineStay` | `Spec => []OfflineAloneStaysWatch` |
| `ChartsAgree` | `Spec => []OverviewAddsUp` |
| `WorseScores` | `Spec => []WorseNeverBetter` |
| `WorseFalls` | with any rows that are ever stored, of any two bundles of any module but meta: the one that is nowhere better for a component (`Worsens`) gives it neither a better score nor a better tier |
| `WorseReadings` | likewise from what is read: a controller node that loses idle time (`LostIdleTime`), a gate that is held open as before or longer (`HeldOpen`), whatever is read of the others at the same time |
| `WorseMembers` | likewise for meta: if every member has as bad a tier or a worse one and as many links, and others may join (`MembersWorsen`), no aisle, nor the system, gets a better score or a better tier |
| `BucketsPartition`, `BinsPartition` | every time up to a year is in one bucket, every score in one bin (what `OverviewAddsUp` counts) |

Assumptions: `HealthAssumption`, `FleetAssumption`, and for all but `LoneModule` `ReadingsAssumption`, that every bundle a
fetch may return satisfies its `<M>Bundle`; TLC evaluates all three on every fleet run. One part of it is about names: a
node of the controller has no aisle, which is how its rows are stored. `WorseScores` alone takes `WorseningsAssumption`,
that the pairs of `Worsenings` are what the constant is said to hold; `WorseFalls` is the same for every pair there is.

`FleetInv` is the invariant of the first three, and part of the invariants of the rest. `TypeOK` and `TierFollowsScore` are not inductive: a new score depends
on the rows stored, so these must be in order in all they are read for (`Kept`: ages that do not fall, the cycles of a
shuttle, the request for escalation of a node), finitely many components must be stored for the meta module to count
them, and the last verdicts must be verdicts (`Said`). `ScoredOK` takes `<M>ScoreOK` of the module that runs, `RanKeeps`
ages and cuts the rows. For `ControllerHeard` the tier of the first node would not do, since another may be worse; what
carries it is that every row of a node that is warn or worse asks for escalation (in `Kept`), that nodes are in the
scope of the system (`Nodes`), and that a scope with such a request loses eighteen points, by which it is at most watch.

`LoneModuleStaysOk` is inductive with two facts about the domains (`LoneInv`); the work is in the operators. That a
single flagged module gives breadth 0 or 1, no edge and no escalation is set theory over the members of an aisle
(`OneModule`), that nothing is then taken for breadth, severity, chain, persistence or the controller is arithmetic over
the penalties (`NothingTaken`), and `MetaScore` gives such an aisle 100 points, whatever is stored (`LoneVerdict`).

`FlaggedNamed` needs no more than `FleetInv` of the store: penalties are multiples of a ten-thousandth up to their caps,
so a factor below five points is small, and in each module it speaks of those factors cannot add up to the fifteen that
a flag takes unless the module names a cause of its own (`<M>Caused`; for lifts, that without an error nothing is
repeated or distinct; for gates, that a closed gate is at rest).

`BenignStay` and `OfflineStay` relate the verdict of a run to rows of earlier runs, of which `FleetInv` says little.
`RowsInv` adds what those rows can say (`KnownFacts`: no discrepancy means no positive deviation, only an open gate is
stuck), that what a run returned is stored with the reading it came from (`Present`), and the two properties in the
form in which one run hands them to the next (`Stay`). The step (`RowsRan`) says of one run that the new row is the
verdict, that the rows below it are those the verdict was reached from unless one was cut off at `HistoryLimit`, and
that other rows only age (`RanRows`, `RecordedStays`); each module then shows `Steady` of its verdict
(`<M>Calm`: every peer term of a benign component is gated off or negative, and no stored row counts).

Both properties, and `FlaggedHasCause`, had to be corrected when their proofs failed, where the instance of `MCFleet`
could not tell: a scanner that misreads just under one percent is rounded to one percent and does meet its peers (99 of
9 904 scans), so `ReadsWell` speaks of the rounded share; a device that is hardly used may misread every scan and lose
few points, so `CleanRow` asks what recurrence counts and not a good score; `OfflineAloneStaysWatch` is about stations
in every row it reads, also when a device had the name before; and a gate can be flagged with the cause "in_use" (open,
one run above its usual, stuck in one run of nine), which `FlaggedHasCause` no longer excludes.

`ChartsAgree` follows from `FleetInv` alone: what the overview reads is finite and on the scale (`EverythingShown`), sets
that partition it have as many members together (`PartsAddUp`), of finitely many some are the first twelve
(`FirstOnes`), so the list that `TopAtRisk` chooses exists, and the worst of the tiers of a cell is below each.

`WorseFalls` needs `FleetInv` for the rows that both scorings read, and the `<M>Falls` of `ScoringProofs`; that the score
and the tier follow the raw score is `StoredGrows` and `TierGrows`. What "nowhere better" has to leave out is where the
code is not monotone, and nothing in the repository says that it is:

* A link's day counts only while it is worse than its window (`network/health.py:99`), so a window that rises to the
  level of a day of 20 % gives back up to 20 points while it takes almost none: `NetworkNoBetter` asks that a day that
  counts still does.
* Ten recent totes take at most 30 points from a position and ten stale ones 34 (`tracker/health.py:48-49`):
  `TrackerNoBetter` asks that the stale ones do not become fewer.
* A gate that is open for a request takes 8 points, one with another code that is not closed none of these:
  `GateNoBetter` asks that the code stays.
* A z-score is a feature of its own. If the others get worse too, it may fall, and even if they do not: of three values
  3, 0 and 3, the first is 0.71 standard deviations from the mean; if it rises to 4, the median absolute deviation is no
  longer 0, takes over and makes it 0.67 (`network/features.py:45-51`). So `Worsens` compares the features of two bundles
  and not what was read of the component. For gates, which are compared by what is stored of them, it asks that the same
  ones are listed.

Nodes and gates have no peers among what is read, so for these `WorseReadings` starts from the readings: `IdleWorsens`
and `HeldWorsens` show that the features they give are nowhere better, and `WorseVerdict` does the rest.

When the assumption was stated, TLC refuted it for three of the pairs that `MCFleet` had: in two the peers
got worse as well, in one the shuttle did more cycles of which a smaller part was reshuffled. They had kept the property
only because other penalties outweighed the one that fell.

`WorseMembers` is set theory over the members of a scope: a flagged member stays flagged, so the modules, the pairs of
linked modules and the worst tier can only get worse (`CorrelateGrows`), so can the aisles with two modules and the
first node (`MetaFeaturesGrow`), and the runs in a row with two modules are then no fewer (`CompoundGrows`). `MembersOK`
and the uniqueness of module and id in `Members` make it apply to the members there are (`TierWorsens`).

`FetchingProofs` proves, for any queue of modules, any `.env`, any list of zones and any failures, all safety
properties of `Fetching`:

| Theorem | States |
|---|---|
| `SessionCloses` | `Spec => []NothingLeftOpen` |
| `OutcomesFollow` | `Spec => []OutcomeFollowsPrimaries` |
| `Types` | `Spec => []TypeOK` |

Assumption: `FetchingAssumption`. The invariant of `OutcomesFollow` (`FetchInv`) says what the frames of the module at
hand can be after `step - 1` sources (`Progress`): they stem from sources that were passed, and every needed source that
was passed has left its frame; meta's comes from the store. `SessionCloses` needs that a page that would not close is
never among what is stuck without its context. What the eleven lists of sources have in common is stated once (`SourcesFit`) and proved
of each module.

Every safety property of a passing run has a theorem. Only model-checked, being out of the prover's reach, is liveness
under fairness: `EveryCallReturns`, `EveryRequestCloses`, `OffFallsSilent`, `AutomationKeepsFiring`, `Recovers`,
`EveryRequestEnds`.

## 5. Not modelled

* **MySQL backend** (`core/storage/mysql_backend.py`): dormant; `core/storage/__init__.py` builds it only if
  `STORAGE_BACKEND` asks for it and `MYSQL_CONFIRM` allows it. It would be another implementation of `AtomicTable`,
  whose upsert is not atomic (see the hazards).
* **Client** (`webapp/static/js/app.js`): it polls and draws. `Runner` says what a poll can find; that the page gives up
  after 120 polls and reports the last status it saw is a hazard without a property.
* **Migration and backup** (`scripts/db_migrate_export.py`): an offline script between two backends, one of which is
  the dormant one.
* **Configuration, logging** (`core/config.py`, `core/logging_setup.py`): read the environment once and format lines.
* **Reports, inspection** (`scripts/build_*`, `scripts/inspect_*`, `core/panel_inspector.py`): offline, no state.
* **`_fleet_trend` and the views that hand rows through** (`webapp/services.py`): an average per day and copies of rows.
* **Compositions that would be next**: `Exporting` with `Scheduler` (deleting automation_config leaves its jobs in
  memory), `Exporting` with `Runner` (a trigger archived while it runs is closed by an upsert that creates a row), and
  two overlapping runs of one module in `Fleet`. Each is a hazard in `PROJECT.json`.
* **Proofs that would be next**: `WorseReadings` for the other modules, that is, for which changes of a frame alone
  `Worsens` holds. With peers it is a question about medians and deviations, and by the example above not every change
  that looks worse is one.
