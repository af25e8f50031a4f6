# fake-komga-115: TLA+ models, checks and proofs

fake-komga-115 is one Go process that shows comic archives stored in a 115
cloud drive as a Komga server. It keeps a catalog in SQLite, scans the drive in
the background, reads single pages of remote ZIP and RAR files through HTTP
range requests, and caches blocks, pages and covers on disk. This directory
holds TLA+ modules translated from that code, the TLC runs that check them on
small instances, and TLAPS proofs of the results that hold for every instance.

Contents: 1 the system, 2 the modules, 3 the runs, 4 disagreements found,
5 the proofs, 6 what is left out, 7 the plan.

## 1. The system

| Component | Source | State | Operations | What makes it correct |
|---|---|---|---|---|
| Scanner job control | `internal/scanner/manager.go` | `scan_runs`, `libraries.last_scan_*`; in memory `queued`, `jobs` (64), `activeRunID`, `activeStop` | New, StartAll, StartLibrary, Cancel, worker, scheduler, Close | one scan per library; rows end once and truthfully; cancels hit their run; nothing stays reserved |
| Scanner catalog writes | same | `series`, `books`, `seen_scan_id`, two staging tables | scan, saveSeries, saveOneShots, updateProgress, commit, discard | a scan that does not succeed takes nothing away; modes are never mixed; success equals the tree, as far as the listings showed it |
| Library administration | `internal/httpserver/admin.go` | `libraries` | create, update, delete, start and cancel scans | checks made before the write still hold at the write |
| Cover batch jobs | `internal/thumbnail/batch.go` | `thumbnail_runs`; queue, active job | Start, Cancel, worker, Close | as the scanner, with partial results |
| Maintenance jobs | `internal/maintenance/manager.go` | `maintenance_runs`; queue by operation and target | Start\*, Cancel (polled), worker, Close | one job per target; totals add up; reservations are given back |
| Series covers | `internal/thumbnail/service.go` | cover files, `series_thumbnails`, `inflight`, `operationMu` | MaybeGenerate, GenerateWithOptions, Get, HasValid, SeriesStats, Clear, cleanupOrphans | what is judged stale is what is deleted; the picture served is of the book looked up; claims are given back |
| Range and page cache | `internal/cache/cache.go` | files, `cache_entries`, `inflight` | GetOrLoad, Get, Put, Clear, EnforceLimit | one load per key; files and rows converge; the limit is kept |
| Remote range reader | `internal/archive/range_reader.go` | `downurl_cache` | ReadAt, fetchBlock, downloadURL | ReadAt equals the file; stale URLs are renewed |
| Archive indexes | `internal/archive/{zip,rar,service}.go`, `database/performance.go` | `zip_indexes`, page cache | ListPages, ReadPage | an index is of the version it is read for |
| Next-volume prefetch | `internal/archive/volume_prefetch.go` | pending keys, queue | Trigger, worker, Close | keys are forgotten; Close ends |
| Reading progress | `internal/database/progress.go` | `book_read_progress`, `book_page_progress` | patch, delete, page sent, tracker's PUT | rows have parents; statuses divide the series; the PUT overrides |
| Catalog queries | `internal/database/catalog.go`, `internal/natsort` | none | listing, neighbours, ordering | a total natural order |
| 115 account and client | `internal/oneonefive/client.go` | stored token pair, SDK client | Reload, SaveAndTest, refresh callback; ListDirectory, DownloadURL | the newest token pair is the stored one; a listing shows what stayed in the directory |
| Schema, settings | `internal/database/{schema,migrations,store}.go` | tables, settings | Open, migrate, set | keys and cascades the others rely on |
| HTTP API | `internal/httpserver` | none | Komga, web and admin routes | translation only |
| Process | `internal/app`, `cmd/server` | | New, Start, Close | order of start and shutdown |

**How they interact.** HTTP handlers call the managers synchronously with the
request's context, which ends when the client goes away. Each of the three job
managers (scan, cover batch, maintenance) reserves a key in a map under its
mutex, inserts a row, reads it back and sends a job into a channel of 64 that
one worker goroutine empties; the admin page polls the rows. The managers share
no lock: scans and deletions of a library reach the others through foreign keys
with ON DELETE CASCADE. Readers, the batch worker, the maintenance worker and
the prefetcher meet in the archive service, where `cache.GetOrLoad` merges
loads of the same block or page. At shutdown `App.Close` cancels the managers'
contexts, waits for nobody, and closes the database; at start each manager's
constructor ends the rows a former process left queued or running.

**What is hard.** Check and action are separate statements everywhere (is the
library reserved, is a scan active, is the run canceled, was the row there);
contexts end between any two of them; rows disappear under the goroutine that
works for them; a process dies anywhere; the remote tree changes during a scan,
and even between two pages of one listing;
a channel fills up while its senders hold reservations. `PROJECT.json` lists
these hazards with their lines and the properties that cover them.

## 2. The modules

| Module | What it is |
|---|---|
| `RunLifecycle` | The abstract promise of a persisted job row: none → queued → running → success, partial, failed or canceled; results final; a cancel request is never taken back; a row may vanish. |
| `ScanQueue` | The scan manager's job control and the admin handlers that change a library. |
| `ScanCatalog` | What the scans of one library do to series, books and staging. |
| `CoverBatch` | The batch cover jobs. |
| `Maintenance` | The maintenance jobs, with the scans that move and remove their targets. |
| `SeriesCovers` | Cover files and their rows under the service's RWMutex, with scans that change the books. |
| `PageCache` | One type of the disk cache: flights, files before rows, eviction, Clear, the connection pool. |
| `RangeReader` | `ReadAt` by blocks, and the download URLs its fetches share. |
| `ArchiveIndex` | Indexes and pages by version of the book, and the prefetch of the next volume's index. |
| `ReadProgress` | Progress rows, the scans that move and remove their books, the derived statuses. |
| `MCScanQueue`, `MCScanCatalog`, `MCMaintenance` | Symmetries and tree shapes for TLC. |
| `ScanQueueProofs`, `ScanCatalogProofs`, `CoverBatchProofs`, `MaintenanceProofs`, `SeriesCoversProofs`, `PageCacheProofs`, `RangeReaderProofs` | Theorems about one module each, section 5. |
| `ReadingProofs` | Theorems about `ArchiveIndex`, which it extends, and about `ReadProgress`, of which it has an instance over the same books and series. |

**Grain.** A step is one database statement, one transaction, one critical
section of a mutex, one channel operation, one file operation or one remote
call, because another goroutine can run between any two of those and not within
them. Two places merge neighbours: receiving a job and making it active
(`TakeJob`; nobody can tell the two apart, since Cancel looks at `activeRunID`
only), and `selectedCount` with the reservation before it in `CoverBatch`.

**ScanQueue.** `queued`, `jobs`, `stopped` (the active context is canceled) and
`closing` (the manager's is) are the fields of `Manager`; `work` is the position
and the locals of `execute`, `request`, `canceler` and `admin` those of the
calls in flight. `StartLibrary` is `ReadLibrary`, `Reserve`, `InsertRun` /
`InsertFails`, `ReadBack` / `ReadBackFails`, `SendJob`; `StartAll` runs it for
each enabled library in turn. `execute` is `TakeJob`, `CheckCancel`,
`MarkRunRunning`, `MarkLibraryRunning`, `CheckConversion`, the outcome of the
scan, `CommitScan`, `FinishRun`, `FinishLibrary`, `Release`. A scan is only the
outcomes it can have. `Handlers` may lose their client at any statement;
`Backgrounds` (startup and scheduler) use the background context and may both
call `StartAll`, the scheduler only while nothing is reserved. A Backgrounds
actor may repeat the startup call, which the code makes once: more behaviours,
none fewer.

**ScanCatalog.** One library; `ScanQueue` proves that its scans do not overlap.
`place` is the remote tree of files, `series` and `books` the tables with
`seen_scan_id`, `staged` the staging tables, `scan` the worker. A directory is
taken from the queue (`ListDirectory`), listed by one remote call after the other
(`ListPage`: `PageSize` entries from the next offset on, of the directory as it
is at that call, until as many have come as it has then, or none), saved in one
transaction (`SaveDirectory`, which is `saveSeries` or `saveOneShots`, in place or
to staging), and progress is written (`UpdateProgress`). The remote side lists
files and subdirectories in one order of names (`Rank`), so a file that leaves an
earlier page moves the later entries up, and one that arrives moves them down:
the loop may skip an entry or show one twice. Directories are visited in any order
that respects the tree, of which the code's breadth-first order is one. The queue
`todo` counts, since a subdirectory shown twice is listed twice. `number_sort` is
the place of a file among the files shown. `before`, `settled` (files that have
not moved since the run started) and `torn` (directories that a file left between
two of their pages) are history variables for the properties.

**CoverBatch** and **Maintenance** follow the same scheme and keep the
differences between the managers, which is where they go wrong: which errors
release the reservation, whether a cancel ends a context or is polled, what is
returned before the release is deferred. `generated_count` and `skipped_count`
are counted together as `done`, since no result depends on which it was.
`Maintenance` contains the catalog as far as its foreign keys see it: books
move between series and both disappear. In `CoverBatch`,
`EnsureSharesCanceledFlight` is the cache's flight handing another request's
cancellation to the batch worker.

**SeriesCovers.** `known` and `book` are the catalog, `row` is
`series_thumbnails`, `file` the JPEG of a series, whose content is the book and
version it shows. `operationMu` is `owner` (a writer that has called Lock) and
`sharers`: a writer announces itself, then waits until the sharers are gone.
`inflight` are the claims. A `gen` is a `GenerateWithOptions` call: `Claim`,
the first book as a cover job reads it (`JobFirst`, `JobBook`) or the page a
reader was sent, then under the lock the first book again, the row, the file,
the INSERT. A `look` is `Get` (shared) or `HasValid` and `SeriesStats`
(exclusive), which delete what they judge stale. `Clear` removes the directory
and then the rows; `Restart` runs `cleanupOrphans`. The history variable `torn`
holds the series whose last generation died between the rename of the file and
the INSERT, until the next INSERT for them. At the start, covers of a former
process may be there.

**PageCache.** `file` and `lru` are the directory and `cache_entries` in order
of `last_access_at`, `flight` is `Manager.inflight`. A `call` goes through get,
touch, join, wait, load, rename, insert, the eviction's sum, select, remove,
delete and close, and forget. `Conns` is `SetMaxOpenConns`: an eviction keeps
the connection of its open query while it deletes. `Clear` removes file after
file and then the rows. Entries have size 1; `enforced`, a history variable, is
the limit the last eviction measured against.

**RangeReader.** `ReadAt` takes block after block: `Hit` or `Miss`, and a miss
is `PeekURL`, `DownloadURL`, `SaveURL`, `RequestRange`, `PutBlock`; a refused
request is `InvalidateURL` and one more try. The byte at offset i is i, so what
a call has copied can be compared with the file. The key of a block contains
the block size, because ZIP readers, RAR indexes and a changed setting use
different ones on the same file.

**ArchiveIndex.** A call works on the copy of the book's row it took when it
began. `index` is the version of the row in `zip_indexes`, `cached` the pages by
key with the version they were read from. A call lists pages (with or without
force), reads one, or is the prefetcher's worker; `jobs`, `pending` and `closed`
are the prefetcher's, with `Claim`, `Send` (which gives the key back when the
channel is full), `TakeJob`, `CheckSetting`, `NextBookInSeries`, `NextBook` and
`Finish`.

**ReadProgress.** `progress` and `loaded` are the two tables; each row has a
series column of its own, written from the handler's copy of the book. A
handler is its read (`StartPatch`, `StartDelete`, `SendPage`, `StartPut`) and its
write. `ScanBook`, `DropBook` and `DropSeries` are the scanner's writes with the
cascades of the foreign keys.

**Conventions.** Operators marked *Fault* are plausible bugs of the definition
that follows; no module uses them, and `PROJECT.json` pairs each with the
property that catches it. Run IDs are random in the code; `CoverBatch` and
`Maintenance` draw them in order, `ScanQueue` draws any fresh one.

## 3. The runs

| Run | Module, cfg | Instance | Shows |
|---|---|---|---|
| `scan_queue_safety` | MCScanQueue, ScanQueueSafety | 2 libraries, 2 runs, 1 handler, 1 canceler, 1 admin, channel of 1, 1 edit, 1 restart | `TypeOK`; `OneScanPerLibrary`; `Bookkeeping`: map, channel, worker, rows and callers tell one story; `LiveRowReserved`; `StopHitsOwnRun`; `RunningLibraryIsScanned`; the rows implement `RunLifecycle` |
| `scan_queue_live` | MCScanQueue, ScanQueueLive | 3 libraries, 3 runs, 1 background, 1 canceler, channel of 1, 1 restart, fairness | accepted runs end, reserved calls return although the channel is full and the worker busy, canceled scans end, early cancels hold |
| `scan_queue_leak` | MCScanQueue, ScanQueueLeak | 1 library, 2 runs, one actor of each kind | a violation, section 4 |
| `scan_catalog` | MCScanCatalog, ScanCatalog | a root with 1 subdirectory, 2 files, pages of 1 entry, 2 scans, 1 move, 2 edits, 1 restart | `TypeOK`; `ModeUniform`: modes are never mixed; `OldStructureKept`: a scan that has not committed has taken nothing away; `SuccessMatchesTree`: what stayed where it was is in the catalog, in its series, but for what a file that left between two pages can hide; `StagingBelongsToScan` |
| `maintenance_jobs` | MCMaintenance, MaintenanceJobs | 2 series, 2 books, 2 runs, index operations, 2 changes by scans | `CarriedRunsReserved`, `LeakOnlyByCascade`, `ResultsAddUp` |
| `maintenance_live` | MCMaintenance, MaintenanceLive | 1 series, 1 book, 2 runs, all operations, 1 change, 1 restart, fairness | `RunLifecycle` implemented, early cancels hold, sent jobs end |
| `cover_batch` | CoverBatch, CoverBatch | 1 library, 2 runs, up to 2 series, 2 edits, 1 restart, fairness | `TypeOK`, `CarriedRunsReserved`, `ReservedMeansWorking`, `StopHitsOwnRun`, `ResultsAddUp`, `RunLifecycle` implemented, every sent job frees its library |
| `series_covers` | SeriesCovers, SeriesCovers | 1 series, 2 books, 2 generations, 1 look, Clear, 1 change, 1 restart, fairness | `JudgedRowUnchanged`: what is deleted is what was judged; `ServesItsBook`, also after a crash; `ClaimsAreReleased` |
| `page_cache` | PageCache, PageCache | 2 keys, 2 readers, the settings page, pool of 2, limit 1, 1 change, 1 fault, fairness | `FlightAgrees`: one load per key, no lost wake-up; `RowsFitLimit`; `CallsReturn` but for `PoolDeadlocked` |
| `range_reader` | RangeReader, RangeReader | 2 readers, file of 3 bytes, block sizes 2 and 3, offsets 0 and 2, lengths 1 and 4, 2 URLs | `ReadsTheFile`, `RetryHasNewURL` |
| `archive_index` | ArchiveIndex, ArchiveIndex | 2 books of 1 series, 1 page, 1 reader, the worker, channel of 1, 1 change, fairness | `OwnVersion`: a call never mixes versions; `PendingAgrees`; `QueuedJobIsTaken` |
| `read_progress` | ReadProgress, ReadProgress | 2 books, 2 series, 1 handler, 1 change | a violation, section 4 |

**Bounds.** `MaxRuns` / `Runs`, `MaxEdits`, `MaxChanges`, `MaxMoves`,
`MaxRestarts`, `MaxSeries`, `MaxFaults`, `MaxAsks` bound what is otherwise
unlimited, each in the guard of the action that counts.

- *Managers.* Two runs are the smallest number at which a reservation is used
  again and a late step of one run meets the next. Two libraries (or targets) are
  needed for a cancel to hit the wrong one. One restart separates what the dead
  process left from what the next does. A third run, of a third library, is what
  the liveness of the scan queue needs: the worker is busy with the first, the
  second fills the channel of capacity 1, and the third waits in its send; the
  code's 64 places differ only in how many callers it takes. There StartAll starts
  all three, and the action constraint `InOrder` numbers runs in the order in which
  they are drawn and takes the libraries in the order of the query: names only, in
  place of symmetry, which is not sound for liveness. `scan_queue_safety` has one request
  at a time, so that two requests exclude each other rests on the theorem
  `ScansExclusive`, for any number of them. `maintenance_jobs` has no restart:
  `maintenance_live` has one, and `CarriedRunsReserved` after a restart rests on
  the theorem `RunsReserved`.
- *Catalog.* The subdirectory lies between the two files in the order of names, so
  that with pages of one entry a file that leaves the root lets the listing skip
  the subdirectory or the other file, and one that arrives shows an entry twice;
  a file can move out of a directory already listed, or into one, and leave a
  directory empty. A restart can hit any of it. Larger trees, pages and numbers of
  moves are the theorem's.
- *Covers.* Two books and one change make the first book of the series another
  one, or another version of itself, under two generations of which one holds
  the lock and one waits. With the one restart a generation dies between rename
  and INSERT, and another makes the cover again.
- *Cache.* Two keys at a limit of 1 make every Put evict; two readers are a
  flight's leader and follower, or two loads whose evictions meet; with the
  settings page there are three callers for two connections. TLC never lowers the
  limit; `LimitHolds` is proved for limits that change.
- *Range reader.* Three bytes in blocks of 2 and 3 give a full block, a short
  last one and a block as long as the file; the offsets and lengths start at a
  border, cross one and run past the end.
- *Indexes.* The second book is the next volume of the first; page 1 is the last
  one, so each page sent may trigger the prefetch; with a channel of 1 the second
  trigger finds it full.

**Fairness.** `FairSpec` (for `scan_queue_live` the same fairness in `OrderedSpec`)
assumes weak fairness of steps of goroutines that can
run: a call's next statement, the second half of Cancel, the worker's
statements (`~closing` in the managers, as after Close the process is about to
end), and the restart of a closed process. Go's scheduler, SQLite's busy timeout
and the timeouts of the HTTP clients justify it. No fairness is assumed of
callers, admins, clients, or of `Close`. In `ScanQueue` the end of a scan is a
separate assumption, `ScansEnd` (the remote tree is finite), which
`AcceptedRunEnds` and `ReservedCallReturns` name as a hypothesis and
`CancelledScanEnds` does without. In `CoverBatch` and `Maintenance` a job is a
bounded list of items each of which ends or fails. In `SeriesCovers` a writer
that asks for the lock gets it although others come and go (strong fairness of
`GenLock`: the starvation mode of `sync.Mutex`). In `PageCache` a statement that
waits for a connection gets one that stays free; that evictions may hold all of
them is not assumed away, and `CallsReturn` says so. In `ArchiveIndex` the
worker's remote reads end because each has a timeout of ten minutes.

**Deadlock.** The cfgs say `CHECK_DEADLOCK FALSE`: with no request in flight
and the bounds used up, the service rests. That nobody waits for ever is what
the liveness properties say instead.

## 4. Disagreements between the code and what it says of itself

Two are runs TLC finds violated; `PROJECT.json` quotes the text.

- `scan_queue_leak`: a read-back that fails after the INSERT returns without
  releasing the library and without sending the job. Every later start is
  refused as "already queued or running" until the process restarts.
- `read_progress`: the tracker's PUT deletes the rows whose own series is the
  series; a book that a scan moved keeps the column of its old series, and stays
  read after the PUT of the new one has set the mark below it.

Seven more are stated at the end of their modules and belong to no run. TLC refutes
each when it is added to the cfg named here.

| Property | Add to | What the code does |
|---|---|---|
| `ModeFixedWhileScanActive` | PROPERTIES of ScanQueueSafety.cfg, without SYMMETRY | updateLibrary asks for no active scan and writes later; a scan that starts in between runs while its library changes mode. `ScanCatalog` shows that the catalog survives it: the job's own mode decides, and a mixed catalog is staged. |
| `SettledFilesKept` | INVARIANTS of ScanCatalog.cfg | A directory is listed by offsets (1150 entries a call). A file leaves the root between two calls, the entries after it move up, and the next call starts behind one that never moved: a file, or a directory with all below it, is not seen, and the commit of the scan that reports success deletes its books. The next scan finds them again, as new books. |
| `FailedRunKeptData` | INVARIANTS of ScanCatalog.cfg | Commit and result are separate writes; a crash between them leaves a run reported failed whose deletions have happened. |
| `CanceledJobEnds` | PROPERTIES of CoverBatch.cfg | A cancel between taking a job and reading its row makes that read fail; execute returns without finish, and the row stays queued. |
| `CanceledOnRequest` | INVARIANTS of CoverBatch.cfg | The batch worker waits for a page another client is loading; that client goes away; the shared error is context.Canceled and the whole batch is reported canceled. |
| `ServesItsVersion` | INVARIANTS of SeriesCovers.cfg | A page of a version is read first, the row's version comes later from the book as it is then: after a scan the old picture is stored, and served, as the new version's. |
| `FilesFitLimit` | INVARIANTS of PageCache.cfg | An eviction removes a victim's file and then its row; a reader that puts the key again in between loses its row and keeps its file, which no eviction counts any more. |

Weaknesses that are stated by passing properties with their exact extent:
`LeakOnlyByCascade` (a maintenance job whose row was removed by cascade leaves
its target reserved, and as long as SQLite answers the worker's SELECT that is the
only way; a SELECT that fails returns the same way); `SuccessMatchesTree` (a file
that stayed is missing only if a file left its directory, or one above it, between
two pages of the listing); `CallsReturn` (evictions that keep a connection each
and wait for one more, which TLC reaches as `PoolDeadlocked`, are the only reason
why a cache call never returns); `ServesItsBook` (the file of a series shows
another book than its row only if the last generation of that series died between
the rename and the INSERT, and only until the next INSERT for it). The outcome `failed` of a scan canceled
before its conversion check is left open: `CancelledScanEnds` promises an end,
not its name.

## 5. The proofs

TLAPS proves, for any instance that satisfies the named assumptions, every
safety property that a passing run checks, and the two kinds of temporal
property that are not about fairness: the refinements of `RunLifecycle` and
`CancelBeforeStartHolds`.

| Theorem | Module | States |
|---|---|---|
| `TypeCorrect` | ScanQueueProofs | `Spec => []TypeOK`, where `TypeOK` includes `Holding`: whoever is past idle has a library and a run |
| `ScansExclusive`, `LiveRowsReserved`, `StopsOwnRun`, `BooksAgree` | ScanQueueProofs | `[]OneScanPerLibrary`, `[]LiveRowReserved`, `[]StopHitsOwnRun`, `[]Bookkeeping` |
| `LibraryStatusTrue` | ScanQueueProofs | `[]RunningLibraryIsScanned` |
| `RowsLive` | ScanQueueProofs | `Spec => RowsFollowLifecycle`: the manager implements `RunLifecycle` |
| `CanceledNeverStarts` | ScanQueueProofs | `Spec => CancelBeforeStartHolds` |
| `TypeCorrect`, `RunsReserved`, `ReservationsWork`, `StopsOwnRun`, `TotalsAddUp`, `RowsLive` | CoverBatchProofs | `[]TypeOK`, `[]CarriedRunsReserved`, `[]ReservedMeansWorking`, `[]StopHitsOwnRun`, `[]ResultsAddUp`, `RowsFollowLifecycle` |
| `TypeCorrect`, `RunsReserved`, `LeaksByCascade`, `TotalsAddUp`, `RowsLive`, `CanceledNeverStarts` | MaintenanceProofs | `[]TypeOK`, `[]CarriedRunsReserved`, `[]LeakOnlyByCascade`, `[]ResultsAddUp`, `RowsFollowLifecycle`, `CancelBeforeStartHolds` |
| `TypeCorrect`, `ModeNeverMixed`, `StagingOwned`, `OldDataKept`, `SuccessIsTree` | ScanCatalogProofs | `[]TypeOK`, `[]ModeUniform`, `[]StagingBelongsToScan`, `[]OldStructureKept`, `[]SuccessMatchesTree` |
| `TypeCorrect`, `LockHeld`, `DeletesWhatItJudged`, `ServesTheBook` | SeriesCoversProofs | `[](TypeOK /\ AtWork)`: with the types, that a call at work has a series and the book it looked up; `[]LockAgrees`, `[]JudgedRowUnchanged`, `[]ServesItsBook` |
| `TypeCorrect`, `OneLoadPerKey`, `LimitHolds` | PageCacheProofs | `[](TypeOK /\ AtWork)`: with the types, that an eviction that deletes has a victim left and one that selects is over its limit; `[]FlightAgrees`, `[]RowsFitLimit` |
| `TypeCorrect`, `ReadsWhatIsThere`, `RetriesWithNewURL` | RangeReaderProofs | `[]TypeOK`, `[]ReadsTheFile`, `[]RetryHasNewURL` |
| `TypeCorrect`, `CallsKeepVersion`, `KeysHeldOnce` | ReadingProofs | of `ArchiveIndex`: `[]TypeOK`, `[]OwnVersion`, `[]PendingAgrees` |
| `ProgressTypeCorrect`, `RowsKeepParents`, `StatusesDivide` | ReadingProofs | of `ReadProgress`: type correctness, `[]RowsHaveParents`, and that the three read_status filters divide the series in any state |

*Scan queue.* `OneScanPerLibrary` is not inductive: that a request about to send
has no rival in the channel follows only from both being the run the map holds.
`Reservation` therefore joins `TypeOK`, `OneScanPerLibrary` and
`ReservationsAgree` (who carries a run carries the one its library is reserved
for, and no run is reserved twice). `Ledger` adds `RowsAgree` (rows, callers and
cancelers agree on run and library), which is what makes `LiveRowReserved` (a
release is preceded by a finished row) and `StopHitsOwnRun` (the context a cancel
ends belongs to the run it marked) inductive. Steps of one actor are factored
through lemmas that say what the step leaves alone, so that each conjunct is
proved once per kind of change. `RunningLibraryIsScanned` needs `LibrariesAgree`
beside it: a library that was deleted has no status, so a worker's late write to
it changes nothing. The refinement rests on `Story`, which adds to `Ledger` how
far each run has come: one about to be sent or in the channel has a row that is
still queued or was removed, and the worker's position fits the status of its
row. `CanceledNeverStarts` is an
invariant from the moment of the cancel on: `Doomed` says that the row is
queued and marked or has ended, and that the worker, if it has the run, is on the
way to finish it as canceled or failed.

*Cover batch.* `BatchInv` has the same skeleton (`CarriedRunsReserved` with
`CarriersApart`: nobody carries another's run) and two additions that the
manager's own differences need. `ReservedMeansWorking` is inductive because each
return of `Start` and of `execute` after the reservation releases it.
`ResultsAddUp` needs `WorkAddsUp` (the series that are done, that failed and that
are still to do are all the job found) and `CountsAgree` (a queued row has counted
nothing, and no row counts beyond its total), since a restart or a cancel ends a
row with the counts it has.

*Maintenance.* `JobsInv` differs from it in one point, which is the one that
matters: the worker learns its key from a row, so `CarriedRunsReserved` speaks of
the row's key, and a row that a cascade removes keeps it in the model's memory
only. From that follows where a reservation can be lost: `LeakOnlyByCascade` is
inductive because the one return of `execute` without a release is the one whose
SELECT finds no row.

*Catalog.* `ModeUniform` rests on what a scan knows after its conversion check:
an in-place scan has found no series of the other mode, and only it writes
series, so all it adds is of its mode; a conversion's staged series are all of
its mode and replace the catalog in one transaction. A change of the library's
own mode plays no part, since the job carries a copy. `KeepInv` adds to
`OldStructureKept` that the catalog is untouched up to the conversion check and
that a scan at work has no outcome yet. `SuccessMatchesTree` is the deepest: its
invariant `TreeInv` follows the scan through the tree. Every row it wrote carries
its stamp (`Stamped`); while it is under way the rows it wrote are true of every
file that has not moved, and there is a set of explored directories that, where
they are not torn, have their settled files among them, but for the directory
being saved, and their children explored or still to do (`Underway`). What one
listing has shown is `Listed`: nothing between two directories (`Between`); of the
files that have not moved, only those of the directory (`Showing`); and, unless it
is torn, each of its entries that has not moved and lies before the next offset
(`InPages`, `Shown`), hence all of them once the listing has ended (`AllShown`).
That needs some counting: as long as nothing leaves, the place of an entry
(`Position`, the number of names before it) can only grow, so what has yet to be
shown stays ahead of the offset; a place is taken once (`PositionOnce`), so a list
as long as the directory means that the offset is past its end (`OutCount`), and so
does an empty page (`EmptyPage`). At
the commit nothing is left to do, so the explored set is closed under the children
of untorn directories and contains `Reached`, which by `TreeAssumption` is the
whole tree if none was torn.

*Covers.* `CoverInv` joins the types, `LockAgrees` (who holds `operationMu`, and
that its holders exclude one another), `JudgedRowUnchanged` and `FilesPair`:
unless the series is torn, a row with no generation about to insert has a file of
its book or none, because a generation that holds the lock is alone with file and
row. A crash ends all generations, and those that were about to insert make their
series torn; the next INSERT, which succeeds with the file just renamed or fails
and removes it, mends it. That scans
take no lock does no harm to it: they take whole rows away and never write one.

*Page cache.* `TypeInv` adds to `TypeOK` that a reader at work has a key and an
eviction at work something to remove (`AtWork`, which `TypeCorrect` states too). `FlightAgrees` is then inductive: a reader
enters `flight` and the loading positions in one critical section and leaves
both in one, and whoever waits is answered just before the flight ends.
`RowsFitLimit` says nothing of the moments in between, so its invariant `FitInv`
does: no key has two rows, and while there are more rows than the limit last
measured against, somebody `Owes` the difference. That is an eviction that has
yet to sum, or one that summed under this limit, has counted at least the rows
there are, and has selected enough victims; a row put after its sum belongs to a
Put that has its own eviction before it. The sequences of rows and victims use
the library's sequence theorems; the module does without the community's
sequence operators, because some of those are RECURSIVE.

*Range reader.* `ReadInv` says of every call that what it has copied is the range
from its offset (`Reads`), that a call that returned has the whole of it or the
right error (`Returns`), and that a retry's URL is younger than the one refused
(`Retries`); of the cache, that a block under a key is the file's block of that
size and index; of the table, that its URL is one that was asked for. The
arithmetic of blocks is in lemmas about `BlockOf`, `Cut` and `Join`: the block of
an absolute offset contains it, and a piece of a block after the bytes before it
is again a range.

*Indexes and prefetch.* `ReadInv` types the calls exactly (`CallOK`), and keeps
three things beside the types: every cached page is of the version in its key, the
pages a call holds are of its copy's version, and the keys. For the keys
`PendingAgrees` is split into `Kept` (a key is pending exactly if a queued job, the
worker or a caller about to send has it) and `Apart` (no two of them have the
same); a claim then has no rival because its key was not pending, and a finish or
a full channel gives back a key nobody else has. All other steps are `Walks`, of
which one lemma says that they leave the keys alone.

*Progress.* `RowsKeepParents` needs nothing beyond types and the foreign keys: a
write with the copy of a book that is gone, or whose series is gone, is refused,
and a row goes with its book or with the series it names.

*Assumptions.* The named ASSUMEs of the modules (`ConstantsAssumption`,
`CatalogAssumption`, `TreeAssumption`, `BatchAssumption`, `MaintenanceAssumption`,
`CoverAssumption`, `CacheAssumption`, `RangeAssumption`, `ArchiveAssumption`),
which TLC evaluates in every run. They type the bounds and keep "none" apart from
the things it stands in for; `CatalogAssumption` also says that names have one
order (`Rank`) and a page at least one entry. `TreeAssumption` says that the
directories are those reached from the root, which is what a library is: the scan
starts at the root and a directory is one some directory lists. `ReadProgress` has no ASSUME; in
`ReadingProofs` it shares books, series, pages and bounds with `ArchiveIndex`, and
`ArchiveAssumption` says of them that books are numbers and that "none" is no
series.

*Model-checked only.* The properties with ~> (`AcceptedRunEnds`,
`ReservedCallReturns`, `CancelledScanEnds`, `ClaimsAreReleased`, `CallsReturn`,
`QueuedJobIsTaken`): they rest on fairness, and liveness under fairness is out of
the prover's reach, as is ENABLED. The two violations of section 4 are
counterexamples and have nothing to prove.

## 6. What is abstracted or left out

- Names, sizes of files and entries, times, counters of progress, error texts,
  logging, download statistics.
- SQLite is a store of rows whose statements are atomic, and succeed while the
  database is open, the statement's context lives and the foreign keys hold. A
  busy or failing disk is not modelled, except where a failure is an outcome
  (a scan, an item, the commit, a Put, an eviction's DELETE).
- The scheduler's arithmetic of due times: it may start whenever nothing is
  reserved.
- Queries that page, filter and sort the catalog, natural order, `Runs` and
  `Run` as queries of the admin page: no state of their own. `number_sort` is
  part of the models that depend on it.
- The 115 account: the token pair is kept, refreshed and serialised inside the
  SDK, whose source is not in the repository, so that when the refresh callback
  of a replaced client runs cannot be translated. `DownloadURL` is a request
  that succeeds or fails.
- The remote tree: files move, arrive and leave at any moment, subdirectories stay.
  A call of the listing is answered from one state of the directory, entries and
  count together, ordered by one fixed order of names. TLC uses pages of one entry
  where the code asks for 1150; the theorem holds for any size.
- The ZIP and RAR formats and the handles of the RAR reader, image scaling,
  templates and static files, CORS, command line: library code or stateless.
  That an archive's pages are those of its version is what `ArchiveIndex` keeps
  of the formats.
- Schema and migrations: the keys and cascades are in each model that depends
  on them, the upgrades of old databases in none.
- HTTP routes: those that change state are the calls of the models; the rest
  translates.

## 7. The plan

What remains, in the order of what it adds:

1. Proofs of what the liveness properties rest on and safety can say: that the
   worker of each manager, whenever it is at work, has a next step, and that a
   full channel has a worker to empty it.
2. The exact extent of the weaknesses in section 4: that a file without a row
   (`FilesFitLimit`) comes only from an eviction that met a Put, that a cover of
   the wrong version comes only from a scan between page and row.
3. The components together: a scan's deletions as the environment of
   `CoverBatch`, `Maintenance` and `ArchiveIndex`, each of which now has its own
   nondeterministic scanner.
4. Larger instances: two libraries and two requests in `CoverBatch`, three
   readers in `PageCache`.
