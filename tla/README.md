# Autoscan: TLA+ model

Autoscan tells media servers (Plex, Emby, Jellyfin, another autoscan) that a folder has
changed. *Triggers* turn events (webhooks, inotify, the change list of a Google Drive)
into *scans*, a SQLite table keeps them until they are old enough, and one loop hands
them, one folder at a time, to every *target*.

This directory holds TLA+ modules translated from that code, TLC configurations that
check them on small instances, and theorems about them that TLAPS proves for every value
of the constants.

- [Inventory](#inventory): the parts of the program, their state, what is hard about them
- [Modules](#modules): which module models which part, variable by variable
- [Runs](#runs): what each run checks, its bounds, the fairness it assumes
- [Disagreements](#disagreements): where the code does not do what the documents say
- [Proofs](#proofs): what is proved, from what, along which argument
- [Abstractions and omissions](#abstractions-and-omissions)
- [What is left](#what-is-left)

To run: `tlc -workers 2 -config processor_safety.cfg MCProcessor.tla`, and likewise for
the other `.cfg` files (`inotify` and `un*` with `MCInotify`, `service` with `MCService`,
`delivery` with `MCDelivery`, `drive_diff` and `endless_path` with `MCBernardDiff`); `tlapm` on
each of `DataLemmas.tla`, `ScanStoreProofs.tla`, `ProcessorProofs.tla`, `InotifyProofs.tla`,
`BernardSyncProofs.tla`, `ServiceProofs.tla`, `BernardDiffProofs.tla` and `DeliveryProofs.tla`
for the proofs.

## Inventory

How the parts interact:

    webhooks  inotify  bernard            goroutines: HTTP handlers, watcher, cron jobs
        \        |        /
         processor.Add(scans...)          any number at a time
                 |
         datastore.Upsert                 one transaction on the only read-write connection
                 |
           table "scan"  <---- migrations, at start-up
                 |
         runScanLoop -> CheckAnchors -> CheckAvailability -> Process
                                                              |  GetAvailableScan (read)
                                                              |  callTargets (parallel HTTP)
                                                              |  Delete (read-write)

| component | state | operations | what is hard | what makes it correct |
|---|---|---|---|---|
| Scan table (`processor/datastore.go`, `processor/migrations`) | one row per folder: relative path, priority, time (whole seconds) | Upsert of a batch in a transaction, GetAvailableScan, Delete, GetScansRemaining | rows merge; stamps are taken before the transaction; one connection; failures in a transaction | a row says what the committed events of its folder say; a failed batch leaves nothing |
| Processor (`processor/processor.go`) | the datastore, `anchorState`, `processMu` | Add, CheckAnchors, CheckAvailability, Process | the row is read, handed over and deleted in three statements, and Add may commit between any two | no scan is lost; the minimum age holds; the most urgent goes first |
| Scan loop (`cmd/autoscan/main.go`) | `targetsAvailable`, the process itself | start-up, the loop, sleeping, exits on fatal errors | exits in the middle of anything; a remembered flag; triggers are served before targets are known | no folder is handed over before anchors and targets have been seen; the table empties |
| SQLite connections (`internal/sqlite`) | pools of connections; one may write | New, BeginTx, Exec, Query | every writer waits for the same connection | no path keeps the connection |
| Stats (`stats`, `cmd/autoscan/stats.go`) | three atomic counters | increments, Snapshot, a periodic log | the counters are read one after the other, for a log line only | - |
| Migrator (`migrate`) | the table of versions per component | Migrate | a crash between two migrations | each migration is applied once, in order |
| Inotify (`triggers/inotify`) | watches, a map of ready paths with their times | New, worker, queue worker, process | a directory is watched after it exists; paths leave the map before they are added | a file that is moved or created causes a scan |
| Bernard jobs (`bernard.go`, `limiter.go`, `datastore.go`) | page token, store of folders, cron jobs, a semaphore per account, attempt counters | full sync, partial sync, watchdog, retries | the token moves before the scans are added; five failures remove the job | every change of the drive is added once, or lost in a named way; slots are given back |
| Bernard diff (`paths.go`, `postprocess.go`) | none: pure | paths of a diff, reclassification, scan tasks | parents that are missing or circular | every folder in which a file changed is scanned; the hooks return |
| Webhooks (`triggers/*`) | none | decode, map to folders, rewrite, Add | renames, events without a path | each event names every folder it changed |
| Targets (`targets/*`, `internal/httpclient`) | libraries, rewrites | New, Available, Scan | classes of error: unavailable, fatal, not matched | every server is told of every change in its libraries; the class decides retry or exit |
| Rewriting and filters (`rewrite.go`, `filter.go`) | compiled expressions | rewrite, filter | the first matching rule wins | a path is rewritten at most once |
| Router, configuration, logging | ready flag | routing, authentication | - | - |

`PROJECT.json` lists the hazards at their lines and the properties that cover them.

## Modules

| module | models | kind |
|---|---|---|
| `ScanStore` | the statements of `processor/datastore.go` as operators on the table | pure |
| `Processor` | Add, the scan loop, Process and the process around them | state machine, extends `ScanStore` |
| `ScanQueue` | what the processor promises: an at-least-once queue of folders | abstract state machine |
| `ProcessorProofs` | theorems about `Processor` | proofs |
| `Inotify` | the inotify trigger: worker, walks, queue, and the file system they race with | state machine |
| `InotifyProofs` | theorems about `Inotify` | proofs |
| `Migrator` | the migrations of a component's tables, statement by statement | state machine |
| `BernardSync` | the sync jobs: cron, slots, retries, page token, callback | state machine |
| `Service` | the process: migrations, then triggers; extends `BernardSync` and `Migrator` | composition |
| `BernardSyncProofs`, `ServiceProofs` | theorems about them | proofs |
| `BernardDiff` | a drive, its store, and the two hooks that make paths of their difference | state machine |
| `Webhooks` | what each HTTP trigger makes of a request; rewriting and filtering | pure |
| `Targets` | what each target makes of a scan | pure, extends `Webhooks` |
| `Delivery` | the way of a change to the servers; extends `ScanStore`, `Targets`, `BernardDiff` | composition |
| `DataLemmas` | numbers, prefixes and orders of finite sets, used by the proofs below | proofs |
| `ScanStoreProofs` | what an upsert, a batch of them and a delete make of the table | proofs |
| `BernardDiffProofs`, `DeliveryProofs` | theorems about `BernardDiff` and `Delivery` | proofs |
| `MC*` | small instances: batches of scans, trees, requests, libraries | constants for TLC |

The state of the whole program is cut along `processor.Add`. `Callback` and `CallbackFails`
of `Inotify` and `BernardSync` are what a client of `Processor` sees of its call, and
`AddReturns` of `Processor` is what their fairness assumes. `Processor` has the table, its
transactions and the order of dispatch, and takes what a scan says as given; `Delivery` has
what scans say, and takes any row to be the next; `BernardSync` has when a sync hands its
scans over, `BernardDiff` which scans these are.

### ScanStore

The table is a function from `Folder` (the primary key) to a row or `NoRow`.
`Upserted` is `INSERT ... ON CONFLICT (folder) DO UPDATE`: `Merged` overwrites the
relative path and the time and keeps the larger priority. `Available` is `WHERE time < ?`,
`Candidates` the rows that `ORDER BY priority DESC, time ASC LIMIT 1` may return: rows
that tie in both are SQLite's choice, and any of them may be returned. `Deleted` is the
`DELETE`, by folder alone. `UpsertedAll` is the loop of `Upsert` over a whole batch: what
`Delivery` does in one step and what `BatchesAreAtomic` compares a commit with. The field `at`
of a scan and a row is history.

### Processor

| variable | in the code |
|---|---|
| `clock` | the wall clock, in ticks; `TicksPerSecond` of them are one second of the table |
| `table` | the committed rows |
| `draft`, `conn`, `next`, `batch` | the open transaction of `Upsert`: what its connection sees, the trigger whose transaction it is, the position in its `range scans`, the arguments of each trigger's call of `Add` |
| `loop` | the program counter of `runScanLoop`: `anchors`, `checking` (in `CheckAvailability`), `pick`, `call` and `delete` (in `Process`); `init` before the targets are initialised; `down` when there is no process |
| `nextAnchor`, `anchorState` | the loop of `CheckAnchors` |
| `targetsAvailable` | the variable of `runScanLoop` |
| `answer` | what each target's goroutine has returned in the current errgroup or `WaitGroup` |
| `picked` | the scan in `Process` |
| `stats` | `stats.Stats` |
| `health`, `anchorUp` | the environment: whether targets answer, whether anchors exist |
| `adds`, `faults` | counters of the bounds `MaxAdds` and `MaxFaults` |
| `seen`, `owed`, `overtaken`, `verified` | history, read by no action: the events merged into a row, the targets not told of a folder since its last event, folders that had an event committed while in `Process`, targets available since they last failed |
| `sighted` | history: the anchors found since this round of the loop began, which is not what `anchorState` remembers of earlier rounds |

The actions, in the order of the code. *Trigger*: `Add` (stamp the scans, count them,
call `Add`), `Begin` (the pool hands out its one connection), `ExecUpsert` once per scan,
`Commit`; `BeginFails` and `Rollback` are the error paths with their deferred rollback.
*Loop*: `StatAnchor` once per anchor, `AnchorsChecked`, `AnswerAvailable` once per target
in any order, `TargetsAvailable` / `TargetsUnavailable` / `TargetCheckFatal`, `Pick` /
`NoScans` / `PickFails`, `AnswerScan` once per target in any order, `TargetsCalled` /
`CallUnavailable` / `CallFatal`, `Delete` / `DeleteFails`. *Process*: `Boot`,
`InitTargets`, `InitTargetsFails`, `Crash`; every fatal exit is `Exit`, which forgets the
memory and the open transaction and keeps the table. *World*: `Tick`, `TargetFails`,
`TargetRecovers`, `AnchorLost`, `AnchorBack`.

### ScanQueue

A set of folders that are due, the folder being handed over, and the targets that took it
in this attempt. A folder stops being due only when every target took it in one attempt;
an attempt may be abandoned at any time. `Queue` in `Processor` is the refinement
mapping: due are the folders with a row, current is `picked`, and a target took the scan
when its answer is "ok" or "library not matched" (which the code treats as success).

### Inotify

| variable | in the code |
|---|---|
| `present` | the paths that exist: any tree over `Path`, `Dir`, `Parent` |
| `watched`, `events` | the watches and the queue of the kernel and fsnotify; `QueueSize` events fit |
| `worker` | the program counter of `daemon.worker` (and of `startMonitoring`, which walks before it): `walk` (between two names of `filepath.Walk`), `watch` (names read, `watcher.Add` next), `idle`, `stat`, `send` (blocked on `queue.inputs`), `dead` (`startMonitoring` failed) |
| `starting` | the walk is that of `startMonitoring`: an error ends the trigger, not only the walk |
| `todo`, `current`, `names` | the recursion of `filepath.Walk`: sets of names still to visit, innermost first; the directory, or the event's path, at hand; the names read in it |
| `scans`, `ready` | `queue.scans` as the ticks left to each folder; the slice `ready` of `process` |
| `blind`, `stale`, `missed` | history: directories no event or walk will reach, folders with an undelivered change, folders with a change that raised no event or lost it |

`FolderOf` stands for `getPathObject`, the rewriter, the filter and the rule that a path
with an extension means its directory: a constant function, `Filtered` where the filter
rejects. `Create`, `Remove` and `Write` are the file system, between any two steps of the
trigger; a rename is a `Remove` and a `Create`, a tree that is moved in is a tree made
before its root is watched. `WalkDir` reads the names of a directory, `Watch` is `walkFunc` on it: in
this order, as `filepath.Walk` calls its function after it has read the names. `WalkFails`,
`WatchFails` and `WatchRefused` are the errors of a walk. `Send` is the rendezvous on the
unbuffered channel with `queue.add`: it is possible only while the queue is not calling the
processor.

### Migrator

`schema` is the sequence of migrations executed on the tables, `recorded` the rows of
`schema_migration`, `tx` what an open transaction sees of both. `Migrate` reads the versions
once (`migrate/migrator.go:48-61`); then each missing version, lowest first, is one
transaction: `Begin`, `Exec`, `InsertVersion`, `Commit`. `Ended` is an error of any
statement or the death of the process. It starts from the tables of any older release.

### BernardSync

| variable | in the code |
|---|---|
| `up`, `trigger` | the process; whether `startAutoSync` has run or has failed |
| `job`, `attempts`, `fullSync` | the cron entry; `syncJob.attempts`; the variable of `setupDrive` that the closure of the job shares |
| `phase` | where the job is: waiting for `limiter.Acquire`, in a full or partial sync, between the stored token and the return of the callback |
| `waiters`, `free` | the semaphore of an account: its queue and its free slots |
| `hand` | the scans of a diff, which exist only in memory |
| `token`, `head` | the page token in the database; the last change of the drive |
| `handed`, `baseline`, `lost`, `streak`, `refused` | history |

`StartAutoSync` and `StartFails` are `startAutoSync` with `setupDrive` for each drive.
`Fire` is cron with `SkipIfStillRunning`, `Acquire` the semaphore (first come, first
served). `FullSyncDone`, `PartialSyncEmpty` and `PartialSyncDone` are the library's calls
that store changes and token in one transaction; `Callback` and `CallbackFails` what comes
of `processor.Add`. Every end of a run is `Succeed` or `Fail`, both with the deferred
`Release`.

### Service

`main` in order: `MigrationStep` until `migrator = "done"`, then `InitDaemonTriggers`, then
the jobs. `Die` is a crash of everything at once. `ServiceSpec` implements `BernardSync`'s
`Spec` (theorem `ServiceImplementsSync`): the migrations only delay.

### BernardDiff

`drive` is the drive and `store` the library's tables, both a record (parent, name, trashed)
for each ID. Between two syncs the drive is changed by `Upload`, `Move`, `Rename`, `Trash`,
`Restore` and `Delete`. `Added`, `Changed` and `Removed` are the difference after
`NewPostProcessBernardDiff`; `Current` and `Old` the maps of `getDiffFolderMaps` with the
store behind them, as `getFolder` and `getFolderPath` read them; `NewParents` and
`OldParents` the result of `getDiffFolders`; `NewFolders` and `OldFolders` the paths. `Up`
follows parents for as many steps as there are folders: a way that has not ended by then
has no end (`Endless`), and the sync hangs. `NotFound` is the error of `getFolder`: a folder
of the two sets, or one above a folder of them, is neither in the maps nor in the store.

`IsTree` is what a drive is: every item but the top has a parent that is known, every way up
ends at the top, and what is in a trashed folder is trashed. It is assumed of the first
drives only (`TreesAssumption`), and proved of every later one and of the store.

`ChangedPaths` is the reference: the folders in which a file came, went or took another
name, computed from the drive and the store alone.

### Webhooks and Targets

A path is a sequence of names. Each handler is a set of batches: one batch for a request
that is answered 200 (Sonarr's in any order, as it ranges over a map), none for one that is
answered 400. `Rewritten` is the first rule that matches. A target is the set of requests
it sends for a row; none is `ErrLibraryNotMatched`.

### Delivery

| variable | in the code |
|---|---|
| `table` | the table, by the operators of `ScanStore` |
| `libraries`, `known` | the libraries a server has; those its target fetched in `New` |
| `alive` | the process |
| `store`, `drive`, `stuck`, `ops` | those of `BernardDiff` |
| `owed`, `grouped` | history: what each server has not been told of; pairs of a waiting change and a file that a row says, announced with the change or after it |

`Event` and `Rules` are the types of the requests and rewrite rules; the one thing asked of
them is that no rule of Lidarr and Readarr is for a file (`RulesNameFolders`): these handlers
rewrite the path of the file and take its folder after. `Wanted` is what a sync should scan:
`ChangedPaths` that the filter lets pass, except those that `RootFolders` left out for a folder
above that the filter rejects or that a rule moves elsewhere (`StandsFor`).

`Means` says what the sender of an event means, independently of the handlers, and `Owes`
to which libraries of which server that matters. `Webhook` and `PartialSync` hand over what
the code makes of it and owe what was meant; `Process` pays what its requests tell
(`Tells`), and forgives only the ways to lose something that are named in `Forgiven`.
`ProcessFails` leaves some targets, and Plex some libraries, untold.

## Runs

| run | specification | asks |
|---|---|---|
| `processor_safety` | `Spec` | `NoScanLost`, `RowsAreCommittedEvents`, `DispatchIsGated`, `ImplementsQueue`, `BatchesAreAtomic`, types |
| `processor_time` | `Spec` | `MinAgeRespected`, `MostUrgentFirst` |
| `processor_liveness` | `FairSpec` | `AddReturns`, `Drains` |
| `lost_file` | `Spec` | `EveryFileDispatched`: violated |
| `young_file` | `Spec` | `WaitsForAllFiles`: violated |
| `inotify` | `FairSpec` | `NoGap`, `ChangesAreKept`, `ChangesArrive`, types |
| `unwatched_directory` | `Spec` | `DirectoriesAreWatched`: violated |
| `unseen_file` | `Spec` | `ChangesAreAdded`: violated |
| `service` | `FairServiceSpec` | `SlotsAccounted`, `NothingSkipped`, `HandedOnce`, `FullSyncOnlyOnce`, `GivenUpInTime`, `SchemaIsRecorded`, `JobsFindNewTables`, `ChangesAreSettled`, types |
| `delivery` | `FairSpec` | `NothingUntold`, `DiffsAreCovered`, `ServersAreTold`, types |
| `drive_diff` | `DiffSpec` | `FoldersAreFound`, `OnlyTrashedMovesHang` |
| `endless_path` | `DiffSpec` | `SyncsEnd`: violated |

**processor_safety** (2.5 million states). Two triggers, two targets, one anchor, two
folders, two priorities, and two failures placed anywhere: of a request, a target, an
anchor, a statement or a commit, or the process. Two triggers are enough for one to wait
for the connection of the other while the loop holds a scan; a batch with both folders is
needed for a rollback that has something to undo, an empty batch for the early return;
two targets are needed for one to take a scan that the other refuses; two failures let a
target fail and the process die in the same attempt. The clock has to pass the minimum
age once after the last stamp (`MaxStamp`) so that every row becomes available.

**processor_time** (3 million states). Two ticks to a second, so that a stamp and a cutoff
fall into the second half of theirs; minimum age 3 ticks, which is not a whole number of
seconds; offsets of a drive (a stamp in the future); both priorities and batches that name
a folder twice. No failures: these properties are about stamps and order, and
`MinAgeRespected` is proved with failures too.

**processor_liveness** (100 thousand states). One target, one anchor, two failures,
everything else as above; the failures are bounded and then stop, which is what the
properties assume.

**inotify** (485 thousand states). Three directories below each other, a file in each
of the two lower ones and one the filter rejects, starting from every tree of them. Five
changes are enough to make two directories in each other, a file in the inner one, and to
remove one while a walk visits it; a queue of two events overflows; one failure is a watch
that is refused or a callback that fails.

**unwatched_directory**, **unseen_file**. The same tree, no failures and a queue that
never fills.

**service** (194 thousand states). Two drives of two triggers and one account with one slot:
whoever leaks it or takes it twice is seen at once. Three changes of each drive, the second
rejected by the filter, so that a diff may be empty, mixed or hold several changes, and a
change may fall before, between and after two syncs or a full sync and its token. Two
failures with `MaxRetries = 2` are enough to remove a job, to not remove one that succeeded
in between, and for a second crash to hit the recovery from the first. Three migrations, of
which the database may hold any prefix.

**delivery** (159 thousand states). Two events (requests of seventeen kinds, among them a rename
within one folder, and changes of the drive in any mix), one failure or restart, four targets: Plex with a rewrite rule, a library
and a second one below it that is made later; Emby; Jellyfin with two libraries one in the
other; another autoscan with a rewrite rule. Two events meet in one row, in a row and the one
above it, or in two syncs. The drive is `/media/tv/e1` or `/tv/media/e1`, one folder in the
other, with a file that may take a second name and room for one more; its filter rejects one of
the two and its rules name a folder below another, so that a folder above may stand for one
below, or not. Its rules differ from those of Sonarr, whose second rule must never be used.

**drive_diff** (40 thousand states). Three folders and a file, nested or side by side, of
which one folder may take a second name, and four changes with syncs between any two: a circle
of old parents needs three folders and three changes, and the fourth may restore, delete or
rename what is in it.

**endless_path** (violated after four steps). The same with three changes.

Deadlock is checked in the runs of `Processor` and `Inotify` (`Tick` stops at `MaxClock`,
but the loop never does, and time passes for ever in `Inotify`). In `service`, `delivery`,
`drive_diff` and `endless_path` it is not: the jobs of all drives may have been removed, the queue may be
empty with no event left, the sync may hang.

Bounds: `MaxClock` (the clock stops), `MaxStamp` (no trigger fires later), `MaxAdds`
(calls of `Add`), `MaxFaults` (failures). They are guards of `Tick`, `Add` and `Fault`
only; none of them is assumed by a proof beyond being a natural number. In `Inotify`,
`MaxOps` (changes of the file system) and `MaxFaults` likewise; `MaxChanges` and `MaxFaults`
in `BernardSync`, `MaxOps` in `BernardDiff`, `MaxEvents` and `MaxFaults` in `Delivery`; `QueueSize` is not a bound
of the model but the kernel's, and small so that it is met.

**Fairness** of `Processor` (used by `processor_liveness` only). Weak fairness of:

- `Upserting(c)` and `Looping`: goroutines are scheduled; nothing but the connection
  blocks them, and the pool serves waiting callers in order.
- `Answering(t)`: a request ends: every target uses a client with a time-out
  (`internal/httpclient/client.go`).
- `Boot`: the process runs in a container that is restarted (README of the repository,
  `--restart=unless-stopped`).
- `TargetRecovers`, `AnchorBack`, `Tick`: assumptions on the environment. Without them a
  scan waits for ever, as it should.

In `Inotify`: `Working` and `Queueing` (both goroutines are scheduled, and `processor.Add`
returns, which is `AddReturns`) and `Tick`. Nothing is assumed of the file system.

In `Service`: `Boot` (as above), `MigrationStep`, `InitDaemonTriggers`, and for each drive
`Fire` or a step of its running job: cron and the goroutines of the jobs are scheduled, and
the library's requests end. That a sync ends at all is assumed here; `endless_path` is about
the case in which it does not. `ChangesAreSettled` allows a job that was removed and a
trigger that did not start: the code gives up on both until the next start of the process.

In `Delivery`: the loop dispatches some row while there is one, and the process is started
again. Which row is first is left open here, so that no property rests on the order.

No fairness is given to `Add`, to an event or change, to any failure or to `Crash`. Failures of single requests
are bounded by `MaxFaults`: a request that fails every time keeps its folder first in the
queue for ever and so blocks the others (listed under hazards).

Each property of a passing run has a mutant in `PROJECT.json`: a plausible wrong version of
one definition (defined next to it, with a comment that begins with "Mutant:") under which
TLC finds the property violated. `DispatchIsGated` and `NothingUntold` have two, one for each
of their halves.

## Disagreements

**A file added while its folder is in Process is lost** (`lost_file`). `Process` reads a
row, calls the targets and deletes the row by folder. `Add` commits on another goroutine;
an event of the same folder that commits between the read and the delete is merged into
the row, and deleted with it. Nobody is told of its file unless the target happens to
read the folder later than the file appeared, and the minimum age of that file is not
waited for. The README promises that the processor "waits until all the files in that
folder are older than the minimum-age". `NoScanLost` states what remains true: this
window (`overtaken`) is the only way to lose a committed scan.

**A row can move back in time** (`young_file`). The upsert sets `time = excluded.time`,
the stamp of the transaction that commits last. A trigger stamps before it waits for the
connection, so two triggers can commit in the opposite order of their stamps; a drive with
a time-offset does it without any race. The folder is then handed over before its youngest
file has the minimum age. `MinAgeRespected` states what remains true: the minimum age
holds for the event that committed last.

**A directory made at the wrong moment is never watched** (`unwatched_directory`).
`filepath.Walk` reads the names of a directory and then calls `walkFunc`, which adds the
watch. A directory made in between (`mkdir -p a/b` as the worker handles `a`) is neither
visited nor announced. Nothing in it is ever noticed again. `filepath.WalkDir` calls its
function before it reads the directory. `NoGap` states what remains true: this window, an
overflow of the kernel's queue and a walk ended by an error are the only ways to leave out
a directory of a watched one.

**A file that arrives with its directory causes no scan** (`unseen_file`). A new directory
is watched and then forgotten; `walkFunc` ignores files. What was in the directory before
the watch raises no event, which is the normal case for a folder that is copied or moved
in. `ChangesAreKept` states what remains true: a change that did raise an event is kept.

**A sync may never end** (`endless_path`). `getFolderPath` follows parents through a map of
old folders, in which a folder that was moved has its old parent, but one that was trashed
since the last sync has its new one (`reclassifyTrashed` keeps the new record). With
`/a/b/c`, move b to the top, move a into c and trash a: the old map says that a is in c, c
in b and b in a. The hook never returns, so nothing is stored, the job keeps its slot, and the
next start of the process meets the same difference. `runSyncWithWatchdog` only warns.
`OnlyTrashedMovesHang` states what remains true: without a folder that was moved and then
trashed, every sync gets to its paths.

Not listed as disagreements, since no document speaks of them, but named in the properties
as the only exceptions to what holds:

- `NothingSkipped`: the page token is stored before the scans are handed over; a crash or a
  refusal in between loses them (`lost`).
- `DiffsAreCovered`: what was moved and then trashed between two syncs is removed from where
  it went, and its old place is not scanned (`MisplacedFiles`).
- `Wanted`: of folders in each other only the upper one goes to the filter and the rewriter. If
  the filter rejects it, or a rule is for the lower one alone, the lower one is not scanned
  (`StandsFor`).
- `NothingUntold`, in `Forgiven`: a library made after the target was started, or below the
  folder of the row (`Unmatched`); a rewrite rule of a target for a folder below that of the
  row (`AboveRule`); a row that says a file announced with the change or after it, of
  which alone the targets that use the relative path are told (`Overwritten`: two files of one
  folder in one row, a rename within one folder, a file in a row that waits for folders below
  it); a file announced before the change excuses nothing; a relative path at an autoscan target, which
  sends the folder as it was before its rewrite rules (`NotRewritten`).

Each of these exceptions is needed: without it TLC finds the property violated.

## Proofs

`ProcessorProofs` proves, for any set of triggers and folders, any number of targets (at
least one) and anchors, any batches, minimum age and clock resolution:

| theorem | says |
|---|---|
| `TypeCorrect` | `Spec => []TypeOK` |
| `Invariance` | `Spec => []IInv` |
| `ScansAreNotLost` | `Spec => []NoScanLost` |
| `DispatchesAreGated` | `Spec => DispatchIsGated` |
| `ProcessorImplementsQueue` | `Spec => ImplementsQueue` |
| `MinAgeIsRespected` | `Spec => MinAgeRespected` |
| `RowsAreEvents` | `Spec => []RowsAreCommittedEvents` |
| `MostUrgentIsFirst` | `Spec => MostUrgentFirst` |
| `AddIsAtomic` | `Spec => BatchesAreAtomic` |

They assume `StoreAssumption` (priorities are integers, `NoRow` is not a row) and
`ProcessorAssumption` (types of the constants, at least one target; `Free` and `NoFolder`
are not a trigger and a folder). TLC evaluates both in every run.

`NoScanLost` alone is not inductive: that a deleted row is owed to nobody follows only from
what the loop did since it picked it, and that a commit loses no row only from what the
transaction has upserted. `IInv` adds

- `ConnectionInv`: without a transaction the connection sees the table; with one it sees at
  least the table's folders, and a row for every scan it has upserted;
- `ProcessInv`: the scan in `Process` keeps its row, a target that took it is not owed it
  unless it was overtaken, before `Delete` all of them have taken it, and no answer of an
  earlier round is left when the next begins;
- `GateInv`: which anchors the loop has found in this round at each of its points, and that every target that
  failed has been available since whenever `targetsAvailable` holds (with the exception of
  a failure that `Process` has not returned yet).

Each is preserved by lemmas for the triggers, the loop, the answers of the targets, exits
and the world. `GateInv` gives `DispatchIsGated`. The step part of `ImplementsQueue` maps
`Commit` to `Enqueue`, `Pick` to `Start`, `AnswerScan` to `Take` or a stutter, `Delete` to
`Finish`, the error paths and exits to `Abandon` or a stutter, and everything else to a
stutter. `MinAgeIsRespected` rests on `TimeInv`, that the second in a scan or row has not
ended before the moment it stands for, and on a lemma about truncation: when the cutoff's
second is later, the cutoff itself is. `RowsAreCommittedEvents` is not inductive, because a
commit replaces the table by what the transaction has made of it: `DraftInv` says that the
draft is at each point what the rows would say if the transaction ended there (the committed
events and those of the scans upserted so far), and `UpsertSays` and `EventsGrow` are one
upsert of it. With the order of `Candidates` it gives `MostUrgentFirst`. `AddIsAtomic` needs
more of the draft than `ConnectionInv`: `BatchInv` says that it is, at each point of the
transaction, the table with exactly the scans upserted so far, so that a commit makes of the
table what `UpsertedAll` makes of it, although other calls of `Add` and the loop ran meanwhile.

`InotifyProofs` proves `Spec => []TypeOK` (`TypeCorrect`), `Spec => []NoGap`
(`GapsAreKnown`) and `Spec => []ChangesAreKept` (`NoChangeIsDropped`) for any tree, rewriting, queue size and delay, from `InotifyAssumption`
(roots are directories, every other path has a directory). `NoGap` is not inductive: when
a directory becomes watched, its subdirectories must be reached already. `WalkInv` says so
of the directory that is about to be watched (what is in it is among the names, or blind),
and that a walk leaves nothing behind when it ends. The argument has three parts: a
directory that is reached stays so until it is watched or goes, one lemma for each
goroutine (`StaysReached`); one that is made under a watched directory, or in the window, is
announced or blind (`NewIsReached`); and the only step that watches a directory comes after
its names were read (`NoGapPreserved`). `ChangesAreKept` is not inductive either: the creation
of a file that is gone again is in flight, but `os.Stat` drops it, and that of a directory
sends nothing. `KeptInv` asks for more: the file of a creation still exists, or a removal of
the folder is in the events; `FileSystemKeeps` shows that a removal puts one there.

`BernardSyncProofs` proves every safety property of `BernardSync`, for any drives, triggers,
accounts, slots, retries and numbers of changes and failures, from `BernardSyncAssumption`
(types; finitely many drives). `SyncInv` strengthens them: `JobInv` relates a job to the page
token (its flag says whether there is one; scans are in hand only during the callback; what
is handed, lost or in hand lies behind the token; attempts are the failures in a row plus
the running one), `WaitersInv` says that only waiting jobs of an account are in its
queue, each once. A step of a job changes the variables of one drive only, so
`DriveStep` proves it for that drive and `OtherDrives` for the rest; the slots need the
cardinality of the running jobs, by `SlotTaken` and `SlotReleased`.

`ServiceProofs` proves that `ServiceSpec` implements `BernardSync!Spec`, so the theorems above
hold of the process, and `SchemaIsRecorded` and `JobsFindNewTables`. `SchemaIsRecorded` is not
inductive: `MigrationInv` says what the open transaction holds at each of its points, that
what is left are exactly the missing versions, and that the recorded ones are the lowest;
`AscendingAppend` is the lemma that the next version extends the order. `JobsFindNewTables`
needs that no job exists before the migrator is done (`StartedLast`).

`BernardDiffProofs` proves, for any finite set of folders, any files, names, first drives and
number of changes, from `BernardDiffAssumption` (the folders are finite, the top is not one of
them) and `TreesAssumption` (the first drives are trees):

| theorem | says |
|---|---|
| `LookupsAlwaysSucceed` | `DiffSpec => []FoldersAreFound` |
| `HangsAreTrashedMoves` | `DiffSpec => []OnlyTrashedMovesHang` |

and the lemma `DiffCovers`, on which `Delivery` rests. The inductive invariant is that store
and drive are trees. That a change leaves a tree is shown by ranks (`Ranked`: numbers that
grow from parent to item): a tree has them (its heights, `TreeRank`), and what has them is a
tree, as a way of as many steps as there are folders would visit one of them twice
(`RankedWay`). `PutTree`, `MarkedTree` and `PrunedTree` find the ranks after an upload, move or
rename, after trashing or restoring, and after a deletion.

*Nothing is not found*: `Current` and `Old` hold the record of the store or of the drive for
everything that either knows (`MapsComplete`), so a way stays in what is known (`KnownWay`).
*No sync hangs* but for what was moved and trashed: a way through a map that mixes two trees
meets items of four kinds in this order (only in the second tree, trashed in the first, seen in
the second, seen in the first) and each kind grows in the ranks of one tree (`GuidedWay`). The
new records always are such a map; the old ones are, unless a folder was moved and then trashed
(`WaysEnd`). *The diff is covered*: the way to a file that came is the drive's, and to one that
went the store's (`SightCovered`); if it is not where it was, a folder above it is among
those of the diff, and `RootFolders` leaves that one or one above (`RootAbove`).

`DeliveryProofs` proves, for any requests, rules, filters, libraries, drives and targets of the
four kinds, and any number of events and failures:

| theorem | says |
|---|---|
| `DeliveryTyped` | `Spec => []TypeOK` |
| `ChangesWait` | `Spec => []NothingUntold` |
| `SyncsCover` | `Spec => DiffsAreCovered` |

It assumes the above, `StoreAssumption`, and of the constants `DeliveryAssumption` (their types;
finitely many targets, because failures are counted; the restriction of the rules of
Lidarr and Readarr) and `FoldersAssumption` (the folders of the table are paths, and all that the
handlers and the drive may hand over are among them).

The argument follows a change. *From trigger to row*: whatever a handler hands over covers
what the event meant, and says of each scan the folder alone or a file that was meant
(`Handed`: a scan of the folder itself, or of whole folders only and one at or above it, `Covers`;
`Announces`); one lemma for each handler (`SonarrHands`, `RadarrHands`,
`TracksHand`, `ManualHands`, `TrainHands`) and `SyncHands` for a sync, from `DiffCovers`.
*In the table*: `UpsertedAll` keeps the rows it finds, changes only
those of folders in the batch and has one for each scan (`UpsertedAllRows`), so everything owed
has a row at or above its folder; `KeptPairs` says that what was announced later is remembered. *From row to server*:
what a target owes at or below the folder of a row is told by its requests, or forgiven
(`ServerTold`, by cases of the four kinds; `AutoscanSends` is about what arrives at a second
instance of autoscan). `NothingUntold` is not inductive. The rows that go must have told
everything: that needs that what is owed to a library is in it (`OwedBelongs`), or no request
would name that library, and that every owed change has a row at or above its folder that is of
a whole folder, of the change's own file, or of a file announced with it or after it
(`RowsStand`), or what a row says could not be excused (`Overwritten`). `IInv` is these two and
`TypeOK`, and `RowsStand` gives `NothingUntold`.

The provers here have no induction over numbers or data, as the library states it for an
operator. `DataLemmas` has three forms without one: a set of numbers has a least (`Least`, from
`NatLessThanWellFounded` and `WFMin`), a set that holds 0 and the successor of each of its
numbers holds all (`InductiveSet`), and a function on states can be iterated
(`Iteration`). The recursive functions `Up` and `UpsertedEach` and the folds of the handlers are
reasoned about with these.

Only model-checked: liveness, which is out of the prover's reach (`AddReturns` and `Drains` of
`Processor`, `ChangesArrive` of `Inotify`, `ChangesAreSettled` of `Service`, `ServersAreTold` of
`Delivery`), and what is violated. Every other property of a run is proved.

## Abstractions and omissions

- A failure of the database (begin, statement, commit, query) is any error at any time,
  within `MaxFaults`. What an error says is left out except for its class.
- `health` stands for the class of error of `Available` and `Scan`: "down" is
  `ErrTargetUnavailable`, "broken" `ErrFatal`. Any one call of `Scan` may also fail alone, and a target without a
  library for the folder says so before any request, whatever its health.
- The errgroup of `CheckAvailability` returns the error that came first; any failing target
  may be that one. `callTargets` returns the first in the order of the targets.
- `processMu` is left out: only the loop calls `Process`. Sleeps of the loop are stutters.
  `Process` checks anchors and targets in the loop only, as the code does.
- Stat errors other than "not found" make an anchor unavailable, as in the code.
- A committed transaction survives `Exit`. With `synchronous=NORMAL` a loss of power can
  undo the last transactions; this is not modelled.
- A configuration without targets exits at start-up and is excluded by
  `ProcessorAssumption`.
- Reads see the committed table and do not wait for the connection (WAL, a pool of its
  own); `GetScansRemaining` feeds a log line and changes nothing.
- `filepath.Walk`, fsnotify and inotify are not part of the repository; they are modelled by
  what they do: the order of names and callback in `Walk`, one event per change of a watched
  directory, in order, dropped when the queue is full. A watch goes with its directory. Not
  modelled: a renamed directory keeps its watch under its old name; the configured paths
  exist at start-up and stay.
- `queue.scans` counts down instead of holding times: only whether a folder is due matters.
  The lock of the queue guards a map that one goroutine uses, and is left out.
- Rewrite rules and filters are regular expressions in the code; here a pattern is a path, and
  matches the paths that begin with its names. Only which rule is used, and on which path,
  is checked. The folder of a request without a path is "." in the code and the empty path here. Wire formats (JSON, query strings, case of event types) are left out.
- Google Drive and the Bernard library are not part of the repository: a full sync stores the
  drive and a token no newer than its start; a partial sync calls the hooks with the
  difference between store and drive, then stores the drive and the new token in one
  transaction. Trashing a folder trashes what is in it. An ID is not used again.
- The code's error for a folder that is not found is a guard of the model (`NotFound`) without
  a step of its own, as it is never true (`LookupsAlwaysSucceed`): the store holds whole trees.
- The rate limiter of requests delays and changes nothing. `cron` entries fire at any time.
- In `Delivery` a batch is added at once and a row handed over at once; `Processor` has the
  interleavings of both. Priorities and times are constant there.
- What a server does with a request is what its documentation of the endpoint says: it scans
  the folder it is told of and what is below it, or looks at the one file (`Tells`).

Not modelled: the HTTP router (routing, authentication; no state but a ready flag that nothing
else reads), configuration and logging (read once, change nothing), `stats.Snapshot` (feeds a
log line), SQLite's pragmas and its loss of committed transactions at a power failure.

## What is left

- An abstract specification of `Delivery`: owed changes that are told, with rows, handlers and
  targets hidden. `NothingUntold` and `ServersAreTold` are its content today, `Forgiven` its
  exceptions.
- A composition of `Delivery` with the interleavings of `Processor`, in which a row may also go
  while an event is merged into it; today `NoScanLost` says this of scans and `NothingUntold`
  of what scans say, each on its own.
- `Delivery` with three events: two give every pair, three would give a row that is merged
  while another of its kind is failing. The theorems hold for any number.
